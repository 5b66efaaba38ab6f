------------------------------ MODULE Library ------------------------------
(***************************************************************************)
(* lzUtils: in every behavior `lib` says which part of the library is      *)
(* used: the command pipe (UserFifo), the byte rings (Rings), the voice    *)
(* detector (Vad) or the growing buffer (Autom).  The variables of the     *)
(* others keep one of their initial values.                                *)
(***************************************************************************)
EXTENDS Integers, Sequences

CONSTANTS
  Writers, BufSize, Room, MaxFrames, MaxInterrupts,  \* of UserFifo
  Uses,                                              \* of Rings
  Chunks, vadThreshold, MaxConfirm, MaxRun,          \* of Vad
  Sizes, Created, MaxBytes                           \* of Autom

VARIABLES
  lib,
  fifo, holders, pipe, proc, frame, frames, accepted, rbuf, errno, interrupts, handled,  \* UserFifo
  fullRead, vanished,
  use, mem, ri, wi, contex, empty, w, r, wcm, rcm, written, next, inOrder, eof, overrun, \* Rings
  startedConfirmCount, finishedConfirmCount, savedStatus, confirmCount, loud, quiet, finished, \* Vad
  is_malloc, block, pre_bytes, cur_bytes, tail, stale, numbers, expected, ordered, partly,
  shrunk, broken                                                \* Autom; mem and inOrder have names of their own

F == INSTANCE UserFifo
R == INSTANCE Rings
V == INSTANCE Vad
A == INSTANCE Autom WITH mem <- block, inOrder <- ordered

fifoVars == <<fifo, holders, pipe, proc, frame, frames, accepted, rbuf, errno, interrupts, handled,
              fullRead, vanished>>
rings    == <<use, mem, ri, wi, contex, empty, w, r, wcm, rcm, written, next, inOrder, eof, overrun>>
vad      == <<startedConfirmCount, finishedConfirmCount, savedStatus, confirmCount, loud, quiet, finished>>
autom    == <<is_malloc, block, pre_bytes, cur_bytes, tail, stale, numbers, expected, ordered, partly,
              shrunk, broken>>
all      == <<lib, fifoVars, rings, vad, autom>>

LibraryInit ==
  /\ lib \in {"user_fifo", "rings", "vad", "autom"}
  /\ F!Init /\ R!Init /\ V!Init /\ A!Init
  /\ lib # "rings" => use = CHOOSE u \in Uses : TRUE
  /\ lib # "vad"   => startedConfirmCount = 0 /\ finishedConfirmCount = 0
  /\ lib # "autom" => is_malloc

Fifo(Step) == lib = "user_fifo" /\ Step /\ UNCHANGED <<lib, rings, vad, autom>>

RunRings == lib = "rings" /\ R!Next /\ UNCHANGED <<lib, fifoVars, vad, autom>>
RunVad   == lib = "vad"   /\ V!Next /\ UNCHANGED <<lib, fifoVars, rings, autom>>
RunAutom == lib = "autom" /\ A!Next /\ UNCHANGED <<lib, fifoVars, rings, vad>>

LibraryNext == Fifo(F!Next) \/ RunRings \/ RunVad \/ RunAutom

\* See Spec of UserFifo.
LibrarySpec == LibraryInit /\ [][LibraryNext]_all /\ WF_all(Fifo(F!daemon))
-----------------------------------------------------------------------------
\* UserFifo: whole commands are handled, in order, and lost only for two reasons.
HandledInOrder == F!HandledInOrder

\* UserFifo: what is in the pipe is handled, unless a signal has interrupted a read.
ReadIsHandled == (pipe # <<>>) ~> ((pipe = <<>> /\ rbuf = <<>>) \/ errno = "EINTR")

\* Rings: the indices agree with the counts, and every byte is read once, in order.
\* Autom: the buffer stays in its memory and is read in order, but for two wrong uses.
BytesInOrder ==
  R!IndicesAgree /\ R!ReadsWhatWasWritten /\ A!InsideMemory /\ A!ReadInOrder

\* Vad: speech starts and finishes when as many chunks as were asked for confirm it.
Confirmed == V!Confirmed
=============================================================================
