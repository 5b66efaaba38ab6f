------------------------------- MODULE Autom -------------------------------
(***************************************************************************)
(* libs/lzUtils/src/autom: a growing buffer.  autom_write appends behind   *)
(* the cur_bytes bytes that are to be read, autom_read hands out a pointer *)
(* to the oldest of them, autom_reset makes all bytes readable again.      *)
(*                                                                         *)
(* Bytes are numbered in the order in which they are written.  The model   *)
(* stops where the code leaves its memory, with the reason in `broken`.    *)
(***************************************************************************)
EXTENDS Integers, SequencesExt

CONSTANTS
  Sizes,      \* sizes of writes and reads
  Created,    \* pre_bytes
  MaxBytes    \* bound: bytes written

AutomAssumption == Sizes \subseteq Nat \ {0} /\ Created \in Nat \ {0} /\ MaxBytes \in Nat

VARIABLES
  is_malloc,   \* the memory is the buffer's own, or handed to autom_create
  mem,         \* the block head points to; 0 is a byte never written
  pre_bytes, cur_bytes,
  tail,        \* tail - head, as long as they point into the same block
  stale,       \* tail points into a block that realloc has moved
  numbers,     \* bytes written so far
  expected,    \* the next byte to be read, in the order of the stream
  inOrder,     \* every read got the next bytes
  partly,      \* history: something was written while bytes were read in part
  shrunk,      \* history: autom_breset took memory away
  broken

vars == <<is_malloc, mem, pre_bytes, cur_bytes, tail, stale, numbers, expected, inOrder, partly,
          shrunk, broken>>

\* autom_create: own memory is empty, memory handed in is full of bytes to read.
Init ==
  /\ is_malloc \in BOOLEAN
  /\ mem = [i \in 1 .. Created |-> IF is_malloc THEN 0 ELSE i]
  /\ pre_bytes = Created
  /\ cur_bytes = (IF is_malloc THEN 0 ELSE Created) /\ tail = cur_bytes /\ numbers = cur_bytes
  /\ stale = FALSE /\ expected = 1 /\ inOrder = TRUE
  /\ partly = FALSE /\ shrunk = FALSE /\ broken = "no"

Grown(m, n) == m \o [i \in 1 .. n - Len(m) |-> 0]

need(bytes) == cur_bytes + bytes + 1

\* Mutant: the bytes go behind the last one written, not behind those to be read.
WriteAtTail(m, bytes) ==
  [i \in DOMAIN m |-> IF i \in cur_bytes + 1 .. cur_bytes + bytes THEN numbers ELSE m[i]]

Written(m, bytes) ==
  [i \in DOMAIN m |-> IF i \in cur_bytes + 1 .. cur_bytes + bytes THEN numbers + i - cur_bytes
                      ELSE IF i = cur_bytes + bytes + 1 THEN 0 ELSE m[i]]

\* realloc takes only memory of the heap, which the caller's need not be.
autom_write(bytes) ==
  /\ numbers + bytes <= MaxBytes
  /\ LET grows == need(bytes) > pre_bytes
         m     == IF grows THEN Grown(mem, need(bytes)) ELSE mem
     IN /\ broken' = IF grows /\ ~is_malloc THEN "foreign"
                     ELSE IF Len(m) < cur_bytes + bytes + 1 THEN "overrun" ELSE "no"
        /\ mem' = IF broken' = "no" THEN Written(m, bytes) ELSE mem
        /\ pre_bytes' = IF grows THEN need(bytes) ELSE pre_bytes
  /\ cur_bytes' = cur_bytes + bytes /\ tail' = cur_bytes + bytes /\ stale' = FALSE
  /\ numbers' = numbers + bytes
  /\ partly' = (partly \/ cur_bytes < tail)
  /\ UNCHANGED <<is_malloc, expected, inOrder, shrunk>>

autom_read(bytes) ==
  /\ cur_bytes >= bytes
  /\ broken' = IF stale THEN "freed" ELSE broken
  /\ inOrder' = (inOrder /\ (stale \/ \A i \in 1 .. bytes :
                   tail - cur_bytes + i \in DOMAIN mem /\ mem[tail - cur_bytes + i] = expected + i - 1))
  /\ cur_bytes' = cur_bytes - bytes /\ expected' = expected + bytes
  /\ UNCHANGED <<is_malloc, mem, pre_bytes, tail, stale, numbers, partly, shrunk>>

\* From the start again.
autom_reset ==
  /\ broken' = IF stale THEN "freed" ELSE broken
  /\ cur_bytes' = tail /\ expected' = numbers - tail + 1
  /\ UNCHANGED <<is_malloc, mem, pre_bytes, tail, stale, numbers, inOrder, partly, shrunk>>

\* ... and with less memory: neither pre_bytes nor tail hears of it.
autom_breset(bytes) ==
  /\ cur_bytes' = tail /\ expected' = numbers - tail + 1
  /\ IF pre_bytes > bytes
     THEN /\ broken' = IF stale THEN "freed" ELSE IF ~is_malloc THEN "foreign" ELSE broken
          /\ mem' = SubSeq(mem, 1, IF bytes < Len(mem) THEN bytes ELSE Len(mem))
          /\ stale' \in BOOLEAN /\ shrunk' = TRUE
     ELSE broken' = (IF stale THEN "freed" ELSE broken) /\ UNCHANGED <<mem, stale, shrunk>>
  /\ UNCHANGED <<is_malloc, pre_bytes, tail, numbers, inOrder, partly>>

autom_clear ==
  /\ broken' = IF cur_bytes > Len(mem) THEN "overrun" ELSE broken
  /\ mem' = [i \in DOMAIN mem |-> IF i <= cur_bytes THEN 0 ELSE mem[i]]
  /\ cur_bytes' = 0 /\ tail' = 0 /\ stale' = FALSE /\ expected' = numbers + 1
  /\ UNCHANGED <<is_malloc, pre_bytes, numbers, inOrder, partly, shrunk>>

Next ==
  /\ broken = "no"
  /\ \/ autom_reset \/ autom_clear
     \/ \E bytes \in Sizes : autom_write(bytes) \/ autom_read(bytes) \/ autom_breset(bytes)

Spec == Init /\ [][Next]_vars
-----------------------------------------------------------------------------
\* The buffer stays inside its memory, terminator included, until autom_breset has
\* taken some away; memory that was handed in must not have to grow.
InsideMemory ==
  /\ broken # "no" => shrunk \/ (broken = "foreign" /\ ~is_malloc)
  /\ broken = "no" /\ ~shrunk => cur_bytes <= tail /\ tail <= Len(mem) /\ pre_bytes = Len(mem)

\* Bytes are read in the order in which they were written, unless something was
\* written while others were read in part: it goes over bytes that are still to be read.
ReadInOrder == inOrder \/ partly \/ shrunk
=============================================================================
