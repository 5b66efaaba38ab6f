----------------------------- MODULE MCLibrary -----------------------------
(***************************************************************************)
(* lzUtils on small instances.                                             *)
(*                                                                         *)
(* Rings of a few bytes.  csrb.h asks for a capacity that is a common      *)
(* multiple of the two sizes (6, 2, 3); the test program in csrb.c has     *)
(* 512, 256 and 320 bytes, here divided by 64, and so ranges that wrap.    *)
(* With a capacity of 5 and a writer of 3 bytes writes wrap.               *)
(***************************************************************************)
EXTENDS Library

MCWriters == {"w1", "w2"}

Ring(ring, capacity, ws, rs) == [kind |-> ring, capacity |-> capacity, w |-> ws, r |-> rs]

MCUses ==
  {Ring(k, 6, {2}, {3}) : k \in {"csrb", "shrb"}} \cup
  {Ring(k, 6, {3}, {2}) : k \in {"csrb", "shrb"}} \cup
  {Ring(k, 8, {4}, {5}) : k \in {"csrb", "shrb"}} \cup
  {Ring(k, 5, {3}, {1}) : k \in {"csrb", "shrb"}} \cup
  {Ring("ccsrb", 4, {1, 3}, {1, 2, 4})}

\* Chunks of no, one, nine and twenty units, the first of which are loud.
MCChunks ==
  {[i \in 1 .. n |-> IF i <= k THEN <<-2, 1>> ELSE <<0, -1>>] : n \in {0, 1, 9, 20}, k \in {0, 1, 2, 9}}

MCSizes == 1 .. 3

ASSUME F!FifoAssumption /\ R!RingsAssumption /\ V!VadAssumption /\ A!AutomAssumption

\* What the theorems of LibraryProofs assume of the uses of a ring and of the chunks.
ASSUME \A u \in MCUses : R!Suits(u)
ASSUME \A chunk \in MCChunks : V!isChunkSpeaking(chunk) = V!Heard(chunk)
=============================================================================
