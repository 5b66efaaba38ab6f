-------------------------------- MODULE Rings --------------------------------
(***************************************************************************)
(* package/libs/lzUtils: the byte rings csrb, shrb and ccsrb, each between *)
(* one writing and one reading thread (shrb: process).  A caller asks for  *)
(* room or bytes with a query, works on the memory it gets, and commits    *)
(* with a sync; a query that fails returns NULL and changes nothing.       *)
(*                                                                         *)
(* csrb and shrb have memory for twice the capacity.  write_sync mirrors   *)
(* bytes behind the end, or from there to the front, so that a range which *)
(* wraps is contiguous.  ccsrb hands out a temporary copy instead.  csrb   *)
(* and ccsrb do all of a sync under the mutex, shrb only the counting.     *)
(*                                                                         *)
(* The bytes of the stream are numbered modulo Numbers.                    *)
(***************************************************************************)
EXTENDS Integers, Sequences, FiniteSets

CONSTANT
  Uses  \* records [kind, capacity, w, r]: a ring and the sizes its writer
        \* and its reader ask for

RingsAssumption ==
  \A u \in Uses :
    /\ u.kind \in {"csrb", "shrb", "ccsrb"} /\ u.capacity \in Nat \ {0}
    /\ u.w \cup u.r \subseteq 1..u.capacity

VARIABLES
  use,           \* the ring at hand
  mem,           \* head (and tail), or mm
  ri, wi,        \* read and write index
  contex, empty, \* bytes to read, bytes of room
  w, r,          \* where writer and reader are, and the size they asked for
  wcm, rcm,      \* ccsrb: the temporary copies, <<>> when there is none
  written, next, \* number of the next byte to write, to read
  inOrder,       \* every byte read so far was the next one of the stream
  eof,           \* the writer committed less than it asked for, its last bytes
  overrun        \* a memcpy of write_sync had a negative length

idx    == <<ri, wi>>
counts == <<contex, empty>>
copies == <<wcm, rcm>>
stream == <<written, next, inOrder, eof, overrun>>
vars   == <<use, mem, idx, counts, w, r, copies, stream>>

C == use.capacity

\* Bound: two bytes of the stream with the same number are further apart than
\* the memory is long.
Numbers == 2 * C + 1

Nth(n, k) == (n + k) % Numbers

Init ==
  /\ use \in Uses
  /\ mem = [a \in 0..2 * C - 1 |-> Numbers]
  /\ ri = 0 /\ wi = 0
  /\ contex = 0 /\ empty = C
  /\ w = [at |-> "idle", n |-> 0] /\ r = w
  /\ wcm = <<>> /\ rcm = <<>>
  /\ written = 0 /\ next = 0 /\ inOrder = TRUE
  /\ eof = FALSE /\ overrun = FALSE

\* The sum of index i and n, taken back into the ring when it reaches its end.
Around(i, n) == IF i + n < C THEN i + n ELSE n - (C - i)

Wraps(i, n) == i + n >= C
-----------------------------------------------------------------------------
\* write_query(size) that finds room.
WQuery(n) ==
  /\ w.at = "idle" /\ ~eof /\ n \in use.w
  /\ n <= empty
  /\ w' = [at |-> "fill", n |-> n]
  /\ wcm' = IF use.kind = "ccsrb" /\ Wraps(wi, n) THEN [k \in 1..n |-> Numbers] ELSE <<>>
  /\ UNCHANGED <<use, mem, idx, counts, r, rcm, stream>>

\* The writer stores its bytes where write_query told it.  At the end of its
\* input the user of ccsrb has fewer than it asked for.
WFill(m) ==
  /\ w.at = "fill"
  /\ m = w.n \/ (use.kind = "ccsrb" /\ m \in 1..w.n)
  /\ w' = [at |-> "sync", n |-> m] /\ eof' = (m < w.n)
  /\ IF wcm = <<>>
     THEN /\ mem' = [a \in DOMAIN mem |-> IF a - wi \in 0..m - 1 THEN Nth(written, a - wi) ELSE mem[a]]
          /\ wcm' = wcm
     ELSE /\ wcm' = [k \in DOMAIN wcm |-> IF k <= m THEN Nth(written, k - 1) ELSE wcm[k]]
          /\ mem' = mem
  /\ written' = Nth(written, m)
  /\ UNCHANGED <<use, idx, counts, r, rcm, next, inOrder, overrun>>

\* Mutant: what was written behind the end is not copied to the front.
MirrorFrontOnly(n) ==
  [a \in DOMAIN mem |->
     IF ~Wraps(wi, n) /\ a - C \in wi..n - 1 THEN mem[a - C] ELSE mem[a]]

\* csrb and shrb: the copy loops of write_sync.  The loops start at wi and end
\* before size, so they mirror only the part of a range below size.
Mirror(n) ==
  IF ~Wraps(wi, n)
  THEN [a \in DOMAIN mem |-> IF a - C \in wi..n - 1 THEN mem[a - C] ELSE mem[a]]
  ELSE [a \in DOMAIN mem |->
          IF a - C \in wi..C - wi - 1 THEN mem[a - C]
          ELSE IF a \in 0..n - (C - wi) - 1 THEN mem[a + C] ELSE mem[a]]

WCount(n) == contex' = contex + n /\ empty' = empty - n

WDone == w' = [w EXCEPT !.at = "idle"]

\* csrb_write_sync, all of it under the mutex.
WSyncCsrb ==
  /\ use.kind = "csrb" /\ w.at = "sync"
  /\ mem' = Mirror(w.n) /\ wi' = Around(wi, w.n)
  /\ WCount(w.n) /\ WDone
  /\ UNCHANGED <<use, ri, r, copies, stream>>

\* shrb_write_sync before the lock, and under it.
WMirrorShrb ==
  /\ use.kind = "shrb" /\ w.at = "sync"
  /\ mem' = Mirror(w.n) /\ wi' = Around(wi, w.n)
  /\ w' = [w EXCEPT !.at = "count"]
  /\ UNCHANGED <<use, ri, counts, r, copies, stream>>

WCountShrb ==
  /\ w.at = "count"
  /\ WCount(w.n) /\ WDone
  /\ UNCHANGED <<use, mem, idx, r, copies, stream>>

\* ccsrb_write_sync: in place, or from the temporary copy, whose first part
\* goes to the end of the ring.  If there are fewer bytes than that part has,
\* the length of the second memcpy is below zero.
WSyncCcsrb ==
  /\ use.kind = "ccsrb" /\ w.at = "sync"
  /\ IF wcm = <<>>
     THEN mem' = mem /\ wi' = wi + w.n /\ overrun' = overrun
     ELSE /\ mem' = [a \in DOMAIN mem |->
                       IF a \in wi..C - 1 THEN wcm[a - wi + 1]
                       ELSE IF a \in 0..w.n - (C - wi) - 1 THEN wcm[C - wi + a + 1] ELSE mem[a]]
          /\ wi' = w.n - (C - wi)
          /\ overrun' = (w.n < C - wi)
  /\ wcm' = <<>>
  /\ WCount(w.n) /\ WDone
  /\ UNCHANGED <<use, ri, r, rcm, written, next, inOrder, eof>>
-----------------------------------------------------------------------------
\* read_query(size) that finds the bytes; ccsrb copies a range that wraps.
RQuery(n) ==
  /\ r.at = "idle" /\ n \in use.r
  /\ n <= contex
  /\ r' = [at |-> "take", n |-> n]
  /\ rcm' = IF use.kind = "ccsrb" /\ Wraps(ri, n) THEN [k \in 1..n |-> mem[(ri + k - 1) % C]] ELSE <<>>
  /\ UNCHANGED <<use, mem, idx, counts, w, wcm, stream>>

\* The reader uses the bytes it was given.
RTake ==
  /\ r.at = "take"
  /\ r' = [r EXCEPT !.at = "sync"]
  /\ next' = Nth(next, r.n)
  /\ inOrder' = (inOrder /\ \A k \in 0..r.n - 1 :
                   (IF rcm = <<>> THEN mem[ri + k] ELSE rcm[k + 1]) = Nth(next, k))
  /\ UNCHANGED <<use, mem, idx, counts, w, copies, written, eof, overrun>>

RCount(n) == contex' = contex - n /\ empty' = empty + n

RDone == r' = [r EXCEPT !.at = "idle"]

\* csrb_read_sync, ccsrb_read_sync.
RSync ==
  /\ use.kind # "shrb" /\ r.at = "sync"
  /\ ri' = Around(ri, r.n)
  /\ RCount(r.n) /\ RDone /\ rcm' = <<>>
  /\ UNCHANGED <<use, mem, wi, w, wcm, stream>>

RAdvanceShrb ==
  /\ use.kind = "shrb" /\ r.at = "sync"
  /\ ri' = Around(ri, r.n)
  /\ r' = [r EXCEPT !.at = "count"]
  /\ UNCHANGED <<use, mem, wi, counts, w, copies, stream>>

RCountShrb ==
  /\ r.at = "count"
  /\ RCount(r.n) /\ RDone
  /\ UNCHANGED <<use, mem, idx, w, copies, stream>>

\* clear, between the calls of both sides: it takes no part in their protocol.
Clear ==
  /\ w.at = "idle" /\ r.at = "idle"
  /\ ri' = 0 /\ wi' = 0 /\ contex' = 0 /\ empty' = C
  /\ next' = written
  /\ UNCHANGED <<use, mem, w, r, copies, written, inOrder, eof, overrun>>

Writer == (\E n \in 1..C : WQuery(n) \/ WFill(n)) \/ WSyncCsrb \/ WMirrorShrb \/ WCountShrb \/ WSyncCcsrb
Reader == (\E n \in 1..C : RQuery(n)) \/ RTake \/ RSync \/ RAdvanceShrb \/ RCountShrb

Next == ~overrun /\ (Writer \/ Reader \/ Clear)

Spec == Init /\ [][Next]_vars
-----------------------------------------------------------------------------
\* The indices stay in the ring and agree with the counts, whatever the two
\* sides are doing: no byte of room or of content is counted twice or lost.
IndicesAgree ==
  /\ ri \in 0..C - 1 /\ empty \in 0..C
  /\ contex + empty = C
  /\ ~overrun => wi \in 0..C - 1
  /\ ~overrun => (wi - ri - contex - (IF w.at = "count" THEN w.n ELSE 0)
                          + (IF r.at = "count" THEN r.n ELSE 0)) % C = 0

\* The reader gets every byte once, in the order of the stream, also when it
\* reads a range that wraps while the writer writes; memory is overrun only by
\* a ccsrb writer that commits less than it asked for at the end of the ring.
ReadsWhatWasWritten == inOrder /\ (overrun => eof)

Multiple(n, g) == \E q \in 0..n : n = g * q

\* The uses for which the bytes that csrb and shrb mirror are enough: the writer asks
\* for one size n only, and the wrapped part of a read is never longer than that.
\* (ccsrb mirrors nothing and has no such condition.)
Suits(u) ==
  u.kind = "ccsrb" \/
  \E n \in u.w, g \in 1..u.capacity :
    /\ u.w = {n}
    /\ Multiple(u.capacity, g) /\ \A m \in u.r : Multiple(m, g) /\ m <= n + g
=============================================================================
