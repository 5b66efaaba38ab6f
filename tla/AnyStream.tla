------------------------------ MODULE AnyStream ------------------------------
(***************************************************************************)
(* The class anyStream of package/app/RtspPullHandle/src-v0.1 .. src-v0.5: *)
(* a ring of packet pointers with a read and a write index.  One entry     *)
(* stays free, so that equal indices mean empty.  The class has no lock.   *)
(***************************************************************************)
EXTENDS Integers, Sequences

CONSTANT mMax      \* number of entries

ASSUME MaxAssumption == mMax \in Nat \ {0}

NULL    == 0
Entries == 0 .. mMax - 1

anyStream == [mVct |-> [i \in Entries |-> NULL], ri |-> 0, wi |-> 0]

following(i) == IF i + 1 < mMax THEN i + 1 ELSE 0

\* The oldest packet, NULL when there is none.
getOne(s) == IF s.wi = s.ri THEN NULL ELSE s.mVct[s.ri]

\* The oldest packet is deleted and its entry cleared.
getSync(s) ==
  [mVct |-> [s.mVct EXCEPT ![s.ri] = NULL], ri |-> following(s.ri), wi |-> s.wi]

\* Mutant: the entry before the free one is overwritten too.
fullLate(s) == s.ri = 0 /\ s.wi = mMax

full(s) == following(s.wi) = s.ri

store(s, p) ==
  [mVct |-> [s.mVct EXCEPT ![s.wi] = p], ri |-> s.ri, wi |-> following(s.wi)]

\* A write that makes room by deleting the oldest packet.
cycWrite(s, p) == store(IF full(s) THEN getSync(s) ELSE s, p)

\* A write that refuses: DONE.
writeOne(s, p) == IF full(s) THEN s ELSE store(s, p)

\* getRiFlag looks at the entry without asking whether the ring is empty.
oldest(s) == s.mVct[s.ri]
-----------------------------------------------------------------------------
\* The entries between the indices.
Used(s, i) == IF s.ri <= s.wi THEN s.ri <= i /\ i < s.wi ELSE s.ri <= i \/ i < s.wi

\* The entries between the indices hold packets, the others are NULL: no packet
\* is lost, deleted twice or read where there is none.
RingOK(s) ==
  /\ s \in [mVct : [Entries -> Nat], ri : Entries, wi : Entries]
  /\ \A i \in Entries : s.mVct[i] # NULL <=> Used(s, i)

\* The number of packets between two indices, and the entry of the k-th of them.
distance(r, w) == IF r <= w THEN w - r ELSE w - r + mMax
place(r, k)    == IF r + k - 1 < mMax THEN r + k - 1 ELSE r + k - 1 - mMax

Count(s) == distance(s.ri, s.wi)

\* The packets of the ring, oldest first.
Contents(s) == [k \in 1 .. Count(s) |-> s.mVct[place(s.ri, k)]]
=============================================================================
