------------------------------ MODULE RtspProofs ------------------------------
(***************************************************************************)
(* RtspPullHandle, for every frame rate, number of packets, triggers and   *)
(* upload or clip threads.  The older versions: the rings stay sound, a    *)
(* trigger that comes in time does no harm, and its clip has no gap.  The  *)
(* current one: who owns the frames, and in which order they are uploaded. *)
(***************************************************************************)
EXTENDS RtspClips, RtspPull, ListLemmas, TLAPS

\* The ring of anyStream: what its operations do to it, for every mMax.

\* A new ring is sound and empty.
LEMMA NewRing == RingOK(anyStream) /\ Contents(anyStream) = <<>>
  BY MaxAssumption DEF anyStream, RingOK, Used, Entries, NULL, Contents, Count, distance

\* The next index is an index: the ring wraps.
LEMMA FollowingType == ASSUME NEW i \in Entries PROVE following(i) \in Entries
  BY MaxAssumption DEF following, Entries

\* A ring that is not empty has a packet at its read index: readOne and
\* getSync never meet a null pointer.
LEMMA OldestExists ==
  ASSUME NEW s, RingOK(s), s.wi # s.ri
  PROVE  oldest(s) # NULL /\ getOne(s) = oldest(s)
  BY MaxAssumption DEF RingOK, Used, Entries, oldest, getOne

\* An empty ring has no packet there: getRiFlag tells it by the NULL entry.
LEMMA EmptyHasNone ==
  ASSUME NEW s, RingOK(s), s.wi = s.ri
  PROVE  oldest(s) = NULL /\ getOne(s) = NULL
  BY MaxAssumption DEF RingOK, Used, Entries, oldest, getOne

\* getSync keeps the ring sound.
LEMMA SyncSound ==
  ASSUME NEW s, RingOK(s), s.wi # s.ri
  PROVE  RingOK(getSync(s))
<1> DEFINE t == getSync(s)
<1>1. /\ s.ri \in Entries /\ s.wi \in Entries /\ s.mVct \in [Entries -> Nat]
      /\ \A i \in Entries : s.mVct[i] # NULL <=> Used(s, i)
  BY DEF RingOK
<1>2. /\ t = [mVct |-> t.mVct, ri |-> t.ri, wi |-> t.wi]
      /\ t.mVct = [s.mVct EXCEPT ![s.ri] = NULL] /\ t.ri = following(s.ri) /\ t.wi = s.wi
  BY DEF getSync
<1>3. t.mVct \in [Entries -> Nat] /\ t.ri \in Entries /\ t.wi \in Entries
  BY <1>1, <1>2, FollowingType DEF NULL
<1>4. ASSUME NEW i \in Entries PROVE t.mVct[i] # NULL <=> Used(t, i)
  <2>1. Used(t, i) <=> Used(s, i) /\ i # s.ri
    BY <1>1, <1>2, MaxAssumption DEF Used, Entries, following
  <2>2. t.mVct[i] # NULL <=> s.mVct[i] # NULL /\ i # s.ri
    BY <1>1, <1>2 DEF NULL
  <2> QED BY <1>1, <2>1, <2>2
<1>5. t \in [mVct : [Entries -> Nat], ri : Entries, wi : Entries]
  BY <1>2, <1>3
<1> QED BY <1>4, <1>5 DEF RingOK

\* A store into a ring with room keeps it sound.
LEMMA StoreSound ==
  ASSUME NEW s, RingOK(s), ~full(s), NEW p \in Nat \ {NULL}
  PROVE  RingOK(store(s, p))
<1> DEFINE t == store(s, p)
<1>1. /\ s.ri \in Entries /\ s.wi \in Entries /\ s.mVct \in [Entries -> Nat]
      /\ \A i \in Entries : s.mVct[i] # NULL <=> Used(s, i)
  BY DEF RingOK
<1>2. /\ t = [mVct |-> t.mVct, ri |-> t.ri, wi |-> t.wi]
      /\ t.mVct = [s.mVct EXCEPT ![s.wi] = p] /\ t.ri = s.ri /\ t.wi = following(s.wi)
  BY DEF store
<1>3. t.mVct \in [Entries -> Nat] /\ t.ri \in Entries /\ t.wi \in Entries
  BY <1>1, <1>2, FollowingType
<1>4. ASSUME NEW i \in Entries PROVE t.mVct[i] # NULL <=> Used(t, i)
  <2>1. Used(t, i) <=> Used(s, i) \/ i = s.wi
    BY <1>1, <1>2, MaxAssumption DEF Used, Entries, following, full
  <2>2. t.mVct[i] # NULL <=> s.mVct[i] # NULL \/ i = s.wi
    BY <1>1, <1>2 DEF NULL
  <2> QED BY <1>1, <2>1, <2>2
<1>5. t \in [mVct : [Entries -> Nat], ri : Entries, wi : Entries]
  BY <1>2, <1>3
<1> QED BY <1>4, <1>5 DEF RingOK

\* Arithmetic of the indices: what advancing the read or the write index does
\* to the distance and to the places.
LEMMA Distances ==
  ASSUME NEW r \in Entries, NEW w \in Entries
  PROVE  /\ distance(r, w) \in 0 .. mMax - 1
         /\ \A k \in 1 .. distance(r, w) : place(r, k) \in Entries /\ place(r, k) # w
         /\ place(r, distance(r, w) + 1) = w
  BY MaxAssumption DEF distance, place, Entries

\* Moving the read index drops the first of the places between the indices.
LEMMA ReadAdvances ==
  ASSUME NEW r \in Entries, NEW w \in Entries, r # w
  PROVE  /\ distance(r, w) = distance(following(r), w) + 1
         /\ \A k \in 1 .. distance(following(r), w) :
              place(following(r), k) = place(r, k + 1) /\ place(r, k + 1) # r
  BY MaxAssumption DEF distance, place, following, Entries

\* Moving the write index adds one place.
LEMMA WriteAdvances ==
  ASSUME NEW r \in Entries, NEW w \in Entries, following(w) # r
  PROVE  distance(r, following(w)) = distance(r, w) + 1
  BY MaxAssumption DEF distance, following, Entries

\* The packets of a sound ring as a sequence of at most mMax - 1 numbers.
LEMMA ContentsType ==
  ASSUME NEW s, RingOK(s)
  PROVE  Contents(s) \in Seq(Nat) /\ Len(Contents(s)) = Count(s) /\ Count(s) \in 0 .. mMax - 1
<1>1. s.ri \in Entries /\ s.wi \in Entries /\ s.mVct \in [Entries -> Nat]
  BY DEF RingOK
<1>2. Count(s) \in 0 .. mMax - 1 /\ \A k \in 1 .. Count(s) : place(s.ri, k) \in Entries
  BY <1>1, Distances DEF Count
<1>3. Count(s) \in Nat /\ \A k \in 1 .. Count(s) : s.mVct[place(s.ri, k)] \in Nat
  BY <1>1, <1>2, MaxAssumption
<1> QED BY <1>2, <1>3 DEF Contents

\* A sequence is the function of its entries.
LEMMA SeqAsFunction ==
  ASSUME NEW q \in Seq(Nat)
  PROVE  q = [k \in 1 .. Len(q) |-> q[k]]
  BY LenProperties

\* getSync removes the oldest packet.
LEMMA SyncTail ==
  ASSUME NEW s, RingOK(s), s.wi # s.ri
  PROVE  Contents(getSync(s)) = Tail(Contents(s)) /\ Contents(s) # <<>>
<1>1. s.ri \in Entries /\ s.wi \in Entries /\ s.mVct \in [Entries -> Nat]
  BY DEF RingOK
<1> DEFINE r == s.ri
           w == s.wi
           n == distance(following(r), w)
<1>2. /\ distance(r, w) = n + 1 /\ n \in 0 .. mMax - 1
      /\ \A k \in 1 .. n : place(following(r), k) = place(r, k + 1) /\ place(r, k + 1) # r
      /\ \A k \in 1 .. n : place(following(r), k) \in Entries
  BY <1>1, ReadAdvances, Distances, FollowingType
<1>3. Contents(getSync(s)) = [k \in 1 .. n |-> [s.mVct EXCEPT ![r] = NULL][place(following(r), k)]]
  BY DEF Contents, Count, getSync
<1>4. \A k \in 1 .. n : [s.mVct EXCEPT ![r] = NULL][place(following(r), k)] = s.mVct[place(r, k + 1)]
  BY <1>1, <1>2
<1>5. Contents(s) = [k \in 1 .. n + 1 |-> s.mVct[place(r, k)]]
  BY <1>2 DEF Contents, Count
<1> HIDE DEF r, w, n
<1>6. n \in Nat
  BY <1>2, MaxAssumption
<1>7. Contents(s) \in Seq(Nat) /\ Len(Contents(s)) = n + 1
  BY <1>2, ContentsType DEF Count, r, w
<1>8. /\ Contents(s) # <<>>
      /\ Len(Tail(Contents(s))) = n
      /\ \A k \in 1 .. n : Tail(Contents(s))[k] = Contents(s)[k + 1]
      /\ Tail(Contents(s)) \in Seq(Nat)
  BY <1>6, <1>7
<1>9. \A k \in 1 .. n : Contents(s)[k + 1] = s.mVct[place(r, k + 1)]
  BY <1>5, <1>6
<1>10. Tail(Contents(s)) = [k \in 1 .. n |-> s.mVct[place(r, k + 1)]]
  <2>1. \A k \in 1 .. n : Tail(Contents(s))[k] = s.mVct[place(r, k + 1)]
    BY <1>8, <1>9
  <2>2. Tail(Contents(s)) = [k \in 1 .. n |-> Tail(Contents(s))[k]]
    BY <1>8, SeqAsFunction
  <2> QED BY <2>1, <2>2
<1> QED BY <1>3, <1>4, <1>8, <1>10

\* A store appends the packet.
LEMMA StoreAppend ==
  ASSUME NEW s, RingOK(s), ~full(s), NEW p \in Nat \ {NULL}
  PROVE  Contents(store(s, p)) = Append(Contents(s), p)
<1>1. s.ri \in Entries /\ s.wi \in Entries /\ s.mVct \in [Entries -> Nat]
  BY DEF RingOK
<1> DEFINE r == s.ri
           w == s.wi
           n == distance(r, w)
<1>2. /\ distance(r, following(w)) = n + 1 /\ n \in 0 .. mMax - 1 /\ place(r, n + 1) = w
      /\ \A k \in 1 .. n : place(r, k) \in Entries /\ place(r, k) # w
  BY <1>1, WriteAdvances, Distances DEF full
<1>3. Contents(store(s, p)) = [k \in 1 .. n + 1 |-> [s.mVct EXCEPT ![w] = p][place(r, k)]]
  BY <1>2 DEF Contents, Count, store
<1>4. Contents(s) = [k \in 1 .. n |-> s.mVct[place(r, k)]]
  BY DEF Contents, Count
<1> HIDE DEF r, w, n
<1>5. n \in Nat /\ w \in Entries
  BY <1>1, <1>2, MaxAssumption DEF w
<1>6. Contents(s) \in Seq(Nat) /\ Len(Contents(s)) = n
  BY ContentsType DEF Count, r, w, n
<1>7. ASSUME NEW k \in 1 .. n + 1
      PROVE  [s.mVct EXCEPT ![w] = p][place(r, k)] = IF k = n + 1 THEN p ELSE Contents(s)[k]
  <2>1. CASE k = n + 1
    BY <2>1, <1>1, <1>2, <1>5
  <2>2. CASE k # n + 1
    <3>1. k \in 1 .. n
      BY <2>2, <1>5
    <3>2. [s.mVct EXCEPT ![w] = p][place(r, k)] = s.mVct[place(r, k)]
      BY <3>1, <1>1, <1>2
    <3> QED BY <3>1, <3>2, <2>2, <1>4
  <2> QED BY <2>1, <2>2
<1>8. Append(Contents(s), p) = [k \in 1 .. n + 1 |-> IF k = n + 1 THEN p ELSE Contents(s)[k]]
  <2>1. p \in Nat
    OBVIOUS
  <2>2. /\ Append(Contents(s), p) \in Seq(Nat) /\ Len(Append(Contents(s), p)) = n + 1
        /\ \A k \in 1 .. n : Append(Contents(s), p)[k] = Contents(s)[k]
        /\ Append(Contents(s), p)[n + 1] = p
    BY <1>5, <1>6, <2>1, AppendProperties
  <2>3. Append(Contents(s), p) = [k \in 1 .. n + 1 |-> Append(Contents(s), p)[k]]
    BY <2>2, SeqAsFunction
  <2>4. \A k \in 1 .. n + 1 : Append(Contents(s), p)[k] = IF k = n + 1 THEN p ELSE Contents(s)[k]
    BY <1>5, <2>2
  <2> QED BY <2>3, <2>4
<1> QED BY <1>3, <1>7, <1>8

\* cycWrite keeps the ring sound, and is the write of a FIFO of mMax - 1 packets
\* that deletes its oldest packet when it is full; with a single entry there is
\* no room for any.
THEOREM CycWriteSound ==
  ASSUME NEW s, RingOK(s), NEW p \in Nat \ {NULL}, mMax > 1
  PROVE  /\ RingOK(cycWrite(s, p))
         /\ Contents(cycWrite(s, p)) = Append(IF full(s) THEN Tail(Contents(s)) ELSE Contents(s), p)
<1>1. CASE ~full(s)
  BY <1>1, StoreSound, StoreAppend DEF cycWrite
<1>2. CASE full(s)
  <2>1. s.wi # s.ri
    BY <1>2 DEF RingOK, full, following, Entries
  <2>2. RingOK(getSync(s)) /\ Contents(getSync(s)) = Tail(Contents(s))
    BY <2>1, SyncSound, SyncTail
  <2>3. ~full(getSync(s))
    <3>1. getSync(s).ri = following(s.ri) /\ getSync(s).wi = s.wi
      BY DEF getSync
    <3>2. s.ri \in Entries /\ s.wi \in Entries
      BY DEF RingOK
    <3> QED BY <1>2, <3>1, <3>2, MaxAssumption DEF full, following, Entries
  <2>4. RingOK(store(getSync(s), p)) /\ Contents(store(getSync(s), p)) = Append(Contents(getSync(s)), p)
    BY <2>2, <2>3, StoreSound, StoreAppend
  <2> QED BY <1>2, <2>2, <2>4 DEF cycWrite
<1> QED BY <1>1, <1>2
-----------------------------------------------------------------------------
SoundRing  == {s \in [mVct : [Entries -> Nat], ri : Entries, wi : Entries] : RingOK(s)}
StreamType == [befor : SoundRing, after : SoundRing, is_befor_read_done : BOOLEAN]
PackStep   == {"open", "write", "push", "done", "failed"}
PackType   == [at : PackStep, bas : Nat, file : Seq(Nat)]

\* What the steps need: the packets seen are numbered from 1, every ring is
\* sound, and every clip thread works on a BAStream that was allocated.
IInv ==
  /\ keys \in Seq(BOOLEAN)
  /\ pull \notin {"open", "recv", "end"} => Len(keys) > 0
  /\ streams \in Seq(StreamType)
  /\ packs \in Seq(PackType)
  /\ \A u \in 1 .. Len(packs) : packs[u].bas \in 1 .. Len(streams)

\* A sound ring is one that satisfies RingOK.
LEMMA SoundIsOK == ASSUME NEW s PROVE s \in SoundRing <=> RingOK(s)
  BY DEF SoundRing, RingOK

\* writeOne stores the packet or refuses it.
LEMMA WriteOneSound ==
  ASSUME NEW s \in SoundRing, NEW p \in Nat \ {NULL}
  PROVE  writeOne(s, p) \in SoundRing
  BY SoundIsOK, StoreSound DEF writeOne

\* cycWrite makes room by itself.
LEMMA CycWriteType ==
  ASSUME NEW s \in SoundRing, NEW p \in Nat \ {NULL}
  PROVE  cycWrite(s, p) \in SoundRing
  BY SoundIsOK, CycWriteSound, ClipsAssumption

\* A ring that getOne finds a packet in can be advanced.
LEMMA SyncType ==
  ASSUME NEW s \in SoundRing, getOne(s) # NULL
  PROVE  getSync(s) \in SoundRing /\ getOne(s) \in Nat
<1>1. s.wi # s.ri /\ getOne(s) = s.mVct[s.ri]
  BY DEF getOne
<1> QED BY <1>1, SoundIsOK, SyncSound DEF SoundRing

\* Replacing one BAStream keeps the others and their number.
LEMMA Replaced ==
  ASSUME NEW q \in Seq(StreamType), NEW b \in 1 .. Len(q), NEW e \in StreamType
  PROVE  [q EXCEPT ![b] = e] \in Seq(StreamType) /\ Len([q EXCEPT ![b] = e]) = Len(q)
  BY ExceptSeq

\* A packet written to the first or the second ring of the last BAStream.
LEMMA WriteKeeps ==
  ASSUME IInv, pull \notin {"open", "recv", "end"}, Misuse = "no", writeBefor \/ writeAfter
  PROVE  streams' \in Seq(StreamType) /\ Len(streams') = Len(streams)
<1> DEFINE b == Len(streams)
<1>1. pkt \in Nat \ {NULL}
  BY DEF IInv, pkt, NULL
<1>2. b \in 1 .. Len(streams) /\ streams[b] \in StreamType
  <2>1. b # 0
    BY DEF Misuse, mVbas
  <2> QED BY <2>1, LenProperties, ElementOfSeq DEF IInv
<1>3. CASE writeBefor
  <2> DEFINE e == [streams[b] EXCEPT !.befor = cycWrite(@, pkt)]
  <2>1. e \in StreamType
    BY <1>1, <1>2, CycWriteType DEF StreamType
  <2>2. streams' = [streams EXCEPT ![b] = e]
    BY <1>3 DEF writeBefor, mVbas
  <2> HIDE DEF e, b
  <2> QED BY <1>2, <2>1, <2>2, Replaced DEF IInv
<1>4. CASE writeAfter
  <2> DEFINE e == [streams[b] EXCEPT !.after = writeOne(@, pkt)]
  <2>1. e \in StreamType
    BY <1>1, <1>2, WriteOneSound DEF StreamType
  <2>2. streams' = [streams EXCEPT ![b] = e]
    BY <1>4 DEF writeAfter, mVbas
  <2> HIDE DEF e, b
  <2> QED BY <1>2, <2>1, <2>2, Replaced DEF IInv
<1> QED BY <1>3, <1>4

\* The steps of the pull thread that write to a ring: the number of BAStreams
\* stays, and every clip thread keeps its own.
LEMMA WritesKeep ==
  ASSUME IInv, Cycle \/ GetKeyPacket \/ GetKeyOldest
  PROVE  IInv'
<1>1. pull \notin {"open", "recv", "end"} /\ pull' = "recv" /\ UNCHANGED <<keys, packs>>
  BY DEF Cycle, GetKeyPacket, GetKeyOldest
<1>2. streams' \in Seq(StreamType) /\ Len(streams') = Len(streams)
  <2>1. CASE UNCHANGED streams
    BY <2>1 DEF IInv
  <2>2. CASE Misuse = "no" /\ (writeBefor \/ writeAfter)
    BY <1>1, <2>2, WriteKeeps
  <2> QED BY <2>1, <2>2 DEF Cycle, GetKeyPacket, GetKeyOldest
<1> QED BY <1>1, <1>2 DEF IInv

\* Dump writes to the second ring, or starts a clip thread on mVbas.
LEMMA DumpKeeps == ASSUME IInv, Dump PROVE IInv'
<1>1. pull \notin {"open", "recv", "end"} /\ pull' = "recv" /\ UNCHANGED keys
  BY DEF Dump
<1>2. CASE UNCHANGED <<streams, packs>>
  BY <1>1, <1>2 DEF IInv
<1>3. CASE Misuse = "no" /\ writeAfter /\ UNCHANGED packs
  BY <1>1, <1>3, WriteKeeps DEF IInv
<1>4. CASE /\ Misuse = "no" /\ UNCHANGED streams
           /\ packs' = Append(packs, [at |-> "open", bas |-> mVbas, file |-> <<>>])
  <2> DEFINE e == [at |-> "open", bas |-> mVbas, file |-> <<>>]
  <2>1. Len(streams) \in Nat /\ mVbas = Len(streams) /\ mVbas # 0
    BY <1>4, LenProperties DEF IInv, mVbas, Misuse
  <2>2. e \in PackType
    <3> <<>> \in Seq(Nat)
      BY EmptySeq
    <3> QED BY <2>1 DEF PackType, PackStep
  <2>3. e.bas \in 1 .. Len(streams)
    BY <2>1
  <2> HIDE DEF e
  <2>4. packs' \in Seq(PackType)
    BY <1>4, <2>2, AppendProperties DEF IInv, e
  <2>5. \A u \in 1 .. Len(packs') : packs'[u].bas \in 1 .. Len(streams)
    <3> Len(packs) \in Nat /\ packs' = Append(packs, e)
      BY <1>4, LenProperties DEF IInv, e
    <3> QED BY <2>2, <2>3, AppendProperties DEF IInv
  <2> QED BY <1>1, <1>4, <2>4, <2>5 DEF IInv
<1> QED BY <1>2, <1>3, <1>4 DEF Dump

\* A new BAStream has two sound, empty rings.
LEMMA NewKeeps == ASSUME IInv, New PROVE IInv'
<1>1. BAStream \in StreamType
  BY NewRing, SoundIsOK DEF BAStream, StreamType
<1>2. /\ streams' \in Seq(StreamType) /\ Len(streams') = Len(streams) + 1
      /\ Len(streams) \in Nat
  BY <1>1, AppendProperties, LenProperties DEF New, IInv
<1> QED BY <1>2 DEF New, IInv

\* A packet arrives: there is one, then, to write.
LEMMA ReceiveKeeps == ASSUME IInv, Receive PROVE IInv'
<1>1. CASE pull' = "end" /\ keys' = keys
  BY <1>1 DEF Receive, IInv
<1>2. CASE pull' = "START?" /\ \E key \in BOOLEAN : keys' = Append(keys, key)
  <2>1. keys' \in Seq(BOOLEAN) /\ Len(keys') > 0
    BY <1>2, AppendProperties, LenProperties DEF IInv
  <2> QED BY <2>1 DEF Receive, IInv
<1> QED BY <1>1, <1>2 DEF Receive

\* Clip thread u goes on to another step.
LEMMA AtKeeps ==
  ASSUME IInv, NEW u \in DOMAIN packs, NEW from, NEW to \in PackStep, At(u, from, to)
  PROVE  /\ packs' \in Seq(PackType) /\ Len(packs') = Len(packs)
         /\ \A v \in 1 .. Len(packs) : packs'[v].bas = packs[v].bas
<1>1. u \in 1 .. Len(packs) /\ packs[u] \in PackType
  BY LenProperties, ElementOfSeq DEF IInv
<1> DEFINE e == [packs[u] EXCEPT !.at = to]
<1>2. e \in PackType /\ e.bas = packs[u].bas
  BY <1>1 DEF PackType
<1>3. packs' = [packs EXCEPT ![u] = e]
  BY DEF At
<1> HIDE DEF e
<1> QED BY <1>1, <1>2, <1>3, ExceptSeq DEF IInv

\* A clip thread takes the oldest packet of its own BAStream.
LEMMA PackWriteKeeps ==
  ASSUME IInv, NEW u \in DOMAIN packs, PackWrite(u), UNCHANGED <<keys, pull>>
  PROVE  IInv'
<1> DEFINE b   == packs[u].bas
           one == IF PackFrom(u) = "befor" THEN getOne(streams[b].befor)
                  ELSE getOne(streams[b].after)
<1>1. u \in 1 .. Len(packs) /\ packs[u] \in PackType
  BY LenProperties, ElementOfSeq DEF IInv
<1>2. b \in 1 .. Len(streams) /\ streams[b] \in StreamType /\ one # NULL
  BY <1>1, ElementOfSeq DEF IInv, PackWrite
<1>3. one \in Nat
  BY <1>2, SyncType DEF StreamType
<1>4. streams' \in Seq(StreamType) /\ Len(streams') = Len(streams)
  <2>1. CASE PackFrom(u) = "befor"
    <3> DEFINE e == [streams[b] EXCEPT !.befor = getSync(@)]
    <3>1. e \in StreamType
      BY <1>2, <2>1, SyncType DEF StreamType
    <3>2. streams' = [streams EXCEPT ![b] = e]
      BY <2>1 DEF PackWrite
    <3> HIDE DEF e, b
    <3> QED BY <1>2, <3>1, <3>2, Replaced DEF IInv
  <2>2. CASE PackFrom(u) # "befor"
    <3> DEFINE e == [streams[b] EXCEPT !.after = getSync(@), !.is_befor_read_done = TRUE]
    <3>1. e \in StreamType
      BY <1>2, <2>2, SyncType DEF StreamType
    <3>2. streams' = [streams EXCEPT ![b] = e]
      BY <1>2, <2>2 DEF PackWrite, StreamType
    <3> HIDE DEF e, b
    <3> QED BY <1>2, <3>1, <3>2, Replaced DEF IInv
  <2> QED BY <2>1, <2>2
<1>5. /\ packs' \in Seq(PackType) /\ Len(packs') = Len(packs)
      /\ \A v \in 1 .. Len(packs) : packs'[v].bas = packs[v].bas
  <2> DEFINE e == [packs[u] EXCEPT !.file = Append(@, one)]
  <2>1. packs[u].file \in Seq(Nat)
    BY <1>1 DEF PackType
  <2>2. Append(packs[u].file, one) \in Seq(Nat)
    BY <1>3, <2>1, AppendProperties
  <2> HIDE DEF one
  <2>3. e \in PackType /\ e.bas = packs[u].bas
    BY <1>1, <2>2 DEF PackType
  <2>4. packs' = [packs EXCEPT ![u] = e]
    BY DEF PackWrite, one
  <2> HIDE DEF e
  <2> QED BY <1>1, <2>3, <2>4, ExceptSeq DEF IInv
<1> QED BY <1>4, <1>5 DEF IInv

\* The clip is finished.
LEMMA PackEndKeeps ==
  ASSUME IInv, NEW u \in DOMAIN packs, NEW to \in PackStep, PackEnd(u, to), UNCHANGED <<keys, pull>>
  PROVE  IInv'
<1> DEFINE b == packs[u].bas
           e == [streams[b] EXCEPT !.is_befor_read_done = TRUE]
<1>1. b \in 1 .. Len(streams) /\ streams[b] \in StreamType
  BY LenProperties, ElementOfSeq DEF IInv
<1>2. e \in StreamType
  BY <1>1 DEF StreamType
<1>3. streams' = [streams EXCEPT ![b] = e]
  BY DEF PackEnd
<1>4. /\ packs' \in Seq(PackType) /\ Len(packs') = Len(packs)
      /\ \A v \in 1 .. Len(packs) : packs'[v].bas = packs[v].bas
  <2>1. At(u, "write", to)
    BY DEF PackEnd
  <2> QED BY <2>1, AtKeeps
<1> HIDE DEF e, b
<1>5. streams' \in Seq(StreamType) /\ Len(streams') = Len(streams)
  BY <1>1, <1>2, <1>3, Replaced DEF IInv
<1> QED BY <1>4, <1>5 DEF IInv

\* Setting up the output and uploading it leave the rings alone.
LEMMA PackMoves ==
  ASSUME IInv, NEW u \in DOMAIN packs, PackOpen(u) \/ curlPushUp(u), UNCHANGED <<keys, pull>>
  PROVE  IInv'
<1>1. /\ packs' \in Seq(PackType) /\ Len(packs') = Len(packs)
      /\ \A v \in 1 .. Len(packs) : packs'[v].bas = packs[v].bas
  <2>1. \/ At(u, "open", "write") \/ At(u, "open", "failed")
        \/ At(u, "push", "done") \/ At(u, "push", "failed")
    BY DEF PackOpen, curlPushUp
  <2>2. {"write", "failed", "done"} \subseteq PackStep
    BY DEF PackStep
  <2> QED BY <2>1, <2>2, AtKeeps
<1>2. UNCHANGED streams
  BY DEF PackOpen, curlPushUp
<1> QED BY <1>1, <1>2 DEF IInv

\* One step of any of the clip threads of the five versions.
LEMMA ClipKeeps == ASSUME IInv, NEW u \in DOMAIN packs, Clip(u) PROVE IInv'
<1>1. UNCHANGED <<keys, pull>>
  BY DEF Clip, mediaPackageUp_v01, mediaPackageUp_v02, mediaPackageUp_v03, mediaPackageUp_v04,
         mediaPackageUp_v05, Packaging
<1>2. \/ PackOpen(u) \/ curlPushUp(u) \/ PackWrite(u)
      \/ PackEnd(u, "done") \/ PackEnd(u, "push")
  BY DEF Clip, mediaPackageUp_v01, mediaPackageUp_v02, mediaPackageUp_v03, mediaPackageUp_v04,
         mediaPackageUp_v05, Packaging
<1>3. CASE PackEnd(u, "done") \/ PackEnd(u, "push")
  <2> "done" \in PackStep /\ "push" \in PackStep
    BY DEF PackStep
  <2> QED BY <1>1, <1>3, PackEndKeeps
<1>4. CASE PackOpen(u) \/ curlPushUp(u)
  BY <1>1, <1>4, PackMoves
<1>5. CASE PackWrite(u)
  BY <1>1, <1>5, PackWriteKeeps
<1> QED BY <1>2, <1>3, <1>4, <1>5

\* One step of the pull thread of the five versions.
LEMMA PullKeeps ==
  ASSUME IInv, \/ pullSteamLoop_v01 \/ pullSteamLoop_v02 \/ pullSteamLoop_v03
               \/ pullSteamLoop_v04 \/ pullSteamLoop_v05
  PROVE  IInv'
<1>1. \/ Open \/ Receive \/ Test \/ New \/ Circulate \/ Cycle \/ GetKeyPacket \/ GetKeyOldest
      \/ Dump
  BY DEF pullSteamLoop_v01, pullSteamLoop_v02, pullSteamLoop_v03, pullSteamLoop_v04,
         pullSteamLoop_v05, Pulling
<1>2. CASE Open
  BY <1>2 DEF Open, IInv
<1>3. CASE Test
  BY <1>3 DEF Test, IInv
<1>4. CASE Circulate
  BY <1>4 DEF Circulate, IInv
<1> QED BY <1>1, <1>2, <1>3, <1>4, ReceiveKeeps, NewKeeps, WritesKeep, DumpKeeps

\* The inductive invariant.
LEMMA Inductive == Spec => []IInv
<1>1. Init => IInv
  BY EmptySeq DEF Init, IInv
<1>2. IInv /\ [Next]_vars => IInv'
  <2> SUFFICES ASSUME IInv, [Next]_vars PROVE IInv'
    OBVIOUS
  <2>1. CASE \E u \in DOMAIN packs : Clip(u)
    BY <2>1, ClipKeeps
  <2>2. CASE main
    BY <2>2 DEF main, IInv
  <2>3. CASE sigHandle
    BY <2>3 DEF sigHandle, IInv
  <2>4. CASE UNCHANGED vars
    BY <2>4 DEF vars, IInv
  <2> QED BY <2>1, <2>2, <2>3, <2>4, PullKeeps DEF Next
<1> QED BY <1>1, <1>2, PTL DEF Spec

\* In every one of the five versions no packet pointer is lost, deleted twice or
\* missing where the indices say that there is one.
THEOREM RingsStaySound == Spec => []RingsSound
<1>1. IInv => RingsSound
  <2> SUFFICES ASSUME IInv, NEW b \in DOMAIN streams
               PROVE  RingOK(streams[b].befor) /\ RingOK(streams[b].after)
    BY DEF RingsSound
  <2>1. streams[b] \in StreamType
    BY LenProperties, ElementOfSeq DEF IInv
  <2> QED BY <2>1, SoundIsOK DEF StreamType
<1> QED BY <1>1, Inductive, PTL

-----------------------------------------------------------------------------
\* What a single trigger that comes in time can meet.  It is the only thing that takes
\* the status from CYCW to GETI, so the first clip is also the last; its BAStream was
\* written to before, and the pull thread makes a new one before it writes again.
Timely    == ~early /\ triggers <= 1
Filled(b) == streams[b].befor.wi # streams[b].befor.ri

Calm ==
  /\ broken \notin {"null", "race"}
  /\ mVbas = 0 => /\ triggers = 0 /\ status \in {"unset", "START"}
                  /\ pull \in {"open", "recv", "START?", "new", "end"}
                  /\ status = "unset" <=> pull = "open"
  /\ triggers = 0 => /\ status \in {"unset", "START", "CYCW"} /\ pull \notin {"geti", "dump"}
                     /\ packs = <<>>
  /\ pull = "geti" => status = "GETI"
  /\ pull = "dump" => status = "DUMP"
  /\ pull = "new" => status # "DUMP"
  /\ status = "DUMP" => mVbas # 0 /\ Filled(mVbas)
  /\ packs # <<>> =>
       /\ Len(packs) = 1 /\ status \notin {"GETI", "DUMP"}
       /\ packs[1].bas = mVbas => status = "START" /\ pull \in {"recv", "START?", "new", "end"}
       /\ packs[1].at = "open" => Filled(packs[1].bas)

SafeInv ==
  /\ triggers \in Nat
  /\ Timely => Calm
  /\ broken = "use after free" => pull = "end"

\* After a write there is a packet in befor, also if the oldest one had to go.
LEMMA CycWriteFills ==
  ASSUME NEW s \in SoundRing, NEW p
  PROVE  cycWrite(s, p).wi # cycWrite(s, p).ri
<1>1. s.ri \in Entries /\ s.wi \in Entries /\ mMax \in Nat /\ mMax > 1
  BY ClipsAssumption, MaxAssumption DEF SoundRing
<1>2. following(s.ri) # s.ri
  BY <1>1 DEF following, Entries
<1> QED BY <1>1, <1>2 DEF cycWrite, store, getSync, full

\* No clip thread is at the BAStream that the pull thread writes to.
LEMMA Alone ==
  ASSUME IInv, Timely, Calm, pull \in {"cycw", "geti", "dump"}
  PROVE  Misuse = "no" /\ mVbas # 0 /\ mVbas = Len(streams) /\ Len(streams) \in Nat
<1>1. mVbas # 0 /\ mVbas = Len(streams) /\ Len(streams) \in Nat
  BY LenProperties DEF Calm, IInv, mVbas
<1>2. ~Shared
  <2> SUFFICES ASSUME NEW u \in DOMAIN packs, packs[u].bas = mVbas PROVE FALSE
    BY DEF Shared
  <2>1. packs # <<>> /\ Len(packs) = 1 /\ u = 1
    BY LenProperties, EmptySeq DEF Calm, IInv
  <2> QED BY <2>1 DEF Calm
<1> QED BY <1>1, <1>2 DEF Misuse

\* befor is not empty after it was written to, whatever else happens to it.
LEMMA BeforWritten ==
  ASSUME IInv, mVbas # 0, writeBefor, pkt \in Nat \ {NULL}
  PROVE  /\ streams' \in Seq(StreamType) /\ Len(streams') = Len(streams)
         /\ Filled(mVbas)'
         /\ \A b \in 1 .. Len(streams) : Filled(b) => Filled(b)'
<1> DEFINE b == Len(streams)
           e == [streams[b] EXCEPT !.befor = cycWrite(@, pkt)]
<1>1. b \in 1 .. Len(streams) /\ streams[b] \in StreamType
  <2>1. b # 0
    BY DEF mVbas
  <2> QED BY <2>1, LenProperties, ElementOfSeq DEF IInv
<1>2. e \in StreamType /\ e.befor.wi # e.befor.ri
  BY <1>1, CycWriteType, CycWriteFills DEF StreamType
<1>3. streams' = [streams EXCEPT ![b] = e]
  BY DEF writeBefor, mVbas
<1> HIDE DEF e, b
<1>4. /\ streams' \in Seq(StreamType) /\ Len(streams') = Len(streams)
      /\ \A a \in 1 .. Len(streams) : streams'[a] = IF a = b THEN e ELSE streams[a]
  BY <1>1, <1>2, <1>3, ExceptSeq, LenProperties DEF IInv
<1>5. Len(streams') = b
  BY <1>4 DEF b
<1> QED BY <1>1, <1>2, <1>4, <1>5 DEF Filled, mVbas

\* A write to after does not touch befor.
LEMMA AfterWritten ==
  ASSUME IInv, mVbas # 0, writeAfter, pkt \in Nat \ {NULL}
  PROVE  /\ streams' \in Seq(StreamType) /\ Len(streams') = Len(streams)
         /\ \A b \in 1 .. Len(streams) : Filled(b) <=> Filled(b)'
<1> DEFINE b == Len(streams)
           e == [streams[b] EXCEPT !.after = writeOne(@, pkt)]
<1>1. b \in 1 .. Len(streams) /\ streams[b] \in StreamType
  <2>1. b # 0
    BY DEF mVbas
  <2> QED BY <2>1, LenProperties, ElementOfSeq DEF IInv
<1>2. e \in StreamType /\ e.befor = streams[b].befor
  BY <1>1, WriteOneSound DEF StreamType
<1>3. streams' = [streams EXCEPT ![b] = e]
  BY DEF writeAfter, mVbas
<1> HIDE DEF e, b
<1>4. /\ streams' \in Seq(StreamType) /\ Len(streams') = Len(streams)
      /\ \A a \in 1 .. Len(streams) : streams'[a] = IF a = b THEN e ELSE streams[a]
  BY <1>1, <1>2, <1>3, ExceptSeq, LenProperties DEF IInv
<1> QED BY <1>1, <1>2, <1>4 DEF Filled

\* The steps of the pull thread that write to nothing, but New.
LEMMA LooksAreCalm ==
  ASSUME IInv, SafeInv, broken = "no", Open \/ Receive \/ Test \/ Circulate,
         UNCHANGED <<version, mainAt, triggers, early>>
  PROVE  SafeInv'
<1>1. UNCHANGED <<streams, packs, broken, triggers, early>>
  BY DEF Open, Receive, Test, Circulate
<1>2. \A b : Filled(b)' <=> Filled(b)
  BY <1>1 DEF Filled
<1>3. mVbas' = mVbas
  BY <1>1 DEF mVbas
<1>4. CASE Open
  BY <1>1, <1>2, <1>3, <1>4 DEF Open, SafeInv, Timely, Calm
<1>5. CASE Receive
  BY <1>1, <1>2, <1>3, <1>5 DEF Receive, SafeInv, Timely, Calm
<1>6. CASE Circulate
  BY <1>1, <1>2, <1>3, <1>6 DEF Circulate, SafeInv, Timely, Calm
<1>7. CASE Test
  <2>1. status' = status
    BY <1>7 DEF Test
  <2>2. \/ pull = "START?" /\ pull' = IF status = "START" THEN "new" ELSE "CYCW?"
        \/ pull = "CYCW?" /\ pull' = IF status = "CYCW" THEN "cycw" ELSE "GETI?"
        \/ pull = "GETI?" /\ pull' = IF status = "GETI" THEN "geti" ELSE "DUMP?"
        \/ pull = "DUMP?" /\ pull' = IF status = "DUMP" THEN "dump" ELSE "recv"
    BY <1>7 DEF Test
  <2> QED BY <1>1, <1>2, <1>3, <2>1, <2>2 DEF SafeInv, Timely, Calm
<1> QED BY <1>4, <1>5, <1>6, <1>7

\* The clip's BAStream is left to its thread.
LEMMA NewIsCalm ==
  ASSUME IInv, SafeInv, broken = "no", New, UNCHANGED <<version, mainAt, triggers, early>>
  PROVE  SafeInv'
<1>1. BAStream \in StreamType
  BY NewRing, SoundIsOK DEF BAStream, StreamType
<1>2. /\ Len(streams) \in Nat /\ Len(streams') = Len(streams) + 1
      /\ \A b \in 1 .. Len(streams) : streams'[b] = streams[b]
  BY <1>1, AppendProperties, LenProperties DEF New, IInv
<1>3. \A b \in 1 .. Len(streams) : Filled(b)' <=> Filled(b)
  BY <1>2 DEF Filled
<1>4. mVbas' = mVbas + 1 /\ mVbas \in Nat
  BY <1>2 DEF mVbas
<1>5. pull = "new" /\ pull' = "circulate" /\ UNCHANGED <<status, packs, broken>>
  BY DEF New
<1>6. packs # <<>> => packs[1].bas \in 1 .. mVbas
  BY LenProperties, EmptySeq DEF IInv, mVbas
<1>7. Timely /\ Calm => Calm'
  <2> SUFFICES ASSUME Timely, Calm PROVE Calm'
    OBVIOUS
  <2>1. status # "DUMP"
    BY <1>5 DEF Calm
  <2>2. packs # <<>> => packs[1].bas # mVbas'
    BY <1>4, <1>6
  <2>3. packs # <<>> => (Filled(packs[1].bas)' <=> Filled(packs[1].bas))
    BY <1>3, <1>5, <1>6 DEF mVbas
  <2> QED BY <1>4, <1>5, <2>1, <2>2, <2>3 DEF Calm
<1> QED BY <1>5, <1>7 DEF SafeInv, Timely

\* The writes of the pull thread.  With DUMP there is a packet in befor.
LEMMA WritesAreCalm ==
  ASSUME IInv, SafeInv, broken = "no", Cycle \/ GetKeyPacket \/ GetKeyOldest \/ Dump,
         UNCHANGED <<version, mainAt, triggers, early>>
  PROVE  SafeInv'
<1> SUFFICES ASSUME Timely, Calm PROVE Calm' /\ broken' = "no"
  <2>1. broken' \in {"no", "null", "race"}
    BY DEF Cycle, GetKeyPacket, GetKeyOldest, Dump, Misuse
  <2> QED BY <2>1 DEF SafeInv, Timely
<1>1. pull \in {"cycw", "geti", "dump"} /\ pull' = "recv"
  BY DEF Cycle, GetKeyPacket, GetKeyOldest, Dump
<1>2. Misuse = "no" /\ mVbas # 0 /\ mVbas = Len(streams) /\ Len(streams) \in Nat
  BY <1>1, Alone
<1>3. broken' = "no"
  BY <1>2 DEF Cycle, GetKeyPacket, GetKeyOldest, Dump
<1>4. pkt \in Nat \ {NULL}
  BY <1>1, LenProperties DEF IInv, pkt, NULL
<1>5. packs # <<>> => packs[1].bas \in 1 .. Len(streams)
  BY LenProperties, EmptySeq DEF IInv
<1>6. triggers # 0 \/ pull = "cycw"
  BY <1>1 DEF Calm
<1>7. CASE /\ pull \in {"cycw", "geti"} /\ writeBefor /\ packs' = packs
           /\ status' = status \/ (pull = "geti" /\ status' = "DUMP")
  <2>1. /\ Len(streams') = Len(streams) /\ Filled(mVbas)'
        /\ \A b \in 1 .. Len(streams) : Filled(b) => Filled(b)'
    BY <1>2, <1>4, <1>7, BeforWritten
  <2>2. mVbas' = mVbas
    BY <2>1 DEF mVbas
  <2>3. packs # <<>> => packs[1].bas # mVbas
    BY <1>1 DEF Calm
  <2> QED BY <1>1, <1>2, <1>3, <1>5, <1>6, <1>7, <2>1, <2>2, <2>3 DEF Calm
<1>8. CASE /\ UNCHANGED streams \/ writeAfter
           /\ packs' = packs /\ pull \in {"geti", "dump"} /\ status' \in {status, "DUMP"} /\ Filled(mVbas)
  <2>1. Len(streams') = Len(streams) /\ \A b \in 1 .. Len(streams) : Filled(b) <=> Filled(b)'
    <3>1. CASE UNCHANGED streams
      BY <3>1 DEF Filled
    <3>2. CASE writeAfter
      BY <1>2, <1>4, <3>2, AfterWritten
    <3> QED BY <1>8, <3>1, <3>2
  <2>2. mVbas' = mVbas /\ mVbas \in 1 .. Len(streams)
    BY <1>2, <2>1 DEF mVbas
  <2>3. Filled(mVbas)'
    BY <1>8, <2>1, <2>2
  <2>4. packs = <<>>
    BY <1>8 DEF Calm
  <2> QED BY <1>1, <1>2, <1>3, <1>6, <1>8, <2>2, <2>3, <2>4 DEF Calm
<1>9. CASE /\ pull = "dump" /\ status' = "START" /\ UNCHANGED streams
           /\ packs' = Append(packs, [at |-> "open", bas |-> mVbas, file |-> <<>>])
  <2>1. status = "DUMP" /\ packs = <<>> /\ Filled(mVbas)
    BY <1>9 DEF Calm
  <2>2. packs' = <<[at |-> "open", bas |-> mVbas, file |-> <<>>]>>
    BY <1>9, <2>1
  <2>3. mVbas' = mVbas /\ (Filled(mVbas)' <=> Filled(mVbas))
    BY <1>9 DEF mVbas, Filled
  <2>4. packs' # <<>> /\ Len(packs') = 1 /\ packs'[1].bas = mVbas
    BY <2>2
  <2> QED BY <1>1, <1>2, <1>3, <1>6, <1>9, <2>1, <2>3, <2>4 DEF Calm
<1>10. CASE Cycle
  BY <1>2, <1>7, <1>10 DEF Cycle
<1>11. CASE GetKeyPacket
  BY <1>2, <1>7, <1>11 DEF GetKeyPacket
<1>12. CASE GetKeyOldest
  <2>1. CASE getRiFlag
    <3>1. oldest(streams[mVbas].befor) # NULL
      BY <2>1 DEF getRiFlag
    <3>2. RingOK(streams[mVbas].befor)
      <4>1. mVbas \in 1 .. Len(streams)
        BY <1>2
      <4>2. streams[mVbas] \in StreamType
        BY <4>1, ElementOfSeq DEF IInv
      <4> QED BY <4>2, SoundIsOK DEF StreamType
    <3>3. Filled(mVbas)
      BY <3>1, <3>2, EmptyHasNone DEF Filled
    <3> QED BY <1>2, <1>8, <1>12, <2>1, <3>3 DEF GetKeyOldest
  <2>2. CASE ~getRiFlag
    BY <1>2, <1>7, <1>12, <2>2 DEF GetKeyOldest
  <2> QED BY <2>1, <2>2
<1>13. CASE Dump
  <2>1. Filled(mVbas)
    BY <1>13 DEF Dump, Calm
  <2> QED BY <1>2, <1>8, <1>9, <1>13, <2>1 DEF Dump
<1> QED BY <1>3, <1>10, <1>11, <1>12, <1>13

\* The only clip thread takes a step.
LEMMA OnlyOne ==
  ASSUME NEW q \in Seq(PackType), Len(q) = 1, NEW e, NEW r, r = [q EXCEPT ![1] = e]
  PROVE  r # <<>> /\ Len(r) = 1 /\ r[1] = e
<1> DEFINE S == PackType \cup {e}
           k == 1
<1>1. q \in Seq(S) /\ e \in S /\ k \in 1 .. Len(q) /\ r = [q EXCEPT ![k] = e]
  OBVIOUS
<1> HIDE DEF S, k
<1>2. r \in Seq(S) /\ Len(r) = Len(q) /\ r[k] = e
  BY <1>1, ExceptSeq
<1> QED BY <1>2, EmptySeq DEF k

\* A clip thread finds the first packet in befor; after that nobody depends on it.
LEMMA ClipIsCalm ==
  ASSUME IInv, SafeInv, broken = "no", NEW u \in DOMAIN packs, Clip(u)
  PROVE  SafeInv'
<1>1. UNCHANGED <<status, pull, triggers, early>>
  BY DEF Clip, mediaPackageUp_v01, mediaPackageUp_v02, mediaPackageUp_v03, mediaPackageUp_v04,
         mediaPackageUp_v05, Packaging
<1>2. PackOpen(u) \/ PackWrite(u) \/ PackEnd(u, "done") \/ PackEnd(u, "push") \/ curlPushUp(u)
  BY DEF Clip, mediaPackageUp_v01, mediaPackageUp_v02, mediaPackageUp_v03, mediaPackageUp_v04,
         mediaPackageUp_v05, Packaging
<1>3. broken' = "use after free" => pull = "end"
  BY <1>2 DEF PackOpen, PackWrite, PackEnd, curlPushUp
<1>4. ASSUME Timely, Calm PROVE Calm'
  <2>1. Len(packs) = 1 /\ u = 1 /\ packs # <<>> /\ triggers # 0
    BY <1>4, LenProperties, EmptySeq DEF IInv, Calm
  <2>2. packs[1] \in PackType /\ packs \in Seq(PackType) /\ DOMAIN packs = {1}
    BY <2>1, ElementOfSeq, LenProperties DEF IInv
  <2>3. packs[1].bas \in 1 .. Len(streams) /\ Len(streams) \in Nat
    BY <2>1, LenProperties DEF IInv
  <2>4. streams[packs[1].bas] \in StreamType
    BY <2>3, ElementOfSeq DEF IInv
  <2>5. ASSUME NEW from, NEW to, At(1, from, to), to # "open"
        PROVE  packs' # <<>> /\ Len(packs') = 1 /\ packs'[1].bas = packs[1].bas /\ packs'[1].at # "open"
    <3> DEFINE e == [packs[1] EXCEPT !.at = to]
    <3>1. e.at = to /\ e.bas = packs[1].bas
      BY <2>2 DEF PackType
    <3>2. packs' = [packs EXCEPT ![1] = e]
      BY <2>5 DEF At
    <3> HIDE DEF e
    <3>3. packs' # <<>> /\ Len(packs') = 1 /\ packs'[1] = e
      BY <2>1, <2>2, <3>2, OnlyOne
    <3> QED BY <2>5, <3>1, <3>3
  <2>6. CASE PackOpen(u)
    <3>1. getOne(streams[packs[1].bas].befor) # NULL \/ packs[1].at # "open"
      <4>1. RingOK(streams[packs[1].bas].befor)
        BY <2>4, SoundIsOK DEF StreamType
      <4>2. packs[1].at = "open" => Filled(packs[1].bas)
        BY <1>4, <2>1 DEF Calm
      <4> QED BY <4>1, <4>2, OldestExists DEF Filled
    <3>2. broken' \notin {"null", "race"}
      BY <2>1, <2>6, <3>1 DEF PackOpen, At
    <3>3. At(1, "open", "write") \/ At(1, "open", "failed")
      BY <2>1, <2>6 DEF PackOpen
    <3>4. UNCHANGED streams
      BY <2>6 DEF PackOpen
    <3> HIDE DEF At
    <3>5. packs' # <<>> /\ Len(packs') = 1 /\ packs'[1].bas = packs[1].bas /\ packs'[1].at # "open"
      BY <2>5, <3>3
    <3>6. mVbas' = mVbas /\ \A b : Filled(b)' <=> Filled(b)
      BY <3>4 DEF mVbas, Filled
    <3> QED BY <1>1, <1>4, <2>1, <3>2, <3>5, <3>6 DEF Calm
  <2>7. CASE PackWrite(u)
    <3>1. packs[1].at = "write"
      BY <2>1, <2>7 DEF PackWrite
    <3>5. broken' = broken
      BY <2>7 DEF PackWrite
    <3>2. packs' # <<>> /\ Len(packs') = 1 /\ packs'[1].bas = packs[1].bas /\ packs'[1].at # "open"
      <4>1. PICK f : packs' = [packs EXCEPT ![1] = [packs[1] EXCEPT !.file = f]]
        BY <2>1, <2>7 DEF PackWrite
      <4> DEFINE e == [packs[1] EXCEPT !.file = f]
      <4>2. e.at = "write" /\ e.bas = packs[1].bas
        BY <2>2, <3>1 DEF PackType
      <4>3. packs' = [packs EXCEPT ![1] = e]
        BY <4>1
      <4> HIDE DEF e
      <4>4. packs' # <<>> /\ Len(packs') = 1 /\ packs'[1] = e
        BY <2>1, <2>2, <4>3, OnlyOne
      <4> QED BY <4>2, <4>4
    <3>3. Len(streams') = Len(streams)
      <4>1. CASE PackFrom(u) = "befor"
        <5> DEFINE e == [streams[packs[1].bas] EXCEPT !.befor = getSync(@)]
        <5>1. streams' = [streams EXCEPT ![packs[1].bas] = e]
          BY <2>1, <2>7, <4>1 DEF PackWrite
        <5> HIDE DEF e
        <5> QED BY <2>3, <5>1, LenProperties DEF IInv
      <4>2. CASE PackFrom(u) # "befor"
        <5> DEFINE e == [streams[packs[1].bas] EXCEPT !.after = getSync(@), !.is_befor_read_done = TRUE]
        <5>1. streams' = [streams EXCEPT ![packs[1].bas] = e]
          BY <2>1, <2>3, <2>4, <2>7, <4>2 DEF PackWrite, StreamType
        <5> HIDE DEF e
        <5> QED BY <2>3, <5>1, LenProperties DEF IInv
      <4> QED BY <4>1, <4>2
    <3>4. mVbas' = mVbas
      BY <3>3 DEF mVbas
    <3> QED BY <1>1, <1>4, <2>1, <3>2, <3>4, <3>5 DEF Calm
  <2>8. CASE PackEnd(u, "done") \/ PackEnd(u, "push") \/ curlPushUp(u)
    <3>1. \/ At(1, "write", "done") \/ At(1, "write", "push")
          \/ At(1, "push", "done") \/ At(1, "push", "failed")
      BY <2>1, <2>8 DEF PackEnd, curlPushUp
    <3>5. broken' = broken
      BY <2>8 DEF PackEnd, curlPushUp
    <3>2. packs' # <<>> /\ Len(packs') = 1 /\ packs'[1].bas = packs[1].bas /\ packs'[1].at # "open"
      BY <2>5, <3>1
    <3>3. Len(streams') = Len(streams)
      <4> DEFINE e == [streams[packs[1].bas] EXCEPT !.is_befor_read_done = TRUE]
      <4>1. streams' = streams \/ streams' = [streams EXCEPT ![packs[1].bas] = e]
        BY <2>1, <2>8 DEF PackEnd, curlPushUp
      <4> HIDE DEF e
      <4> QED BY <2>3, <4>1, LenProperties DEF IInv
    <3>4. mVbas' = mVbas
      BY <3>3 DEF mVbas
    <3> QED BY <1>1, <1>4, <2>1, <3>2, <3>4, <3>5 DEF Calm
  <2> QED BY <1>2, <2>6, <2>7, <2>8
<1> QED BY <1>1, <1>3, <1>4 DEF SafeInv, Timely

\* The signal: before it the status was START or CYCW.
LEMMA SignalIsCalm ==
  ASSUME IInv, SafeInv, broken = "no", main \/ sigHandle
  PROVE  SafeInv'
<1>1. UNCHANGED <<pull, streams, packs>>
  BY DEF main, sigHandle
<1>2. mVbas' = mVbas /\ \A b : Filled(b)' <=> Filled(b)
  BY <1>1 DEF mVbas, Filled
<1>3. CASE main
  BY <1>1, <1>2, <1>3 DEF main, SafeInv, Timely, Calm
<1>4. CASE sigHandle
  <2>1. triggers' = triggers + 1 /\ triggers' \in Nat /\ broken' \in {"null", "no"}
    BY <1>4 DEF sigHandle, SafeInv
  <2>2. ASSUME Timely' PROVE Calm'
    <3>1. triggers = 0 /\ ~early /\ mVbas # 0 /\ mainAt # "new"
      <4>1. ~early' /\ early' = (early \/ mVbas = 0 \/ mainAt = "new")
        BY <1>4, <2>2 DEF sigHandle, Timely
      <4>2. ~early /\ mVbas # 0 /\ mainAt # "new"
        BY <4>1, Zenon
      <4>3. triggers = 0
        BY <2>1, <2>2 DEF Timely, SafeInv
      <4> QED BY <4>2, <4>3
    <3>2. Calm
      BY <3>1 DEF SafeInv, Timely
    <3>3. status' = "GETI" /\ broken' = "no"
      BY <1>4, <3>1 DEF sigHandle
    <3> QED BY <1>1, <1>2, <2>1, <3>1, <3>2, <3>3 DEF Calm
  <2> QED BY <2>1, <2>2 DEF SafeInv
<1> QED BY <1>3, <1>4

\* All of this, always.
LEMMA AlwaysCalm == Spec => []SafeInv
<1>1. Init => SafeInv
  <2> SUFFICES ASSUME Init PROVE SafeInv
    OBVIOUS
  <2>1. mVbas = 0
    BY DEF Init, mVbas
  <2> QED BY <2>1 DEF Init, SafeInv, Timely, Calm
<1>2. IInv /\ SafeInv /\ [Next]_vars => SafeInv'
  <2> SUFFICES ASSUME IInv, SafeInv, [Next]_vars PROVE SafeInv'
    OBVIOUS
  <2>1. CASE UNCHANGED vars
    BY <2>1 DEF vars, SafeInv, Timely, Calm, Filled, mVbas
  <2>2. CASE Next
    <3>1. broken = "no"
      BY <2>2 DEF Next
    <3>2. CASE main \/ sigHandle
      BY <3>1, <3>2, SignalIsCalm
    <3>3. CASE \E u \in DOMAIN packs : Clip(u)
      BY <3>1, <3>3, ClipIsCalm
    <3>4. CASE \/ pullSteamLoop_v01 \/ pullSteamLoop_v02 \/ pullSteamLoop_v03
               \/ pullSteamLoop_v04 \/ pullSteamLoop_v05
      <4>1. /\ \/ Open \/ Receive \/ Test \/ New \/ Circulate \/ Cycle \/ GetKeyPacket \/ GetKeyOldest
               \/ Dump
            /\ UNCHANGED <<version, mainAt, triggers, early>>
        BY <3>4 DEF pullSteamLoop_v01, pullSteamLoop_v02, pullSteamLoop_v03, pullSteamLoop_v04,
                    pullSteamLoop_v05, Pulling
      <4> QED BY <3>1, <4>1, LooksAreCalm, NewIsCalm, WritesAreCalm
    <3> QED BY <2>2, <3>2, <3>3, <3>4 DEF Next
  <2> QED BY <2>1, <2>2
<1> QED BY <1>1, <1>2, Inductive, PTL DEF Spec

\* In every one of the five versions a trigger that comes in time does no harm, unless
\* another one follows: no ring is shared, no empty one is asked for its oldest packet,
\* and the input's context is used after its end only when the stream has ended.
THEOREM TimelyTriggerSafe == Spec => []TriggerSafe
<1>1. SafeInv => TriggerSafe
  <2> SUFFICES ASSUME SafeInv PROVE TriggerSafe
    OBVIOUS
  <2>1. ~(early \/ triggers > 1) => Timely
    <3>1. triggers \in Nat
      BY DEF SafeInv
    <3>2. triggers > 1 \/ triggers <= 1
      BY <3>1
    <3> QED BY <3>2, Zenon DEF Timely
  <2> QED BY <2>1 DEF SafeInv, Calm, TriggerSafe
<1> QED BY <1>1, AlwaysCalm, PTL
-----------------------------------------------------------------------------
\* The packets of one clip are numbers that follow each other.
Run(q, from, to) == q = [k \in 1 .. to - from + 1 |-> from + k - 1]

\* Its length and its entries.
LEMMA RunEntries ==
  ASSUME NEW q, NEW f \in Nat, NEW t \in Nat, f <= t + 1, Run(q, f, t)
  PROVE  /\ q \in Seq(Nat) /\ Len(q) = t - f + 1
         /\ \A k \in 1 .. Len(q) : q[k] = f + k - 1
         /\ q = <<>> <=> f = t + 1
<1> DEFINE n == t - f + 1
<1>1. n \in Nat /\ \A k \in 1 .. n : f + k - 1 \in Nat
  OBVIOUS
<1>2. q = [k \in 1 .. n |-> f + k - 1]
  BY DEF Run
<1>3. q \in Seq(Nat) /\ Len(q) = n
  BY <1>1, <1>2
<1>4. q = <<>> <=> n = 0
  BY <1>3, EmptySeq
<1> QED BY <1>1, <1>2, <1>3, <1>4

LEMMA EntriesRun ==
  ASSUME NEW q \in Seq(Nat), NEW f \in Nat, NEW t \in Nat, Len(q) = t - f + 1,
         \A k \in 1 .. Len(q) : q[k] = f + k - 1
  PROVE  Run(q, f, t)
<1>1. q = [k \in 1 .. Len(q) |-> q[k]]
  BY SeqAsFunction
<1>2. [k \in 1 .. Len(q) |-> q[k]] = [k \in 1 .. Len(q) |-> f + k - 1]
  OBVIOUS
<1> QED BY <1>1, <1>2 DEF Run

\* No packet at all is a run, too.
LEMMA NoneRun == ASSUME NEW f \in Nat \ {0} PROVE Run(<<>>, f, f - 1)
<1> DEFINE q == <<>>
           t == f - 1
<1>1. q \in Seq(Nat) /\ Len(q) = 0 /\ t \in Nat /\ t - f + 1 = 0
  BY EmptySeq
<1>2. \A k \in 1 .. Len(q) : q[k] = f + k - 1
  BY <1>1
<1> HIDE DEF q, t
<1>3. Run(q, f, t)
  BY <1>1, <1>2, EntriesRun
<1> QED BY <1>3 DEF q, t

\* It goes on with the next number, and loses its first.
LEMMA RunGrows ==
  ASSUME NEW q, NEW f \in Nat, NEW t \in Nat, f <= t + 1, Run(q, f, t)
  PROVE  Run(Append(q, t + 1), f, t + 1)
<1> DEFINE r == Append(q, t + 1)
           n == Len(q)
<1>1. q \in Seq(Nat) /\ n = t - f + 1 /\ n \in Nat /\ \A k \in 1 .. n : q[k] = f + k - 1
  BY RunEntries
<1>2. /\ r \in Seq(Nat) /\ Len(r) = n + 1 /\ r[n + 1] = t + 1
      /\ \A k \in 1 .. n : r[k] = q[k]
  BY <1>1, AppendProperties
<1> HIDE DEF r, n
<1>3. ASSUME NEW k \in 1 .. Len(r) PROVE r[k] = f + k - 1
  <2>1. CASE k \in 1 .. n
    BY <1>1, <1>2, <2>1
  <2>2. CASE k = n + 1
    BY <1>1, <1>2, <2>2
  <2> QED BY <1>1, <1>2, <2>1, <2>2
<1>4. Len(r) = (t + 1) - f + 1
  BY <1>1, <1>2
<1>5. Run(r, f, t + 1)
  BY <1>2, <1>3, <1>4, EntriesRun
<1> QED BY <1>5 DEF r

LEMMA RunShrinks ==
  ASSUME NEW q, NEW f \in Nat, NEW t \in Nat, f <= t, Run(q, f, t)
  PROVE  q # <<>> /\ q[1] = f /\ Run(Tail(q), f + 1, t)
<1> DEFINE r == Tail(q)
           n == Len(q)
<1>1. /\ q \in Seq(Nat) /\ n = t - f + 1 /\ n \in Nat /\ \A k \in 1 .. n : q[k] = f + k - 1
      /\ q # <<>>
  BY RunEntries
<1>2. r \in Seq(Nat) /\ Len(r) = n - 1 /\ \A k \in 1 .. n - 1 : r[k] = q[k + 1]
  BY <1>1
<1> HIDE DEF r, n
<1>3. \A k \in 1 .. Len(r) : r[k] = (f + 1) + k - 1
  BY <1>1, <1>2
<1>4. Len(r) = t - (f + 1) + 1
  BY <1>1, <1>2
<1>5. Run(r, f + 1, t)
  BY <1>2, <1>3, <1>4, EntriesRun
<1>6. 1 \in 1 .. n
  BY <1>1
<1> QED BY <1>1, <1>5, <1>6 DEF r

\* What a ring that holds a run says: when it is full, when it is empty, and what
\* its oldest packet is.
LEMMA RingHoldsRun ==
  ASSUME NEW s \in SoundRing, NEW f \in Nat \ {0}, NEW t \in Nat, f <= t + 1, Run(Contents(s), f, t)
  PROVE  /\ full(s) <=> t - f + 1 = mMax - 1
         /\ t - f + 1 <= mMax - 1
         /\ f = t + 1 => getOne(s) = NULL /\ oldest(s) = NULL
         /\ f <= t => getOne(s) = f /\ oldest(s) = f
<1>1. RingOK(s) /\ s.ri \in Entries /\ s.wi \in Entries
  BY SoundIsOK DEF SoundRing
<1>2. Count(s) = t - f + 1 /\ Count(s) \in 0 .. mMax - 1
  BY <1>1, ContentsType, RunEntries
<1>3. full(s) <=> Count(s) = mMax - 1
  BY <1>1, MaxAssumption DEF full, Count, distance, following, Entries
<1>4. s.wi = s.ri <=> Count(s) = 0
  BY <1>1, MaxAssumption DEF Count, distance, Entries
<1>5. f = t + 1 => getOne(s) = NULL /\ oldest(s) = NULL
  BY <1>1, <1>2, <1>4, EmptyHasNone
<1>6. ASSUME f <= t PROVE getOne(s) = f /\ oldest(s) = f
  <2>1. s.wi # s.ri
    BY <1>2, <1>4, <1>6
  <2>2. Contents(s)[1] = f /\ Contents(s)[1] = s.mVct[place(s.ri, 1)]
    <3>1. Contents(s)[1] = f
      BY <1>6, RunShrinks
    <3>2. 1 \in 1 .. Count(s)
      BY <1>2, <1>6
    <3> QED BY <3>1, <3>2 DEF Contents
  <2>3. place(s.ri, 1) = s.ri
    BY <1>1, MaxAssumption DEF place, Entries
  <2> QED BY <1>1, <2>1, <2>2, <2>3, OldestExists DEF oldest
<1> QED BY <1>2, <1>3, <1>5, <1>6

\* The writes continue a run; cycWrite gives up the oldest packet of a full ring.
LEMMA CycRun ==
  ASSUME NEW s \in SoundRing, NEW a \in Nat \ {0}, NEW m \in Nat, a <= m + 1, Run(Contents(s), a, m),
         a = 1 \/ m - a = mMax - 2
  PROVE  \E c \in Nat \ {0} : /\ c <= m + 1 /\ Run(Contents(cycWrite(s, m + 1)), c, m + 1)
                              /\ c = 1 \/ (m + 1) - c = mMax - 2
<1>1. RingOK(s) /\ mMax \in Nat /\ mMax > 1 /\ m + 1 \in Nat \ {NULL}
  BY SoundIsOK, MaxAssumption, ClipsAssumption DEF NULL
<1>2. CASE full(s)
  <2>1. m - a = mMax - 2 /\ a <= m
    BY <1>1, <1>2, RingHoldsRun
  <2>2. Run(Tail(Contents(s)), a + 1, m)
    BY <2>1, RunShrinks
  <2>3. Run(Append(Tail(Contents(s)), m + 1), a + 1, m + 1)
    BY <2>1, <2>2, RunGrows
  <2>4. Contents(cycWrite(s, m + 1)) = Append(Tail(Contents(s)), m + 1)
    BY <1>1, <1>2, CycWriteSound
  <2>5. Run(Contents(cycWrite(s, m + 1)), a + 1, m + 1)
    BY <2>3, <2>4
  <2> DEFINE c == a + 1
  <2>6. c \in Nat \ {0} /\ c <= m + 1 /\ (m + 1) - c = mMax - 2
    BY <1>1, <2>1
  <2>7. Run(Contents(cycWrite(s, m + 1)), c, m + 1)
    BY <2>5
  <2> HIDE DEF c
  <2> QED BY <2>6, <2>7
<1>3. CASE ~full(s)
  <2>1. a = 1
    <3>1. full(s) <=> m - a + 1 = mMax - 1
      BY RingHoldsRun
    <3> QED BY <1>1, <1>3, <3>1
  <2>2. Contents(cycWrite(s, m + 1)) = Append(Contents(s), m + 1)
    BY <1>1, <1>3, CycWriteSound
  <2>3. Run(Append(Contents(s), m + 1), a, m + 1)
    BY RunGrows
  <2> QED BY <2>1, <2>2, <2>3
<1> QED BY <1>2, <1>3

LEMMA WriteRun ==
  ASSUME NEW s \in SoundRing, NEW f \in Nat \ {0}, NEW t \in Nat, f <= t + 1, Run(Contents(s), f, t),
         ~full(s)
  PROVE  Run(Contents(writeOne(s, t + 1)), f, t + 1)
<1>1. RingOK(s) /\ t + 1 \in Nat \ {NULL}
  BY SoundIsOK DEF NULL
<1>2. Contents(writeOne(s, t + 1)) = Append(Contents(s), t + 1)
  BY <1>1, StoreAppend DEF writeOne
<1> QED BY <1>2, RunGrows

LEMMA SyncRun ==
  ASSUME NEW s \in SoundRing, NEW f \in Nat \ {0}, NEW t \in Nat, f <= t, Run(Contents(s), f, t)
  PROVE  Run(Contents(getSync(s)), f + 1, t)
<1>1. RingOK(s) /\ getOne(s) = f
  BY SoundIsOK, RingHoldsRun
<1>2. s.wi # s.ri
  BY <1>1 DEF getOne, NULL
<1>3. Contents(getSync(s)) = Tail(Contents(s))
  BY <1>1, <1>2, SyncTail
<1>4. Run(Tail(Contents(s)), f + 1, t)
  BY RunShrinks
<1> QED BY <1>3, <1>4

\* The last packet that was put into a ring; the packets of a BAStream; the key packet
\* that a clip has; whether its first part is complete.
Written == IF pull \in {"recv", "end"} THEN pkt ELSE pkt - 1
Holds(b, x, m, y, l) == Run(Contents(streams[b].befor), x, m) /\ Run(Contents(streams[b].after), y, l)
KeyKept(a, m) == IF version = "v0.5" THEN keys[a] ELSE keys[m]
Long(a, m) == a = 1 \/ m - a = mMax - 2

\* The rings of the present BAStream: packets a to m, then those up to the last one written.
Gathered(a, m) ==
  /\ a <= m + 1 /\ m <= Written /\ Long(a, m)
  /\ Holds(mVbas, a, m, m + 1, Written) /\ ~streams[mVbas].is_befor_read_done
  /\ IF status = "DUMP" THEN a <= m /\ KeyKept(a, m) ELSE m = Written

\* Before the clip no packet falls through the tests of the status.
Collecting ==
  /\ status \in {"START", "CYCW", "GETI", "DUMP"} /\ pull \notin {"open", "new"}
  /\ status = "START" => pull = "circulate"
  /\ pull = "GETI?" => status \in {"GETI", "DUMP"}
  /\ pull = "DUMP?" => status = "DUMP"
  /\ pull \in {"circulate", "cycw"} => status # "DUMP"
  /\ \E a \in Nat \ {0}, m \in Nat : Gathered(a, m)

\* Where the packets from x on begin in befor, whose last one is m, and in after.
InBefor(x, m) == IF x <= m THEN x ELSE m + 1
InAfter(x, m) == IF x <= m THEN m + 1 ELSE x

\* The clip of packets a to m + mMax - 1, of which the thread has taken those before x.
Packed(a, m, x) ==
  LET p == packs[1]
  IN /\ a <= m /\ m + mMax - 1 <= pkt /\ Long(a, m) /\ KeyKept(a, m)
     /\ a <= x /\ x <= m + mMax
     /\ Run(p.file, a, x - 1)
     /\ Holds(p.bas, InBefor(x, m), m, InAfter(x, m), m + mMax - 1)
     /\ streams[p.bas].is_befor_read_done => x > m
     /\ p.at \in {"push", "done"} => x = m + mMax
     /\ p.at = "open" => x = a

Clipped == \E a \in Nat \ {0}, m \in Nat, x \in Nat : Packed(a, m, x)

ClipInv ==
  Timely =>
    /\ mVbas = 0 => pkt = IF pull \in {"START?", "new"} THEN 1 ELSE 0
    /\ packs = <<>> /\ mVbas # 0 => Collecting
    /\ packs # <<>> => Clipped

\* Packets that arrive later do not change which ones had the key flag.
LEMMA KeysGrow ==
  ASSUME IInv, keys' = keys \/ \E key \in BOOLEAN : keys' = Append(keys, key)
  PROVE  /\ \A i \in 1 .. pkt : keys'[i] = keys[i]
         /\ pkt \in Nat /\ pkt' \in Nat /\ pkt' >= pkt
<1>1. keys \in Seq(BOOLEAN) /\ pkt = Len(keys) /\ pkt \in Nat
  BY LenProperties DEF IInv, pkt
<1>2. CASE keys' = keys
  BY <1>1, <1>2 DEF pkt
<1>3. ASSUME NEW key \in BOOLEAN, keys' = Append(keys, key)
      PROVE  pkt' = pkt + 1 /\ \A i \in 1 .. pkt : keys'[i] = keys[i]
  BY <1>1, <1>3, AppendProperties DEF pkt
<1> QED BY <1>1, <1>2, <1>3

\* The pull thread does not disturb a clip.
LEMMA ClipLeftAlone ==
  ASSUME IInv, Clipped, UNCHANGED <<packs, version>>,
         keys' = keys \/ \E key \in BOOLEAN : keys' = Append(keys, key),
         streams'[packs[1].bas] = streams[packs[1].bas]
  PROVE  Clipped'
<1>1. PICK a \in Nat \ {0}, m \in Nat, x \in Nat : Packed(a, m, x)
  BY DEF Clipped
<1>2. /\ \A i \in 1 .. pkt : keys'[i] = keys[i]
      /\ pkt \in Nat /\ pkt' \in Nat /\ pkt' >= pkt
  BY KeysGrow
<1>3. a \in 1 .. pkt /\ m \in 1 .. pkt /\ mMax \in Nat /\ m + mMax - 1 <= pkt'
  <2>1. a <= m /\ m + mMax - 1 <= pkt
    BY <1>1 DEF Packed
  <2> QED BY <1>2, <2>1, MaxAssumption, ClipsAssumption
<1>4. KeyKept(a, m)' <=> KeyKept(a, m)
  BY <1>2, <1>3 DEF KeyKept
<1>5. Packed(a, m, x)'
  BY <1>1, <1>3, <1>4 DEF Packed, Holds, Long, InBefor, InAfter
<1> QED BY <1>5 DEF Clipped

LEMMA KeysKept ==
  ASSUME IInv, keys' = keys \/ \E key \in BOOLEAN : keys' = Append(keys, key), UNCHANGED version,
         NEW a \in Nat \ {0}, NEW m \in Nat, a <= m, m <= Written, Written <= pkt
  PROVE  KeyKept(a, m)' <=> KeyKept(a, m)
<1>1. a \in 1 .. pkt /\ m \in 1 .. pkt
  <2>1. pkt \in Nat /\ m <= pkt
    BY KeysGrow DEF Written
  <2> QED BY <2>1
<1> QED BY <1>1, KeysGrow DEF KeyKept

\* Nothing is written and nothing is lost.
LEMMA LooksGather ==
  ASSUME IInv, SafeInv, ClipInv, Open \/ Receive \/ Test \/ Circulate,
         UNCHANGED <<version, mainAt, triggers, early>>
  PROVE  ClipInv'
<1> SUFFICES ASSUME Timely
             PROVE  /\ mVbas' = 0 => pkt' = IF pull' \in {"START?", "new"} THEN 1 ELSE 0
                    /\ packs' = <<>> /\ mVbas' # 0 => Collecting'
                    /\ packs' # <<>> => Clipped'
  BY DEF ClipInv, Timely
<1>1. UNCHANGED <<streams, packs>> /\ mVbas' = mVbas
  BY DEF Open, Receive, Test, Circulate, mVbas
<1>2. keys' = keys \/ \E key \in BOOLEAN : keys' = Append(keys, key)
  BY DEF Open, Receive, Test, Circulate
<1>3. packs # <<>> => Clipped'
  BY <1>1, <1>2, ClipLeftAlone DEF ClipInv
<1>4. /\ pull \in {"open", "recv", "START?", "CYCW?", "GETI?", "DUMP?", "circulate"}
      /\ pkt \in Nat /\ (pull \notin {"open", "recv", "end"} => pkt > 0)
  BY LenProperties DEF Open, Receive, Test, Circulate, IInv, pkt
<1>5. \/ /\ pull = "open" /\ pull' = "recv" /\ status' = "START" /\ pkt' = pkt
      \/ pull = "recv" /\ pull' = "START?" /\ status' = status /\ pkt' = pkt + 1
      \/ pull = "recv" /\ pull' = "end" /\ status' = status /\ pkt' = pkt
      \/ pull = "circulate" /\ pull' = "CYCW?" /\ status' = "CYCW" /\ pkt' = pkt
      \/ /\ status' = status /\ pkt' = pkt
         /\ \/ pull = "START?" /\ pull' = IF status = "START" THEN "new" ELSE "CYCW?"
            \/ pull = "CYCW?" /\ pull' = IF status = "CYCW" THEN "cycw" ELSE "GETI?"
            \/ pull = "GETI?" /\ pull' = IF status = "GETI" THEN "geti" ELSE "DUMP?"
            \/ pull = "DUMP?" /\ pull' = IF status = "DUMP" THEN "dump" ELSE "recv"
  <2>1. \A key \in BOOLEAN : keys' = Append(keys, key) => pkt' = pkt + 1
    BY AppendProperties DEF IInv, pkt
  <2> QED BY <2>1 DEF Open, Receive, Test, Circulate, pkt
<1>6. mVbas = 0 => pkt' = IF pull' \in {"START?", "new"} THEN 1 ELSE 0
  <2>1. mVbas = 0 => /\ status \in {"unset", "START"}
                     /\ pull \in {"open", "recv", "START?", "new", "end"}
                     /\ status = "unset" <=> pull = "open"
    BY DEF SafeInv, Calm
  <2> QED BY <1>4, <1>5, <2>1 DEF ClipInv
<1>7. ASSUME packs = <<>>, mVbas # 0 PROVE Collecting'
  <2>1. Collecting
    BY <1>7 DEF ClipInv
  <2>2. Written' = Written /\ Written \in Nat /\ Written <= pkt
    BY <1>4, <1>5, <2>1 DEF Written, Collecting
  <2>3. PICK a \in Nat \ {0}, m \in Nat : Gathered(a, m)
    BY <2>1 DEF Collecting
  <2>4. status' = "DUMP" <=> status = "DUMP"
    BY <1>5, <2>1 DEF Collecting
  <2>5. status = "DUMP" => (KeyKept(a, m)' <=> KeyKept(a, m))
    BY <1>2, <2>2, <2>3, KeysKept DEF Gathered
  <2>6. Gathered(a, m)'
    BY <1>1, <2>2, <2>3, <2>4, <2>5 DEF Gathered, Long, Holds
  <2>7. \E c \in Nat \ {0}, n \in Nat : Gathered(c, n)'
    BY <2>6
  <2> QED BY <1>5, <2>1, <2>7 DEF Collecting
<1> QED BY <1>1, <1>3, <1>6, <1>7

\* A new BAStream is empty.  The first one comes with the first packet.
LEMMA NewGathers ==
  ASSUME IInv, SafeInv, ClipInv, New, UNCHANGED <<version, mainAt, triggers, early>>
  PROVE  ClipInv'
<1> SUFFICES ASSUME Timely
             PROVE  /\ mVbas' = 0 => pkt' = IF pull' \in {"START?", "new"} THEN 1 ELSE 0
                    /\ packs' = <<>> /\ mVbas' # 0 => Collecting'
                    /\ packs' # <<>> => Clipped'
  BY DEF ClipInv, Timely
<1>1. BAStream \in StreamType
  BY NewRing, SoundIsOK DEF BAStream, StreamType
<1>2. /\ mVbas \in Nat /\ mVbas = Len(streams) /\ mVbas' = mVbas + 1
      /\ streams'[mVbas'] = BAStream
      /\ \A b \in 1 .. Len(streams) : streams'[b] = streams[b]
  BY <1>1, AppendProperties, LenProperties DEF New, IInv, mVbas
<1>3. /\ pull = "new" /\ pull' = "circulate" /\ UNCHANGED <<status, keys, packs>> /\ pkt' = pkt
  BY DEF New, pkt
<1>4. packs # <<>> => Clipped'
  <2>1. packs # <<>> => packs[1].bas \in 1 .. Len(streams)
    BY LenProperties, EmptySeq DEF IInv
  <2> QED BY <1>2, <1>3, <2>1, ClipLeftAlone DEF ClipInv
<1>5. ASSUME packs = <<>> PROVE Collecting'
  <2>1. mVbas = 0
    BY <1>3, <1>5 DEF ClipInv, Collecting
  <2>2. pkt = 1 /\ status \in {"unset", "START"} /\ status # "unset"
    BY <1>3, <2>1 DEF ClipInv, SafeInv, Calm
  <2>3. Written' = 0 /\ status' # "DUMP"
    BY <1>3, <2>2 DEF Written
  <2>4. Run(<<>>, 1, 0)
    BY NoneRun
  <2>5. Gathered(1, 0)'
    <3>1. streams'[mVbas'].befor = anyStream /\ streams'[mVbas'].after = anyStream
          /\ ~streams'[mVbas'].is_befor_read_done
      BY <1>2 DEF BAStream
    <3> QED BY <2>3, <2>4, <3>1, NewRing DEF Gathered, Holds, Long
  <2>6. \E a \in Nat \ {0}, m \in Nat : Gathered(a, m)'
    BY <2>5
  <2> QED BY <1>3, <2>2, <2>6 DEF Collecting
<1> QED BY <1>2, <1>3, <1>4, <1>5

\* The BAStream that the pull thread writes to.
LEMMA Present ==
  ASSUME IInv, mVbas # 0
  PROVE  /\ mVbas \in 1 .. Len(streams) /\ streams[mVbas] \in StreamType /\ Len(streams) \in Nat
         /\ streams[mVbas].befor \in SoundRing /\ streams[mVbas].after \in SoundRing
<1>1. mVbas \in 1 .. Len(streams) /\ Len(streams) \in Nat
  BY LenProperties DEF IInv, mVbas
<1>2. streams[mVbas] \in StreamType
  BY <1>1, ElementOfSeq DEF IInv
<1> QED BY <1>1, <1>2 DEF StreamType

\* What a write makes of the list of BAStreams.
LEMMA WritesOne ==
  ASSUME IInv, mVbas # 0, NEW e \in StreamType, streams' = [streams EXCEPT ![mVbas] = e]
  PROVE  /\ mVbas' = mVbas /\ streams'[mVbas] = e
         /\ \A b \in 1 .. Len(streams) : b # mVbas => streams'[b] = streams[b]
<1> DEFINE k == mVbas
<1>1. k \in 1 .. Len(streams) /\ streams \in Seq(StreamType)
  BY Present DEF IInv
<1>2. streams' = [streams EXCEPT ![k] = e]
  OBVIOUS
<1> HIDE DEF k
<1>3. Len(streams') = Len(streams) /\ streams'[k] = e
      /\ \A b \in 1 .. Len(streams) : b # k => streams'[b] = streams[b]
  BY <1>1, <1>2, ExceptSeq
<1> QED BY <1>3 DEF k, mVbas

\* A packet more in befor.
LEMMA BeforGathers ==
  ASSUME IInv, mVbas # 0, pull \notin {"open", "recv", "end"}, pull' = "recv", UNCHANGED <<keys, version>>,
         writeBefor, status # "DUMP", status' = "DUMP" => keys[pkt] /\ version # "v0.5",
         NEW a \in Nat \ {0}, NEW m \in Nat, Gathered(a, m)
  PROVE  \E c \in Nat \ {0}, n \in Nat : Gathered(c, n)'
<1>1. pkt \in Nat \ {0} /\ m = pkt - 1 /\ Written' = pkt /\ pkt' = pkt
  BY LenProperties DEF IInv, pkt, Gathered, Written
<1> DEFINE b == streams[mVbas]
           e == [b EXCEPT !.befor = cycWrite(@, pkt)]
<1>2. PICK c \in Nat \ {0} : /\ c <= m + 1 /\ Run(Contents(cycWrite(b.befor, m + 1)), c, m + 1)
                             /\ Long(c, m + 1)
  BY Present, CycRun DEF Gathered, Holds, Long
<1>3. e \in StreamType /\ e.befor = cycWrite(b.befor, pkt) /\ e.after = b.after
      /\ e.is_befor_read_done = b.is_befor_read_done
  BY <1>1, Present, CycWriteType DEF StreamType, NULL
<1>4. streams' = [streams EXCEPT ![mVbas] = e]
  BY DEF writeBefor
<1>5. Contents(b.after) = <<>>
  <2> DEFINE f == m + 1
  <2>1. Run(Contents(b.after), f, m) /\ f \in Nat /\ f <= m + 1 /\ f = m + 1
    BY <1>1 DEF Gathered, Holds, Written
  <2> DEFINE s == Contents(b.after)
  <2> HIDE DEF f, s, b
  <2>2. s \in Seq(Nat) /\ Len(s) = m - f + 1
    BY <2>1, RunEntries, SMTT(30) DEF s
  <2>3. s = <<>>
    BY <2>1, <2>2, EmptySeq
  <2> QED BY <2>3 DEF s
<1> HIDE DEF e, b
<1>6. mVbas' = mVbas /\ streams'[mVbas] = e
  BY <1>3, <1>4, WritesOne
<1>7. Run(Contents(e.befor), c, pkt)
  <2>1. pkt = m + 1
    BY <1>1
  <2>2. e.befor = cycWrite(b.befor, m + 1)
    BY <1>3, <2>1
  <2>3. Run(Contents(cycWrite(b.befor, m + 1)), c, m + 1)
    BY <1>2
  <2> QED BY <2>1, <2>2, <2>3
<1>8. Run(Contents(e.after), pkt + 1, pkt)
  <2>1. Contents(e.after) = <<>>
    BY <1>3, <1>5
  <2>2. pkt + 1 \in Nat \ {0} /\ (pkt + 1) - 1 = pkt
    BY <1>1
  <2>3. Run(<<>>, pkt + 1, (pkt + 1) - 1)
    BY <2>2, NoneRun
  <2> QED BY <2>1, <2>2, <2>3
<1>9. Gathered(c, pkt)'
  <2>1. c <= pkt + 1 /\ c <= pkt /\ Long(c, pkt)
    BY <1>1, <1>2
  <2>2. ~e.is_befor_read_done
    BY <1>3 DEF Gathered, b
  <2>3. status' = "DUMP" => KeyKept(c, pkt)'
    <3>1. UNCHANGED <<keys, version>> /\ pkt' = pkt
      BY <1>1
    <3> QED BY <3>1, Zenon DEF KeyKept
  <2>4. Long(c, pkt)'
    BY <1>1, <2>1 DEF Long
  <2> QED BY <1>1, <1>6, <1>7, <1>8, <2>1, <2>2, <2>3, <2>4 DEF Gathered, Holds
<1> QED BY <1>1, <1>9

\* A packet more in after.
LEMMA AfterGathers ==
  ASSUME IInv, mVbas # 0, pull \notin {"open", "recv", "end"}, pull' = "recv", UNCHANGED <<keys, version>>,
         writeAfter, status' = "DUMP", ~full(streams[mVbas].after),
         NEW a \in Nat \ {0}, NEW m \in Nat, Gathered(a, m), a <= m, KeyKept(a, m)
  PROVE  Gathered(a, m)'
<1>1. pkt \in Nat \ {0} /\ Written = pkt - 1 /\ Written' = pkt /\ pkt' = pkt /\ m <= pkt - 1
  BY LenProperties DEF IInv, pkt, Gathered, Written
<1> DEFINE b == streams[mVbas]
           e == [b EXCEPT !.after = writeOne(@, pkt)]
<1>2. Run(Contents(writeOne(b.after, pkt)), m + 1, pkt)
  <2> DEFINE t == pkt - 1
  <2>1. Run(Contents(b.after), m + 1, t) /\ t \in Nat /\ t + 1 = pkt /\ m + 1 <= t + 1
    BY <1>1 DEF Gathered, Holds
  <2> DEFINE s == b.after
  <2>3. s \in SoundRing /\ ~full(s) /\ m + 1 \in Nat \ {0}
    BY Present DEF StreamType
  <2> HIDE DEF t, s, b
  <2>2. Run(Contents(writeOne(s, t + 1)), m + 1, t + 1)
    BY <2>1, <2>3, WriteRun DEF s
  <2> USE DEF s, b
  <2> QED BY <2>1, <2>2
<1>3. e \in StreamType /\ e.after = writeOne(b.after, pkt) /\ e.befor = b.befor
      /\ e.is_befor_read_done = b.is_befor_read_done
  BY <1>1, Present, WriteOneSound DEF StreamType, NULL
<1>4. streams' = [streams EXCEPT ![mVbas] = e]
  BY DEF writeAfter
<1> HIDE DEF e
<1>6. mVbas' = mVbas /\ streams'[mVbas] = e
  BY <1>3, <1>4, WritesOne
<1>7. KeyKept(a, m)' <=> KeyKept(a, m)
  BY DEF KeyKept
<1>8. Holds(mVbas, a, m, m + 1, Written)'
  BY <1>1, <1>2, <1>3, <1>6 DEF Gathered, Holds
<1>9. ~streams'[mVbas'].is_befor_read_done
  BY <1>3, <1>6 DEF Gathered
<1>10. Long(a, m)'
  BY DEF Gathered, Long
<1> QED BY <1>1, <1>7, <1>8, <1>9, <1>10 DEF Gathered

\* The writes of the pull thread.  Only the BAStream of the clip that is asked for is
\* written to, and each packet once.
LEMMA WritesGather ==
  ASSUME IInv, SafeInv, ClipInv,
         \/ Cycle \/ Dump
         \/ GetKeyPacket /\ version # "v0.5"
         \/ GetKeyOldest /\ version = "v0.5",
         UNCHANGED <<version, mainAt, triggers, early>>
  PROVE  ClipInv'
<1> SUFFICES ASSUME Timely
             PROVE  /\ mVbas' = 0 => pkt' = IF pull' \in {"START?", "new"} THEN 1 ELSE 0
                    /\ packs' = <<>> /\ mVbas' # 0 => Collecting'
                    /\ packs' # <<>> => Clipped'
  BY DEF ClipInv, Timely
<1>1. pull \in {"cycw", "geti", "dump"} /\ pull' = "recv" /\ keys' = keys
  BY DEF Cycle, GetKeyPacket, GetKeyOldest, Dump
<1>2. Misuse = "no" /\ mVbas # 0 /\ Calm
  BY <1>1, Alone DEF SafeInv
<1>3. pkt \in Nat \ {NULL} /\ pkt' = pkt
  BY <1>1, LenProperties DEF IInv, pkt, NULL
<1>4. \/ UNCHANGED streams \/ writeBefor \/ writeAfter
  BY <1>2 DEF Cycle, GetKeyPacket, GetKeyOldest, Dump
<1>5. mVbas' = mVbas /\ \A b \in 1 .. Len(streams) : b # mVbas => streams'[b] = streams[b]
  <2> DEFINE b == streams[mVbas]
             e == [b EXCEPT !.befor = cycWrite(@, pkt)]
             f == [b EXCEPT !.after = writeOne(@, pkt)]
  <2>1. e \in StreamType /\ f \in StreamType
    BY <1>2, <1>3, Present, CycWriteType, WriteOneSound DEF StreamType
  <2>2. UNCHANGED streams \/ streams' = [streams EXCEPT ![mVbas] = e]
        \/ streams' = [streams EXCEPT ![mVbas] = f]
    BY <1>4 DEF writeBefor, writeAfter
  <2> HIDE DEF e, f
  <2> QED BY <1>2, <2>1, <2>2, WritesOne DEF mVbas
<1>6. packs # <<>> => packs' = packs /\ Clipped'
  <2> SUFFICES ASSUME packs # <<>> PROVE packs' = packs /\ Clipped'
    OBVIOUS
  <2>1. packs[1].bas \in 1 .. Len(streams) /\ packs[1].bas # mVbas /\ status # "DUMP"
    <3>1. 1 \in 1 .. Len(packs)
      BY LenProperties, EmptySeq DEF IInv
    <3>2. packs[1].bas = mVbas => pull \in {"recv", "START?", "new", "end"}
      BY <1>2 DEF Calm
    <3>3. status # "DUMP"
      BY <1>2 DEF Calm
    <3> QED BY <1>1, <3>1, <3>2, <3>3 DEF IInv
  <2>2. packs' = packs
    BY <1>2, <2>1 DEF Cycle, GetKeyPacket, GetKeyOldest, Dump, Calm
  <2> QED BY <1>1, <1>5, <2>1, <2>2, ClipLeftAlone DEF ClipInv
<1>7. ASSUME packs = <<>>
      PROVE  /\ packs' = <<>> => Collecting'
             /\ packs' # <<>> => Clipped'
  <2>1. Collecting
    BY <1>2, <1>7 DEF ClipInv
  <2>2. PICK a \in Nat \ {0}, m \in Nat : Gathered(a, m)
    BY <2>1 DEF Collecting
  <2>3. /\ status = "DUMP" => pull = "dump"
        /\ pull = "dump" => status = "DUMP"
        /\ pull = "geti" => status = "GETI"
        /\ status # "START" /\ status \in {"CYCW", "GETI", "DUMP"}
    BY <1>1, <1>2, <2>1 DEF Calm, Collecting
  <2>4. ASSUME \E c \in Nat \ {0}, n \in Nat : Gathered(c, n)', status' \in {status, "DUMP"}, packs' = packs
        PROVE  Collecting' /\ packs' = <<>>
    BY <1>1, <1>7, <2>3, <2>4 DEF Collecting
  <2>5. CASE Cycle
    <3>1. writeBefor /\ UNCHANGED <<status, packs>> /\ status # "DUMP"
      BY <1>2, <2>3, <2>5 DEF Cycle
    <3>2. \E c \in Nat \ {0}, n \in Nat : Gathered(c, n)'
      BY <1>1, <1>2, <2>2, <3>1, BeforGathers
    <3> QED BY <2>4, <3>1, <3>2
  <2>6. CASE GetKeyPacket /\ version # "v0.5"
    <3>1. writeBefor /\ packs' = packs /\ status = "GETI"
          /\ status' = (IF keys[pkt] THEN "DUMP" ELSE status)
      BY <1>2, <2>3, <2>6 DEF GetKeyPacket
    <3>2. \E c \in Nat \ {0}, n \in Nat : Gathered(c, n)'
      BY <1>1, <1>2, <2>2, <2>6, <3>1, BeforGathers
    <3> QED BY <2>4, <3>1, <3>2
  <2>7. CASE GetKeyOldest /\ version = "v0.5"
    <3>1. packs' = packs /\ status = "GETI"
      BY <2>3, <2>7 DEF GetKeyOldest
    <3>2. CASE getRiFlag
      <4>1. writeAfter /\ status' = "DUMP"
        BY <1>2, <2>7, <3>2 DEF GetKeyOldest
      <4>2. Run(Contents(streams[mVbas].befor), a, m) /\ a <= m + 1
            /\ Run(Contents(streams[mVbas].after), m + 1, m) /\ m = Written
        BY <2>2, <3>1 DEF Gathered, Holds
      <4>3. a <= m /\ keys[a]
        <5>1. a = m + 1 => oldest(streams[mVbas].befor) = NULL
          BY <1>2, <4>2, Present, RingHoldsRun
        <5>2. a <= m
          BY <3>2, <4>2, <5>1 DEF getRiFlag
        <5>3. oldest(streams[mVbas].befor) = a
          BY <1>2, <4>2, <5>2, Present, RingHoldsRun
        <5> QED BY <3>2, <5>2, <5>3 DEF getRiFlag
      <4>4. ~full(streams[mVbas].after)
        <5> DEFINE f == m + 1
        <5>1. f \in Nat \ {0} /\ f <= m + 1 /\ m - f + 1 = 0 /\ Run(Contents(streams[mVbas].after), f, m)
          BY <4>2
        <5> HIDE DEF f
        <5>2. full(streams[mVbas].after) <=> m - f + 1 = mMax - 1
          BY <1>2, <5>1, Present, RingHoldsRun
        <5> QED BY <5>1, <5>2, ClipsAssumption, MaxAssumption
      <4>5. Gathered(a, m)'
        BY <1>1, <1>2, <2>2, <2>7, <4>1, <4>3, <4>4, AfterGathers DEF KeyKept
      <4>6. \E c \in Nat \ {0}, n \in Nat : Gathered(c, n)'
        BY <4>5
      <4> QED BY <2>4, <3>1, <4>1, <4>6
    <3>3. CASE ~getRiFlag
      <4>1. writeBefor /\ status' = status
        BY <1>2, <2>7, <3>3 DEF GetKeyOldest
      <4>2. \E c \in Nat \ {0}, n \in Nat : Gathered(c, n)'
        BY <1>1, <1>2, <2>2, <2>7, <3>1, <4>1, BeforGathers
      <4> QED BY <2>4, <3>1, <4>1, <4>2
    <3> QED BY <3>2, <3>3
  <2>8. CASE Dump
    <3>1. status = "DUMP" /\ a <= m /\ KeyKept(a, m) /\ m <= Written
      BY <2>2, <2>3, <2>8 DEF Dump, Gathered
    <3>2. CASE ~full(streams[mVbas].after)
      <4>1. writeAfter /\ UNCHANGED <<status, packs>>
        BY <1>2, <2>8, <3>2 DEF Dump
      <4>2. Gathered(a, m)'
        BY <1>1, <1>2, <2>2, <3>1, <3>2, <4>1, AfterGathers
      <4>3. \E c \in Nat \ {0}, n \in Nat : Gathered(c, n)'
        BY <4>2
      <4> QED BY <2>4, <4>1, <4>3
    <3>3. CASE full(streams[mVbas].after)
      <4>1. /\ UNCHANGED streams
            /\ packs' = Append(packs, [at |-> "open", bas |-> mVbas, file |-> <<>>])
        BY <1>2, <2>8, <3>3 DEF Dump
      <4>2. packs' # <<>> /\ packs'[1] = [at |-> "open", bas |-> mVbas, file |-> <<>>]
        BY <1>7, <4>1
      <4>3. Written = m + mMax - 1 /\ Written <= pkt'
        <5>1. Written = pkt - 1
          BY <1>1 DEF Written
        <5>2. full(streams[mVbas].after) <=> Written - (m + 1) + 1 = mMax - 1
          BY <1>2, <1>3, <2>2, <3>1, <5>1, Present, RingHoldsRun DEF Gathered, Holds, NULL
        <5> QED BY <1>3, <3>3, <5>1, <5>2, ClipsAssumption, MaxAssumption DEF NULL
      <4>4. Run(<<>>, a, a - 1)
        BY NoneRun
      <4>5. Packed(a, m, a)'
        <5>1. KeyKept(a, m)' /\ Long(a, m)'
          BY <1>1, <2>2, <3>1 DEF KeyKept, Long, Gathered
        <5>2. m + mMax - 1 <= pkt' /\ a <= m + mMax
          BY <3>1, <4>3, ClipsAssumption, MaxAssumption
        <5>3. Holds(mVbas, a, m, m + 1, m + mMax - 1)' /\ ~streams'[mVbas'].is_befor_read_done
          BY <1>5, <2>2, <4>1, <4>3 DEF Gathered, Holds
        <5>4. packs'[1].at = "open" /\ packs'[1].bas = mVbas' /\ packs'[1].file = <<>>
          BY <1>5, <4>2
        <5>5. Run(packs'[1].file, a, a - 1)
          BY <4>4, <5>4
        <5>6. Holds(packs[1].bas, a, m, m + 1, m + mMax - 1)'
          BY <5>3, <5>4 DEF Holds
        <5>7. ~streams'[packs'[1].bas].is_befor_read_done /\ packs'[1].at \notin {"push", "done"}
          BY <5>3, <5>4
        <5> QED BY <3>1, <5>1, <5>2, <5>5, <5>6, <5>7 DEF Packed, InBefor, InAfter
      <4> QED BY <4>2, <4>5 DEF Clipped
    <3> QED BY <3>2, <3>3
  <2> QED BY <2>5, <2>6, <2>7, <2>8
<1> QED BY <1>2, <1>5, <1>6, <1>7

\* The clip thread takes the packets one after the other, first those of befor.
LEMMA ClipGoesOn ==
  ASSUME IInv, SafeInv, ClipInv, NEW u \in DOMAIN packs, Clip(u)
  PROVE  ClipInv'
<1>1. UNCHANGED <<version, status, pull, keys, triggers, early>> /\ pkt' = pkt
  BY DEF Clip, mediaPackageUp_v01, mediaPackageUp_v02, mediaPackageUp_v03, mediaPackageUp_v04,
         mediaPackageUp_v05, Packaging, pkt
<1>2. PackOpen(u) \/ PackWrite(u) \/ PackEnd(u, "done") \/ PackEnd(u, "push") \/ curlPushUp(u)
  BY DEF Clip, mediaPackageUp_v01, mediaPackageUp_v02, mediaPackageUp_v03, mediaPackageUp_v04,
         mediaPackageUp_v05, Packaging
<1> SUFFICES ASSUME Timely PROVE mVbas' # 0 /\ packs' # <<>> /\ Clipped'
  BY <1>1 DEF ClipInv, Timely
<1>3. Len(packs) = 1 /\ u = 1 /\ packs # <<>>
  <2>1. Calm
    BY DEF SafeInv
  <2> QED BY <2>1, LenProperties, EmptySeq DEF IInv, Calm
<1>4. packs[1] \in PackType /\ packs \in Seq(PackType)
  BY <1>3, ElementOfSeq, LenProperties DEF IInv
<1>5. packs[1].bas \in 1 .. Len(streams) /\ Len(streams) \in Nat
  BY <1>3, LenProperties DEF IInv
<1> DEFINE b == packs[1].bas
           s == streams[b]
<1>6. s \in StreamType /\ s.befor \in SoundRing /\ s.after \in SoundRing /\ b \in 1 .. Len(streams)
  <2>1. s \in StreamType
    BY <1>5, ElementOfSeq DEF IInv
  <2> QED BY <1>5, <2>1 DEF StreamType
<1>7. PICK a \in Nat \ {0}, m \in Nat, x \in Nat : Packed(a, m, x)
  BY <1>3 DEF ClipInv, Clipped
<1>8. /\ a <= m /\ a <= x /\ x <= m + mMax /\ x \in Nat \ {0} /\ mMax \in Nat /\ mMax > 1
      /\ Run(packs[1].file, a, x - 1)
      /\ Run(Contents(s.befor), InBefor(x, m), m) /\ Run(Contents(s.after), InAfter(x, m), m + mMax - 1)
      /\ s.is_befor_read_done => x > m
      /\ packs[1].at \in {"push", "done"} => x = m + mMax
      /\ packs[1].at = "open" => x = a
  BY <1>7, MaxAssumption, ClipsAssumption DEF Packed, Holds
<1>9. ASSUME NEW e, packs' = [packs EXCEPT ![1] = e], e.bas = b,
             NEW f, (streams' = streams /\ f = s) \/ streams' = [streams EXCEPT ![b] = f], f \in StreamType,
             NEW y \in Nat, a <= y, y <= m + mMax, Run(e.file, a, y - 1),
             Run(Contents(f.befor), InBefor(y, m), m), Run(Contents(f.after), InAfter(y, m), m + mMax - 1),
             f.is_befor_read_done => y > m,
             e.at \in {"push", "done"} => y = m + mMax,
             e.at = "open" => y = a
      PROVE  mVbas' # 0 /\ packs' # <<>> /\ Clipped'
  <2>1. packs' # <<>> /\ packs'[1] = e
    BY <1>3, <1>4, <1>9, OnlyOne
  <2> HIDE DEF b, s
  <2>2. streams'[b] = f /\ Len(streams') = Len(streams)
    <3>1. CASE streams' = streams /\ f = s
      BY <3>1 DEF s
    <3>2. CASE streams' = [streams EXCEPT ![b] = f]
      BY <1>6, <1>9, <3>2, ExceptSeq DEF IInv
    <3> QED BY <1>9, <3>1, <3>2
  <2>3. mVbas' # 0
    BY <1>6, <2>2 DEF mVbas
  <2>4. KeyKept(a, m)' /\ Long(a, m)'
    BY <1>1, <1>7, Zenon DEF Packed, KeyKept, Long
  <2>5. m + mMax - 1 <= pkt'
    BY <1>1, <1>7 DEF Packed
  <2>6. Holds(packs[1].bas, InBefor(y, m), m, InAfter(y, m), m + mMax - 1)'
    BY <1>9, <2>1, <2>2 DEF Holds, InBefor, InAfter
  <2>7. streams'[packs'[1].bas].is_befor_read_done => y > m
    BY <1>9, <2>1, <2>2
  <2>8. Packed(a, m, y)'
    BY <1>8, <1>9, <2>1, <2>4, <2>5, <2>6, <2>7 DEF Packed
  <2> QED BY <2>1, <2>3, <2>8 DEF Clipped
<1>10. ASSUME NEW from, NEW to, At(u, from, to)
       PROVE  /\ packs' = [packs EXCEPT ![1] = [packs[1] EXCEPT !.at = to]]
              /\ [packs[1] EXCEPT !.at = to].at = to /\ [packs[1] EXCEPT !.at = to].bas = b
              /\ [packs[1] EXCEPT !.at = to].file = packs[1].file /\ packs[1].at = from
  BY <1>3, <1>4, <1>10 DEF At, PackType
<1>11. PackFrom(u) = "befor" <=> x <= m
  <2>1. CASE x <= m
    <3>1. getOne(s.befor) = x
      BY <1>6, <1>8, <2>1, RingHoldsRun DEF InBefor
    <3> QED BY <1>3, <1>8, <2>1, <3>1 DEF PackFrom, NULL
  <2>2. CASE ~(x <= m)
    <3> DEFINE g == m + 1
    <3>1. Run(Contents(s.befor), g, m) /\ g \in Nat \ {0} /\ g <= m + 1 /\ g = m + 1
      BY <1>8, <2>2 DEF InBefor
    <3> HIDE DEF g
    <3>2. getOne(s.befor) = NULL
      BY <1>6, <3>1, RingHoldsRun
    <3> QED BY <1>3, <2>2, <3>2 DEF PackFrom
  <2> QED BY <2>1, <2>2
<1>12. ~(x <= m) => /\ x <= m + mMax - 1 => getOne(s.after) = x
                    /\ x = m + mMax => getOne(s.after) = NULL
  <2> SUFFICES ASSUME ~(x <= m) PROVE /\ x <= m + mMax - 1 => getOne(s.after) = x
                                      /\ x = m + mMax => getOne(s.after) = NULL
    OBVIOUS
  <2> DEFINE t == m + mMax - 1
  <2>1. Run(Contents(s.after), x, t) /\ t \in Nat /\ x <= t + 1 /\ t + 1 = m + mMax
    BY <1>8 DEF InAfter
  <2> HIDE DEF t
  <2>2. /\ x <= t => getOne(s.after) = x
        /\ x = t + 1 => getOne(s.after) = NULL
    BY <1>6, <1>8, <2>1, RingHoldsRun
  <2> QED BY <2>1, <2>2 DEF t
<1> HIDE DEF b
<1>13. CASE PackOpen(u) \/ curlPushUp(u)
  <2>1. UNCHANGED streams
    BY <1>13 DEF PackOpen, curlPushUp
  <2>2. \/ At(u, "open", "write") \/ At(u, "open", "failed")
        \/ At(u, "push", "done") \/ At(u, "push", "failed")
    BY <1>13 DEF PackOpen, curlPushUp
  <2>3. PICK from, to : At(u, from, to) /\ (to = "done" => from = "push") /\ to \notin {"open", "push"}
    BY <2>2
  <2> DEFINE e == [packs[1] EXCEPT !.at = to]
  <2>4. packs' = [packs EXCEPT ![1] = e] /\ e.bas = b /\ e.file = packs[1].file /\ e.at = to
        /\ packs[1].at = from
    BY <1>10, <2>3
  <2> HIDE DEF e
  <2>5. e.at \in {"push", "done"} => x = m + mMax
    BY <1>8, <2>3, <2>4
  <2> QED BY <1>6, <1>8, <1>9, <2>1, <2>3, <2>4, <2>5
<1>14. CASE PackEnd(u, "done") \/ PackEnd(u, "push")
  <2>1. PICK to : At(u, "write", to) /\ to \in {"done", "push"}
    BY <1>14 DEF PackEnd
  <2> DEFINE e == [packs[1] EXCEPT !.at = to]
             f == [s EXCEPT !.is_befor_read_done = TRUE]
  <2>2. packs' = [packs EXCEPT ![1] = e] /\ e.bas = b /\ e.file = packs[1].file /\ e.at = to
    BY <1>10, <2>1
  <2>3. streams' = [streams EXCEPT ![b] = f]
    BY <1>3, <1>14 DEF PackEnd, b
  <2>4. f \in StreamType /\ f.befor = s.befor /\ f.after = s.after
    BY <1>6 DEF StreamType
  <2>5. PackFrom(u) = "after" /\ getOne(s.after) = NULL
    BY <1>3, <1>14 DEF PackEnd, b
  <2>6. x > m /\ x = m + mMax
    BY <1>8, <1>11, <1>12, <2>5 DEF NULL
  <2> HIDE DEF e, f, s
  <2> QED BY <1>8, <1>9, <2>1, <2>2, <2>3, <2>4, <2>6
<1>15. CASE PackWrite(u)
  <2> DEFINE e == [packs[1] EXCEPT !.file = Append(@, x)]
  <2>1. packs[1].at = "write"
    BY <1>3, <1>15 DEF PackWrite
  <2>2. e.bas = b /\ e.file = Append(packs[1].file, x) /\ e.at = "write"
    BY <1>4, <2>1 DEF PackType, b
  <2>3. Run(e.file, a, (x + 1) - 1)
    <3> DEFINE t == x - 1
    <3>1. t \in Nat /\ t + 1 = x /\ a <= t + 1 /\ Run(packs[1].file, a, t) /\ (x + 1) - 1 = x
      BY <1>8
    <3> HIDE DEF t
    <3>2. Run(Append(packs[1].file, t + 1), a, t + 1)
      BY <3>1, RunGrows
    <3> QED BY <2>2, <3>1, <3>2
  <2>4. CASE x <= m
    <3> DEFINE f == [s EXCEPT !.befor = getSync(@)]
    <3>1. getOne(s.befor) = x
      BY <1>6, <1>8, <2>4, RingHoldsRun DEF InBefor
    <3>2. packs' = [packs EXCEPT ![1] = e]
      BY <1>3, <1>11, <1>15, <2>4, <3>1 DEF PackWrite, b
    <3>3. streams' = [streams EXCEPT ![b] = f]
      BY <1>3, <1>11, <1>15, <2>4 DEF PackWrite, b
    <3>4. f \in StreamType /\ f.befor = getSync(s.befor) /\ f.after = s.after
          /\ f.is_befor_read_done = s.is_befor_read_done
      BY <1>6, <1>8, <3>1, SyncType DEF StreamType, NULL
    <3>5. Run(Contents(f.befor), InBefor(x + 1, m), m)
      <4>1. Run(Contents(getSync(s.befor)), x + 1, m)
        BY <1>6, <1>8, <2>4, SyncRun DEF InBefor
      <4>2. InBefor(x + 1, m) = x + 1
        BY <1>8, <2>4 DEF InBefor
      <4> QED BY <3>4, <4>1, <4>2
    <3>6. Run(Contents(f.after), InAfter(x + 1, m), m + mMax - 1)
      <4>1. InAfter(x + 1, m) = InAfter(x, m)
        BY <1>8, <2>4 DEF InAfter
      <4> QED BY <1>8, <3>4, <4>1
    <3>7. x + 1 \in Nat /\ a <= x + 1 /\ x + 1 <= m + mMax /\ ~f.is_befor_read_done
      BY <1>8, <2>4, <3>4
    <3> HIDE DEF e, f, s
    <3> QED BY <1>9, <2>2, <2>3, <3>2, <3>3, <3>4, <3>5, <3>6, <3>7
  <2>5. CASE ~(x <= m)
    <3> DEFINE f == [s EXCEPT !.after = getSync(@), !.is_befor_read_done = TRUE]
               t == m + mMax - 1
    <3>1. PackFrom(u) # "befor" /\ getOne(s.after) # NULL
      BY <1>3, <1>11, <1>15, <2>5 DEF PackWrite, b
    <3>2. x <= t /\ t \in Nat /\ getOne(s.after) = x
      BY <1>8, <1>12, <2>5, <3>1
    <3>3. packs' = [packs EXCEPT ![1] = e]
      BY <1>3, <1>15, <3>1, <3>2 DEF PackWrite, b
    <3>4. streams' = [streams EXCEPT ![b] = f]
      BY <1>3, <1>6, <1>15, <3>1 DEF PackWrite, b, StreamType
    <3>5. f \in StreamType /\ f.after = getSync(s.after) /\ f.befor = s.befor
      BY <1>6, <3>1, SyncType DEF StreamType
    <3>6. Run(Contents(f.after), InAfter(x + 1, m), t)
      <4>1. Run(Contents(s.after), x, t)
        BY <1>8, <2>5 DEF InAfter
      <4> HIDE DEF t
      <4>2. Run(Contents(getSync(s.after)), x + 1, t)
        BY <1>6, <1>8, <3>2, <4>1, SyncRun
      <4>3. InAfter(x + 1, m) = x + 1
        BY <1>8, <2>5 DEF InAfter
      <4> QED BY <3>5, <4>2, <4>3
    <3>7. Run(Contents(f.befor), InBefor(x + 1, m), m)
      <4>1. InBefor(x + 1, m) = InBefor(x, m)
        BY <1>8, <2>5 DEF InBefor
      <4> QED BY <1>8, <3>5, <4>1
    <3>8. x + 1 \in Nat /\ a <= x + 1 /\ x + 1 <= m + mMax /\ x + 1 > m
      BY <1>8, <2>5, <3>2
    <3> HIDE DEF e, f, s
    <3> QED BY <1>9, <2>2, <2>3, <3>3, <3>4, <3>5, <3>6, <3>7, <3>8
  <2> QED BY <2>4, <2>5
<1> QED BY <1>2, <1>13, <1>14, <1>15

\* The first trigger finds the status at CYCW, or just before.
LEMMA SignalGathers ==
  ASSUME IInv, SafeInv, ClipInv, main \/ sigHandle
  PROVE  ClipInv'
<1>1. UNCHANGED <<version, pull, keys, streams, packs>>
  BY DEF main, sigHandle
<1>2. pkt' = pkt /\ mVbas' = mVbas
  BY <1>1 DEF pkt, mVbas
<1> SUFFICES ASSUME Timely'
             PROVE  /\ mVbas' = 0 => pkt' = IF pull' \in {"START?", "new"} THEN 1 ELSE 0
                    /\ packs' = <<>> /\ mVbas' # 0 => Collecting'
                    /\ packs' # <<>> => Clipped'
  BY DEF ClipInv
<1>3. Timely /\ (status' = status \/ (triggers = 0 /\ mVbas # 0 /\ status' = "GETI"))
  <2>1. CASE main
    BY <2>1 DEF main, Timely
  <2>2. CASE sigHandle
    <3>1. ~early' /\ early' = (early \/ mVbas = 0 \/ mainAt = "new")
      BY <2>2 DEF sigHandle, Timely
    <3>2. ~early /\ mVbas # 0 /\ mainAt # "new"
      BY <3>1, Zenon
    <3>3. triggers = 0
      <4>1. triggers \in Nat /\ triggers' = triggers + 1
        BY <2>2 DEF SafeInv, sigHandle
      <4>2. triggers' <= 1
        BY DEF Timely
      <4> QED BY <4>1, <4>2
    <3> QED BY <2>2, <3>2, <3>3 DEF sigHandle, Timely
  <2> QED BY <2>1, <2>2
<1>4. packs # <<>> => Clipped'
  BY <1>1, <1>3, ClipLeftAlone DEF ClipInv
<1>5. ASSUME packs = <<>>, mVbas # 0 PROVE Collecting'
  <2>1. Collecting
    BY <1>3, <1>5 DEF ClipInv
  <2>2. status # status' => status \in {"START", "CYCW"} /\ status' = "GETI"
    BY <1>3, <2>1 DEF SafeInv, Calm, Collecting
  <2>3. PICK a \in Nat \ {0}, m \in Nat : Gathered(a, m)
    BY <2>1 DEF Collecting
  <2>4. Written' = Written /\ (status' = "DUMP" <=> status = "DUMP")
    BY <1>1, <1>2, <2>2 DEF Written
  <2>5. Gathered(a, m)'
    <3>1. KeyKept(a, m)' <=> KeyKept(a, m)
      BY <1>1 DEF KeyKept
    <3> QED BY <1>1, <1>2, <2>3, <2>4, <3>1 DEF Gathered, Holds, Long
  <2>6. \E c \in Nat \ {0}, n \in Nat : Gathered(c, n)'
    BY <2>5
  <2> QED BY <1>1, <2>1, <2>2, <2>6 DEF Collecting
<1> QED BY <1>1, <1>2, <1>3, <1>4, <1>5 DEF ClipInv

\* In every one of the five versions a clip that one timely trigger asked for has no gap and
\* no packet twice, has its key packet in its place, and is as long as both rings when the
\* first of them was full; for every frame rate and number of packets.
THEOREM ClipsInOrder == Spec => []ClipInOrder
<1>1. Init => ClipInv
  BY DEF Init, ClipInv, mVbas, pkt
<1>2. IInv /\ SafeInv /\ ClipInv /\ [Next]_vars => ClipInv'
  <2> SUFFICES ASSUME IInv, SafeInv, ClipInv, [Next]_vars PROVE ClipInv'
    OBVIOUS
  <2>1. CASE UNCHANGED vars
    BY <2>1 DEF vars, ClipInv, Timely, Collecting, Clipped, Gathered, Packed, Holds, KeyKept, Long,
                Written, InBefor, InAfter, mVbas, pkt
  <2>2. CASE main \/ sigHandle
    BY <2>2, SignalGathers
  <2>3. CASE \E u \in DOMAIN packs : Clip(u)
    BY <2>3, ClipGoesOn
  <2>4. CASE \/ pullSteamLoop_v01 \/ pullSteamLoop_v02 \/ pullSteamLoop_v03
             \/ pullSteamLoop_v04 \/ pullSteamLoop_v05
    <3>1. /\ \/ Open \/ Receive \/ Test \/ New \/ Circulate \/ Cycle \/ Dump
             \/ (GetKeyPacket /\ version # "v0.5") \/ (GetKeyOldest /\ version = "v0.5")
          /\ UNCHANGED <<version, mainAt, triggers, early>>
      BY <2>4 DEF pullSteamLoop_v01, pullSteamLoop_v02, pullSteamLoop_v03, pullSteamLoop_v04,
                  pullSteamLoop_v05, Pulling
    <3> QED BY <3>1, LooksGather, NewGathers, WritesGather
  <2> QED BY <2>1, <2>2, <2>3, <2>4 DEF Next
<1>3. IInv /\ SafeInv /\ ClipInv => ClipInOrder
  <2> SUFFICES ASSUME IInv, SafeInv, ClipInv, triggers = 1, ~early, NEW u \in DOMAIN packs
               PROVE  LET f == packs[u].file
                      IN /\ \A i \in 1 .. Len(f) - 1 : f[i + 1] = f[i] + 1
                         /\ packs[u].at \in {"push", "done"} =>
                              /\ f[1] > 1 => Len(f) = 2 * (mMax - 1)
                              /\ IF version = "v0.5" THEN keys[f[1]] ELSE keys[f[Len(f) - (mMax - 1)]]
    BY DEF ClipInOrder
  <2>1. Timely
    BY DEF Timely
  <2>2. Len(packs) = 1 /\ u = 1 /\ packs # <<>>
    <3>1. Calm
      BY <2>1 DEF SafeInv
    <3> QED BY <3>1, LenProperties, EmptySeq DEF IInv, Calm
  <2>3. PICK a \in Nat \ {0}, m \in Nat, x \in Nat : Packed(a, m, x)
    BY <2>1, <2>2 DEF ClipInv, Clipped
  <2> DEFINE f == packs[1].file
  <2>4. /\ a <= m /\ a <= x /\ Long(a, m) /\ KeyKept(a, m) /\ Run(f, a, x - 1)
        /\ packs[1].at \in {"push", "done"} => x = m + mMax
        /\ mMax \in Nat /\ mMax > 1
    BY <2>3, MaxAssumption, ClipsAssumption DEF Packed
  <2> HIDE DEF f
  <2>5. Len(f) = x - a /\ \A k \in 1 .. Len(f) : f[k] = a + k - 1
    <3> DEFINE t == x - 1
    <3>1. t \in Nat /\ a <= t + 1 /\ Run(f, a, t) /\ t - a + 1 = x - a
      BY <2>4
    <3> HIDE DEF t
    <3> QED BY <3>1, RunEntries
  <2>6. \A i \in 1 .. Len(f) - 1 : f[i + 1] = f[i] + 1
    BY <2>4, <2>5
  <2>7. ASSUME packs[1].at \in {"push", "done"}
        PROVE  /\ f[1] > 1 => Len(f) = 2 * (mMax - 1)
               /\ IF version = "v0.5" THEN keys[f[1]] ELSE keys[f[Len(f) - (mMax - 1)]]
    <3>1. x = m + mMax /\ Len(f) = m + mMax - a
      BY <2>4, <2>5, <2>7
    <3>2. 1 \in 1 .. Len(f) /\ Len(f) - (mMax - 1) \in 1 .. Len(f)
      BY <2>4, <3>1
    <3>3. f[1] = a /\ f[Len(f) - (mMax - 1)] = m
      BY <2>4, <2>5, <3>1, <3>2
    <3>4. a > 1 => Len(f) = 2 * (mMax - 1)
      BY <2>4, <3>1 DEF Long
    <3> QED BY <2>4, <3>3, <3>4 DEF KeyKept
  <2> QED BY <2>2, <2>6, <2>7 DEF f
<1> QED BY <1>1, <1>2, <1>3, Inductive, AlwaysCalm, PTL DEF Spec
-----------------------------------------------------------------------------
\* The current version: RtspPull.

Frames == Nat \ {NoFrame}
Stored == Held \cup freed \cup leaked

\* The tests of one packet, behind the one for START.
Tested == {"circulate", "CYCW?", "GETI?", "DUMP?", "writeBefor", "peek", "flags", "dump", "spawn",
           "writeAfter"}

\* What holds however the program was misused.
Types ==
  /\ queueMax \in Nat \ {0}
  /\ pktSize \in Seq(Sizes) /\ befor \in Seq(Frames) /\ after \in Seq(Frames)
  /\ uploads \in Seq({"call", "read", "copy", "done"})
  /\ frame \in Nat

\* Before two uploads meet inside readBuf every frame is in one place, the packet just
\* received is in none until it is written, and only the upload inside readBuf moves
\* the static pointer.  A new BAStream comes before the first frame is lost.
Own ==
  /\ IsInjective(befor) /\ IsInjective(after) /\ ToSet(befor) \cap ToSet(after) = {}
  /\ frame \notin ToSet(befor) \cup ToSet(after)
  /\ Held \cap (freed \cup leaked) = {} /\ freed \cap leaked = {}
  /\ Stored \subseteq 1 .. pktNo
  /\ pullAt \notin {"open", "recv", "end"} => pktNo > 0 /\ pktNo \notin Stored
  /\ Len(after) <= queueMax /\ (leaked # {} => Len(after) = queueMax)
  /\ pullAt \in {"open", "new"} \/ mBAStream_status = "START" => leaked = {}
  /\ pullAt \in Tested \ {"circulate"} => mBAStream_status # "START"
  /\ \A u, v \in DOMAIN uploads : Inside(u) /\ Inside(v) => u = v
  /\ \A u \in DOMAIN uploads : /\ uploads[u] = "read" => frame = NoFrame
                               /\ uploads[u] = "copy" => frame # NoFrame

QueueInv == Types /\ (misuse # "race" => Own)

\* The frames in the queues, and the one being read.
LEMMA HeldFrames ==
  ASSUME Types, NoFrame \notin ToSet(befor) \cup ToSet(after)
  PROVE  Held = ToSet(befor) \cup ToSet(after) \cup (IF frame = NoFrame THEN {} ELSE {frame})
  BY DEF Held

\* NULL is no frame.
LEMMA NotNull ==
  ASSUME NEW s \in Seq(Frames)
  PROVE  NoFrame \notin ToSet(s) /\ ToSet(s) \subseteq Frames
  BY LenProperties, ElementOfSeq DEF ToSet, Frames

\* The new frame goes to befor, whose oldest one is deleted if it is full.
LEMMA BeforQueued ==
  ASSUME Types, Own, queueBefor, pktNo > 0, pktNo \notin Stored
  PROVE  /\ befor' \in Seq(Frames) /\ IsInjective(befor')
         /\ \E gone \in SUBSET ToSet(befor) :
              /\ freed' = freed \cup gone
              /\ ToSet(befor') = (ToSet(befor) \ gone) \cup {pktNo}
<1>1. pktNo \in Frames /\ pktNo \notin ToSet(befor) /\ befor \in Seq(Frames)
  <2>1. pktNo \in Nat
    BY LenProperties DEF Types, pktNo
  <2> QED BY <2>1, NotNull DEF Types, Stored, Held, Frames, NoFrame
<1>2. CASE Len(befor) < queueMax
  <2>1. befor' = Append(befor, pktNo) /\ freed' = freed
    BY <1>2 DEF queueBefor
  <2>2. /\ befor' \in Seq(Frames) /\ IsInjective(befor') /\ ToSet(befor') = ToSet(befor) \cup {pktNo}
    BY <1>1, <2>1, Enlist DEF Own
  <2>3. \E gone \in SUBSET ToSet(befor) :
          freed' = freed \cup gone /\ ToSet(befor') = (ToSet(befor) \ gone) \cup {pktNo}
    <3> WITNESS {} \in SUBSET ToSet(befor)
    <3> QED BY <2>1, <2>2
  <2> QED BY <2>2, <2>3
<1>3. CASE ~(Len(befor) < queueMax)
  <2>1. befor # <<>>
    BY <1>1, <1>3, EmptySeq DEF Types
  <2>2. /\ Head(befor) \in ToSet(befor) /\ Tail(befor) \in Seq(Frames) /\ IsInjective(Tail(befor))
        /\ ToSet(Tail(befor)) = ToSet(befor) \ {Head(befor)}
    BY <1>1, <2>1, Behead DEF Own
  <2>3. befor' = Append(Tail(befor), pktNo) /\ freed' = freed \cup {Head(befor)}
    BY <1>3 DEF queueBefor
  <2>4. /\ befor' \in Seq(Frames) /\ IsInjective(befor') /\ ToSet(befor') = ToSet(Tail(befor)) \cup {pktNo}
    <3> DEFINE s == Tail(befor)
    <3>1. s \in Seq(Frames) /\ IsInjective(s) /\ pktNo \in Frames /\ pktNo \notin ToSet(s) /\ befor' = Append(s, pktNo)
      BY <1>1, <2>2, <2>3
    <3> HIDE DEF s
    <3>2. /\ Append(s, pktNo) \in Seq(Frames) /\ IsInjective(Append(s, pktNo))
          /\ ToSet(Append(s, pktNo)) = ToSet(s) \cup {pktNo}
      BY <3>1, Enlist
    <3> QED BY <3>1, <3>2 DEF s
  <2> QED BY <2>2, <2>3, <2>4
<1> QED BY <1>2, <1>3

\* The new frame goes to after, or is lost because after is full.
LEMMA AfterQueued ==
  ASSUME Types, Own, queueAfter, pktNo > 0, pktNo \notin Stored
  PROVE  /\ after' \in Seq(Frames) /\ IsInjective(after') /\ Len(after') <= queueMax
         /\ \/ leaked' = leaked /\ ToSet(after') = ToSet(after) \cup {pktNo} /\ leaked = {}
            \/ leaked' = leaked \cup {pktNo} /\ after' = after /\ Len(after') = queueMax
<1>1. pktNo \in Frames /\ pktNo \notin ToSet(after) /\ after \in Seq(Frames) /\ Len(after) \in Nat
  <2>1. pktNo \in Nat
    BY LenProperties DEF Types, pktNo
  <2> QED BY <2>1, NotNull, LenProperties DEF Types, Stored, Held, Frames, NoFrame
<1>2. CASE Len(after) < queueMax
  <2>1. after' = Append(after, pktNo) /\ leaked' = leaked
    BY <1>2 DEF queueAfter
  <2>2. /\ after' \in Seq(Frames) /\ IsInjective(after') /\ ToSet(after') = ToSet(after) \cup {pktNo}
    BY <1>1, <2>1, Enlist DEF Own
  <2>3. Len(after') = Len(after) + 1 /\ leaked = {}
    BY <1>1, <1>2, <2>1, AppendProperties DEF Own, Types
  <2> QED BY <1>1, <1>2, <2>1, <2>2, <2>3 DEF Types
<1>3. CASE ~(Len(after) < queueMax)
  <2>1. after' = after /\ leaked' = leaked \cup {pktNo}
    BY <1>3 DEF queueAfter
  <2>2. Len(after) = queueMax
    BY <1>1, <1>3 DEF Own, Types
  <2> QED BY <1>1, <2>1, <2>2 DEF Own, Types
<1> QED BY <1>2, <1>3

\* The upload threads and the pull thread's tests.
readers == <<uploads, frame>>
frames  == <<befor, after, frame, freed, leaked>>

\* Open, the tests and the look at the flag move no frame.
LEMMA LooksKeep ==
  ASSUME QueueInv, misuse = "no", OpenInput \/ Tests \/ ToCycle \/ Peek \/ Flags \/ ToDump
  PROVE  QueueInv'
<1>1. UNCHANGED <<pktSize, uploads, frames>>
  BY DEF OpenInput, Tests, TestStatus, ToCycle, Peek, Flags, ToDump, queues, reading, frames
<1>2. Types' /\ pktNo' = pktNo /\ Held' = Held /\ Stored' = Stored
  BY <1>1 DEF Types, pktNo, Held, Stored, frames, QueueInv
<1>3. Own
  BY DEF QueueInv
<1>4. \A u : Inside(u)' <=> Inside(u)
  BY <1>1 DEF Inside
<1>5. pullAt' \notin {"open", "recv", "end"} => pullAt \notin {"open", "recv", "end"}
  BY DEF OpenInput, Tests, TestStatus, PullAt, Goto, ToCycle, Peek, Flags, ToDump
<1>6. pullAt' \in {"open", "new"} \/ mBAStream_status' = "START" => leaked = {}
  BY <1>3 DEF Own, OpenInput, Tests, TestStatus, PullAt, Goto, ToCycle, Peek, Flags, ToDump
<1>7. pullAt' \in Tested \ {"circulate"} => mBAStream_status' # "START"
  BY <1>3 DEF Own, OpenInput, Tests, TestStatus, PullAt, Goto, ToCycle, Peek, Flags, ToDump, Tested
<1>8. Own'
  BY <1>1, <1>2, <1>3, <1>4, <1>5, <1>6, <1>7 DEF Own, frames
<1> QED BY <1>2, <1>8 DEF QueueInv

\* A new packet is in no queue yet.
LEMMA PacketKeeps == ASSUME QueueInv, misuse = "no", ReadPacket PROVE QueueInv'
<1>1. UNCHANGED <<mBAStream_status, uploads, frames, misuse>>
  BY DEF ReadPacket, queues, reading, frames
<1>2. Own
  BY DEF QueueInv
<1>3. Held' = Held /\ Stored' = Stored /\ \A u : Inside(u)' <=> Inside(u)
  BY <1>1 DEF Held, Stored, frames, Inside
<1>4. CASE pullAt' = "end" /\ pktSize' = pktSize
  <2>1. Types' /\ pktNo' = pktNo
    BY <1>1, <1>4 DEF Types, QueueInv, frames, pktNo
  <2>2. Own'
    BY <1>1, <1>2, <1>3, <1>4, <2>1 DEF Own, frames, Tested
  <2> QED BY <2>1, <2>2 DEF QueueInv
<1>5. CASE pullAt' = "START?" /\ \E s \in Sizes : pktSize' = Append(pktSize, s)
  <2>1. pktSize' \in Seq(Sizes) /\ pktNo' = pktNo + 1 /\ pktNo \in Nat
    BY <1>5, AppendProperties, LenProperties DEF QueueInv, Types, pktNo
  <2>2. Types'
    BY <1>1, <2>1 DEF Types, QueueInv, frames
  <2>3. Stored \subseteq 1 .. pktNo + 1 /\ pktNo + 1 \notin Stored
    BY <1>2, <2>1 DEF Own
  <2>4. Own'
    BY <1>1, <1>2, <1>3, <1>5, <2>1, <2>3 DEF Own, frames, Tested
  <2> QED BY <2>2, <2>4 DEF QueueInv
<1> QED BY <1>4, <1>5 DEF ReadPacket, Goto

\* The BAStream is new, and so are its queues.
LEMMA NewQueuesKeep == ASSUME QueueInv, misuse = "no", NewBAStream PROVE QueueInv'
<1>1. /\ UNCHANGED <<mBAStream_status, pktSize, uploads, frame, freed, leaked, misuse>>
      /\ befor' = <<>> /\ after' = <<>> /\ pullAt = "new" /\ pullAt' = "circulate"
  BY DEF NewBAStream, PullAt, Goto, reading
<1>2. Own
  BY DEF QueueInv
<1>3. pktNo' = pktNo /\ Types'
  BY <1>1, EmptySeq DEF pktNo, Types, QueueInv
<1>4. IsInjective(<<>>) /\ ToSet(<<>>) = {} /\ Len(<<>>) = 0
  BY EmptySeq DEF IsInjective, ToSet
<1>5. Held' = {frame} \ {NoFrame} /\ Held' \subseteq Held
  BY <1>1, <1>4 DEF Held
<1>6. Stored' \subseteq Stored /\ leaked = {} /\ \A u : Inside(u)' <=> Inside(u)
  BY <1>1, <1>2, <1>5 DEF Stored, Own, Inside
<1>7. queueMax \in Nat \ {0}
  BY DEF QueueInv, Types
<1>8. Own'
  <2>1. /\ IsInjective(befor') /\ IsInjective(after') /\ ToSet(befor') \cap ToSet(after') = {}
        /\ frame' \notin ToSet(befor') \cup ToSet(after') /\ Len(after') = 0
    BY <1>1, <1>4
  <2>2. /\ Held' \cap (freed' \cup leaked') = {} /\ freed' \cap leaked' = {}
        /\ Stored' \subseteq 1 .. pktNo' /\ pktNo' > 0 /\ pktNo' \notin Stored'
    BY <1>1, <1>2, <1>3, <1>5, <1>6 DEF Own
  <2>3. Len(after') <= queueMax /\ leaked' = {}
    BY <1>1, <1>6, <1>7, <2>1
  <2>4. /\ \A u, v \in DOMAIN uploads' : Inside(u)' /\ Inside(v)' => u = v
        /\ \A u \in DOMAIN uploads' : /\ uploads'[u] = "read" => frame' = NoFrame
                                      /\ uploads'[u] = "copy" => frame' # NoFrame
    BY <1>1, <1>2, <1>6 DEF Own
  <2> QED BY <1>1, <2>1, <2>2, <2>3, <2>4 DEF Own
<1> QED BY <1>3, <1>8 DEF QueueInv

\* A packet goes to befor.
LEMMA WriteBeforKeeps == ASSUME QueueInv, misuse = "no", WriteBefor PROVE QueueInv'
<1>1. /\ UNCHANGED <<mBAStream_status, pktSize, uploads, frame, after, leaked, misuse>>
      /\ queueBefor /\ pullAt = "writeBefor" /\ pullAt' = "recv"
  BY DEF WriteBefor, PullAt, Goto, reading
<1>2. Own /\ Types /\ pktNo > 0 /\ pktNo \notin Stored
  BY <1>1 DEF QueueInv, Own
<1>3. befor' \in Seq(Frames) /\ IsInjective(befor')
  BY <1>1, <1>2, BeforQueued
<1>4. PICK gone \in SUBSET ToSet(befor) :
        freed' = freed \cup gone /\ ToSet(befor') = (ToSet(befor) \ gone) \cup {pktNo}
  BY <1>1, <1>2, BeforQueued
<1>5. pktNo' = pktNo /\ Types' /\ pktNo \in Nat /\ pktNo # NoFrame
  BY <1>1, <1>2, <1>3, LenProperties DEF pktNo, Types, NoFrame
<1>6. frame \notin ToSet(befor)' \cup ToSet(after)
  BY <1>2, <1>4, <1>5 DEF Own, Stored, Held
<1>7. /\ ToSet(befor') \cap ToSet(after) = {}
      /\ Held' \cap (freed' \cup leaked) = {} /\ freed' \cap leaked = {}
      /\ Stored' \subseteq Stored \cup {pktNo}
  BY <1>1, <1>2, <1>4, <1>5 DEF Own, Stored, Held
<1>8. Stored' \subseteq 1 .. pktNo'
  BY <1>2, <1>5, <1>7 DEF Own
<1>9. Own'
  BY <1>1, <1>2, <1>3, <1>5, <1>6, <1>7, <1>8 DEF Own, Tested, Inside
<1> QED BY <1>5, <1>9 DEF QueueInv

\* A packet goes to after, and may start an upload.
LEMMA WriteAfterKeeps == ASSUME QueueInv, misuse = "no", Spawn \/ WriteAfter PROVE QueueInv'
<1>1. /\ UNCHANGED <<pktSize, frame, befor, freed, misuse>>
      /\ queueAfter /\ pullAt \in {"spawn", "writeAfter"} /\ pullAt' = "recv"
  BY DEF Spawn, WriteAfter, PullAt, Goto, reading
<1>2. Own /\ Types /\ pktNo > 0 /\ pktNo \notin Stored
  BY <1>1 DEF QueueInv, Own
<1>3. mBAStream_status' = mBAStream_status /\ mBAStream_status # "START"
  BY <1>1, <1>2 DEF Spawn, WriteAfter, AfterRefused, Own, Tested
<1>4. /\ after' \in Seq(Frames) /\ IsInjective(after') /\ Len(after') <= queueMax
      /\ \/ leaked' = leaked /\ ToSet(after') = ToSet(after) \cup {pktNo} /\ leaked = {}
         \/ leaked' = leaked \cup {pktNo} /\ after' = after /\ Len(after') = queueMax
  BY <1>1, <1>2, AfterQueued
<1>5. /\ uploads' \in Seq({"call", "read", "copy", "done"})
      /\ \A u \in DOMAIN uploads' : uploads'[u] = "call" \/ (u \in DOMAIN uploads /\ uploads'[u] = uploads[u])
  <2>1. uploads' = uploads \/ uploads' = Append(uploads, "call")
    BY DEF Spawn, WriteAfter, reading
  <2>2. CASE uploads' = uploads
    BY <1>2, <2>2 DEF Types
  <2>3. CASE uploads' = Append(uploads, "call")
    <3>1. uploads \in Seq({"call", "read", "copy", "done"}) /\ "call" \in {"call", "read", "copy", "done"}
      BY <1>2 DEF Types
    <3>2. Len(uploads) \in Nat /\ DOMAIN uploads = 1 .. Len(uploads)
      BY <3>1, LenProperties
    <3>3. /\ uploads' \in Seq({"call", "read", "copy", "done"})
          /\ DOMAIN uploads' = 1 .. Len(uploads) + 1 /\ uploads'[Len(uploads) + 1] = "call"
          /\ \A u \in 1 .. Len(uploads) : uploads'[u] = uploads[u]
      BY <2>3, <3>1, <3>2, AppendProperties, LenProperties
    <3> QED BY <3>2, <3>3
  <2> QED BY <2>1, <2>2, <2>3
<1>6. pktNo' = pktNo /\ Types' /\ pktNo \in Nat /\ pktNo # NoFrame
  BY <1>1, <1>2, <1>4, <1>5, LenProperties DEF pktNo, Types, NoFrame
<1>7. /\ frame \notin ToSet(befor) \cup ToSet(after')
      /\ ToSet(befor) \cap ToSet(after') = {}
      /\ Held' \cap (freed \cup leaked') = {} /\ freed \cap leaked' = {}
      /\ Stored' \subseteq Stored \cup {pktNo}
  BY <1>1, <1>2, <1>4, <1>6 DEF Own, Stored, Held
<1>8. Stored' \subseteq 1 .. pktNo'
  BY <1>2, <1>6, <1>7 DEF Own
<1>9. leaked' # {} => Len(after') = queueMax
  BY <1>4
<1>10. \A u \in DOMAIN uploads' : Inside(u)' \/ uploads'[u] \in {"read", "copy"} =>
         u \in DOMAIN uploads /\ Inside(u) /\ uploads'[u] = uploads[u]
  BY <1>5 DEF Inside
<1>11. /\ \A u, v \in DOMAIN uploads' : Inside(u)' /\ Inside(v)' => u = v
       /\ \A u \in DOMAIN uploads' : /\ uploads'[u] = "read" => frame = NoFrame
                                     /\ uploads'[u] = "copy" => frame # NoFrame
  BY <1>2, <1>10 DEF Own
<1>12. Own'
  BY <1>1, <1>2, <1>3, <1>4, <1>6, <1>7, <1>8, <1>9, <1>11 DEF Own, Tested
<1> QED BY <1>6, <1>12 DEF QueueInv

\* Upload u goes from one step of readBuf to another.
LEMMA UploadMoves ==
  ASSUME Types, NEW u \in DOMAIN uploads, NEW from, NEW to \in {"call", "read", "copy", "done"},
         Upload(u, from, to)
  PROVE  /\ uploads' \in Seq({"call", "read", "copy", "done"}) /\ DOMAIN uploads' = DOMAIN uploads
         /\ uploads[u] = from
         /\ \A v \in DOMAIN uploads : uploads'[v] = IF v = u THEN to ELSE uploads[v]
  BY ExceptSeq, LenProperties DEF Types, Upload

\* readBuf is entered: by a second upload it is a race, and nothing is promised.
LEMMA EnterKeeps ==
  ASSUME QueueInv, misuse = "no", NEW u \in DOMAIN uploads, EnterReadBuf(u)
  PROVE  QueueInv'
<1>1. UNCHANGED <<mBAStream_status, pullAt, pktSize, frames>>
  BY DEF EnterReadBuf, queues, frames
<1>2. /\ uploads' \in Seq({"call", "read", "copy", "done"}) /\ DOMAIN uploads' = DOMAIN uploads
      /\ \A v \in DOMAIN uploads :
           uploads'[v] = IF v = u THEN (IF frame = NoFrame THEN "read" ELSE "copy") ELSE uploads[v]
  <2>1. (IF frame = NoFrame THEN "read" ELSE "copy") \in {"call", "read", "copy", "done"}
    OBVIOUS
  <2> QED BY <2>1, UploadMoves DEF EnterReadBuf, QueueInv
<1>3. Types' /\ pktNo' = pktNo /\ Held' = Held /\ Stored' = Stored
  BY <1>1, <1>2 DEF Types, pktNo, Held, Stored, frames, QueueInv
<1>4. ASSUME misuse' # "race" PROVE Own'
  <2>1. \A v \in DOMAIN uploads : ~Inside(v)
    BY <1>4 DEF EnterReadBuf
  <2>2. \A v, w \in DOMAIN uploads' : Inside(v)' /\ Inside(w)' => v = w
    BY <1>2, <2>1 DEF Inside
  <2>3. \A v \in DOMAIN uploads' : /\ uploads'[v] = "read" => frame = NoFrame
                                   /\ uploads'[v] = "copy" => frame # NoFrame
    BY <1>2, <2>1 DEF Inside
  <2>4. Own
    BY DEF QueueInv
  <2> QED BY <1>1, <1>3, <2>2, <2>3, <2>4 DEF Own, frames
<1> QED BY <1>3, <1>4 DEF QueueInv

\* The oldest frame goes from befor to the static pointer, which was NULL.
LEMMA ReadOneKeeps ==
  ASSUME QueueInv, misuse = "no", NEW u \in DOMAIN uploads, ReadOne(u)
  PROVE  QueueInv'
<1>1. /\ UNCHANGED <<mBAStream_status, pullAt, pktSize, after, freed, leaked, misuse>>
      /\ befor # <<>> /\ frame' = Head(befor) /\ befor' = Tail(befor)
  BY DEF ReadOne
<1>2. Own /\ Types
  BY DEF QueueInv
<1>3. /\ uploads' \in Seq({"call", "read", "copy", "done"}) /\ DOMAIN uploads' = DOMAIN uploads
      /\ uploads[u] = "read"
      /\ \A v \in DOMAIN uploads : uploads'[v] = IF v = u THEN "copy" ELSE uploads[v]
  BY <1>2, UploadMoves DEF ReadOne
<1>4. frame = NoFrame
  BY <1>2, <1>3 DEF Own
<1>5. /\ frame' \in Frames /\ frame' \in ToSet(befor) /\ befor' \in Seq(Frames)
      /\ IsInjective(befor') /\ ToSet(befor') = ToSet(befor) \ {frame'}
  BY <1>1, <1>2, Behead DEF Own, Types
<1>6. NoFrame \notin ToSet(befor) \cup ToSet(after)
  BY <1>2, NotNull DEF Types
<1>7. frame' # NoFrame /\ frame' \in Nat
  BY <1>5 DEF Frames
<1>8. Held' = Held /\ Stored' = Stored /\ pktNo' = pktNo /\ Types'
  BY <1>1, <1>2, <1>3, <1>4, <1>5, <1>6, <1>7 DEF Held, Stored, pktNo, Types
<1>9. \A v \in DOMAIN uploads : Inside(v)' <=> Inside(v)
  BY <1>3 DEF Inside
<1>10. \A v \in DOMAIN uploads : Inside(v) => v = u
  BY <1>2, <1>3 DEF Own, Inside
<1>11. /\ \A v, w \in DOMAIN uploads' : Inside(v)' /\ Inside(w)' => v = w
       /\ \A v \in DOMAIN uploads' : /\ uploads'[v] = "read" => frame' = NoFrame
                                     /\ uploads'[v] = "copy" => frame' # NoFrame
  BY <1>3, <1>7, <1>9, <1>10 DEF Inside
<1>12. frame' \notin ToSet(befor') \cup ToSet(after') /\ ToSet(befor') \cap ToSet(after') = {}
  BY <1>1, <1>2, <1>5 DEF Own
<1>13. Own'
  BY <1>1, <1>2, <1>5, <1>8, <1>11, <1>12 DEF Own
<1> QED BY <1>8, <1>13 DEF QueueInv

\* Part of the frame, or its end: then it is deleted.
LEMMA CopyKeeps ==
  ASSUME QueueInv, misuse = "no", NEW u \in DOMAIN uploads, Copy(u)
  PROVE  QueueInv'
<1>1. UNCHANGED <<mBAStream_status, pullAt, pktSize, befor, after, leaked, misuse>>
  BY DEF Copy
<1>2. Own /\ Types
  BY DEF QueueInv
<1>3. /\ uploads' \in Seq({"call", "read", "copy", "done"}) /\ DOMAIN uploads' = DOMAIN uploads
      /\ uploads[u] = "copy"
      /\ \A v \in DOMAIN uploads : uploads'[v] = IF v = u THEN "call" ELSE uploads[v]
  <2> Upload(u, "copy", "call")
    BY DEF Copy
  <2> QED BY <1>2, UploadMoves
<1>4. (frame' = NoFrame /\ freed' = freed \cup {frame}) \/ UNCHANGED <<frame, freed>>
  BY DEF Copy
<1>5. frame # NoFrame /\ frame \in Nat
  BY <1>2, <1>3 DEF Own, Types
<1>6. NoFrame \notin ToSet(befor) \cup ToSet(after)
  BY <1>2, NotNull DEF Types
<1>7. pktNo' = pktNo /\ Types' /\ Stored' = Stored
  BY <1>1, <1>2, <1>3, <1>4, <1>5 DEF Held, Stored, pktNo, Types, NoFrame
<1>8. /\ frame' \notin ToSet(befor) \cup ToSet(after)
      /\ Held' \cap (freed' \cup leaked) = {} /\ freed' \cap leaked = {}
  BY <1>1, <1>2, <1>4, <1>5, <1>6 DEF Own, Held
<1>9. \A v \in DOMAIN uploads : ~Inside(v)' /\ uploads'[v] \notin {"read", "copy"}
  BY <1>2, <1>3 DEF Own, Inside
<1>10. Own'
  BY <1>1, <1>2, <1>3, <1>7, <1>8, <1>9 DEF Own
<1> QED BY <1>7, <1>10 DEF QueueInv

\* curl is done, the program starts, or the signal arrives.
LEMMA OthersKeep ==
  ASSUME QueueInv, misuse = "no", (\E u \in DOMAIN uploads : Finish(u)) \/ Publish \/ Trigger
  PROVE  QueueInv'
<1>1. UNCHANGED <<pullAt, pktSize, frames>>
  BY DEF Finish, Publish, Trigger, queues, reading, frames
<1>2. Own /\ Types
  BY DEF QueueInv
<1>3. /\ uploads' \in Seq({"call", "read", "copy", "done"}) /\ DOMAIN uploads' = DOMAIN uploads
      /\ \A v \in DOMAIN uploads : uploads'[v] \in {uploads[v], "done"}
  <2>1. CASE \E u \in DOMAIN uploads : Finish(u)
    <3>1. PICK u \in DOMAIN uploads : Upload(u, "call", "done")
      BY <2>1 DEF Finish
    <3> QED BY <1>2, <3>1, UploadMoves
  <2>2. CASE UNCHANGED uploads
    BY <1>2, <2>2 DEF Types
  <2> QED BY <2>1, <2>2 DEF Publish, Trigger, reading
<1>4. mBAStream_status' = mBAStream_status \/ mBAStream_status' = "GETI"
  BY DEF Finish, Publish, Trigger
<1>5. Types' /\ pktNo' = pktNo /\ Held' = Held /\ Stored' = Stored
  BY <1>1, <1>2, <1>3 DEF Types, pktNo, Held, Stored, frames
<1>6. \A v \in DOMAIN uploads : Inside(v)' \/ uploads'[v] \in {"read", "copy"} =>
        Inside(v) /\ uploads'[v] = uploads[v]
  BY <1>3 DEF Inside
<1>7. Own'
  BY <1>1, <1>2, <1>3, <1>4, <1>5, <1>6 DEF Own, frames
<1> QED BY <1>5, <1>7 DEF QueueInv

\* The inductive invariant.
LEMMA QueueInductive == PullAssumption => (CurrentSpec => []QueueInv)
<1> SUFFICES ASSUME PullAssumption PROVE CurrentSpec => []QueueInv
  OBVIOUS
<1>1. CurrentInit => QueueInv
  <2> SUFFICES ASSUME CurrentInit PROVE QueueInv
    OBVIOUS
  <2>1. queueMax \in Nat \ {0}
    BY DEF PullAssumption
  <2>2. IsInjective(<<>>) /\ ToSet(<<>>) = {} /\ Len(<<>>) = 0 /\ DOMAIN <<>> = {}
    BY EmptySeq DEF IsInjective, ToSet
  <2>3. Types
    BY <2>1, EmptySeq DEF CurrentInit, Types, NoFrame
  <2>4. Own
    BY <2>1, <2>2 DEF CurrentInit, Own, Held, Stored, NoFrame, Tested
  <2> QED BY <2>3, <2>4 DEF QueueInv
<1>2. QueueInv /\ [CurrentNext]_currentVars => QueueInv'
  <2> SUFFICES ASSUME QueueInv, [CurrentNext]_currentVars PROVE QueueInv'
    OBVIOUS
  <2>1. CASE UNCHANGED currentVars
    <3>1. UNCHANGED <<mBAStream_status, pullAt, pktSize, befor, after, frame, freed, leaked, uploads, misuse>>
      BY <2>1 DEF currentVars, queues, reading
    <3> QED BY <3>1 DEF QueueInv, Types, Own, Held, Stored, Inside, pktNo
  <2>2. CASE CurrentNext
    <3>1. misuse = "no"
      BY <2>2 DEF CurrentNext
    <3>2. CASE Pull
      BY <3>1, <3>2, LooksKeep, PacketKeeps, NewQueuesKeep, WriteBeforKeeps, WriteAfterKeeps DEF Pull
    <3>3. CASE Uploading
      BY <3>1, <3>3, EnterKeeps, ReadOneKeeps, CopyKeeps, OthersKeep DEF Uploading, Uploader
    <3>4. CASE Publish \/ Trigger
      BY <3>1, <3>4, OthersKeep
    <3> QED BY <2>2, <3>2, <3>3, <3>4 DEF CurrentNext
  <2> QED BY <2>1, <2>2
<1> QED BY <1>1, <1>2, PTL DEF CurrentSpec

\* As long as no two uploads are inside readBuf at a time, no frame is in two places, in
\* one of them twice, or still in use when it is deleted or lost.
THEOREM FramesHaveOneOwner == PullAssumption => (CurrentSpec => []OneOwner)
<1>1. QueueInv => OneOwner
  <2> SUFFICES ASSUME QueueInv, misuse # "race" PROVE
      /\ Len(befor) + Len(after) + (IF frame = NoFrame THEN 0 ELSE 1) = Cardinality(Held)
      /\ Held \cap (freed \cup leaked) = {} /\ freed \cap leaked = {}
      /\ leaked # {} => Len(after) = queueMax
    BY DEF OneOwner
  <2>1. Own /\ Types
    BY DEF QueueInv
  <2> DEFINE B == ToSet(befor)
             A == ToSet(after)
             F == IF frame = NoFrame THEN {} ELSE {frame}
  <2>2. IsFiniteSet(B) /\ Cardinality(B) = Len(befor) /\ Len(befor) \in Nat
    BY <2>1, ListedOnce DEF Own, Types
  <2>3. IsFiniteSet(A) /\ Cardinality(A) = Len(after) /\ Len(after) \in Nat
    BY <2>1, ListedOnce DEF Own, Types
  <2>4. IsFiniteSet(F) /\ Cardinality(F) = IF frame = NoFrame THEN 0 ELSE 1
    BY FS_EmptySet, FS_Singleton
  <2>5. A \cap B = {} /\ (B \cup A) \cap F = {} /\ Held = (B \cup A) \cup F
    BY <2>1, HeldFrames, NotNull DEF Own, Types
  <2> HIDE DEF A, B, F
  <2>6. IsFiniteSet(B \cup A) /\ Cardinality(B \cup A) = Len(befor) + Len(after)
    <3>1. B \cap A = {} /\ Cardinality({}) = 0
      BY <2>5, FS_EmptySet
    <3>2. IsFiniteSet(B \cup A) /\ Cardinality(B \cup A) = Cardinality(B) + Cardinality(A) - Cardinality(B \cap A)
      BY <2>2, <2>3, FS_Union
    <3>3. Cardinality(B \cap A) = 0
      BY <3>1
    <3> QED BY <2>2, <2>3, <3>2, <3>3
  <2>7. Cardinality(Held) = Len(befor) + Len(after) + (IF frame = NoFrame THEN 0 ELSE 1)
    <3>1. Cardinality((B \cup A) \cup F)
            = Cardinality(B \cup A) + Cardinality(F) - Cardinality((B \cup A) \cap F)
      BY <2>4, <2>6, FS_Union
    <3>2. Cardinality((B \cup A) \cap F) = 0
      BY <2>5, FS_EmptySet
    <3> QED BY <2>2, <2>3, <2>4, <2>5, <2>6, <3>1, <3>2
  <2> QED BY <2>1, <2>7 DEF Own
<1> QED BY <1>1, QueueInductive, PTL
-----------------------------------------------------------------------------
\* The program's stages, however often the signal comes: the BAStream is made once, the
\* status does not go back to START, and only a trigger leads behind CYCW.
Stage ==
  /\ mBAStream_status \in Statuses /\ signalled \in Nat /\ untimely \in {"no", "null", "lost"}
  /\ pullAt \in {"open", "new"} => ~vBAs
  /\ pullAt \in {"circulate", "writeBefor", "flags", "dump", "spawn", "writeAfter"} => vBAs
  /\ mBAStream_status \in {"CYCW", "DUMP"} => vBAs
  /\ mBAStream_status = "unset" => pullAt = "open"
  /\ mBAStream_status = "START" => ~vBAs \/ pullAt = "circulate"
  /\ ~vBAs => befor = <<>> /\ after = <<>> /\ uploads = <<>>
  /\ pullAt = "GETI?" => mBAStream_status \in {"GETI", "DUMP"}
  /\ pullAt \in {"GETI?", "DUMP?", "peek", "flags", "dump", "spawn", "writeAfter"} => signalled > 0
  /\ mBAStream_status \in {"GETI", "DUMP"} \/ uploads # <<>> => signalled > 0

\* What the first upload reads first: the frame that getRiFlags found flagged.
Begins ==
  IF sent[1] # <<>> THEN Flagged(sent[1][1][1])
  ELSE IF frame # NoFrame THEN Flagged(frame)
  ELSE befor # <<>> /\ Flagged(Head(befor))

\* With one trigger the pull thread goes once from GETI over the look at the flag to
\* DUMP, nobody reads befor before that, and every packet but the present one is stored.
Single ==
  signalled <= 1 =>
    /\ pullAt \in {"DUMP?", "spawn", "writeAfter"} => mBAStream_status = "DUMP"
    /\ pullAt \in {"peek", "flags", "dump"} => mBAStream_status = "GETI"
    /\ pullAt = "flags" => befor # <<>> /\ peeked = Head(befor)
    /\ pullAt \in {"dump", "spawn"} => befor # <<>> /\ Flagged(Head(befor))
    /\ uploads # <<>> =>
         /\ Len(uploads) = 1 /\ mBAStream_status = "DUMP" /\ Begins
         /\ pullAt \in {"recv", "end", "START?", "CYCW?", "GETI?", "DUMP?", "writeAfter"}
    /\ (mBAStream_status = "GETI" \/ pullAt \in {"GETI?", "DUMP?", "peek"}) /\ ~vBAs => untimely = "null"
    /\ misuse # "no" => untimely = "null"
    /\ signalled = 1 /\ untimely = "no" => mBAStream_status \in {"GETI", "DUMP"} /\ vBAs /\ pullAt # "circulate"
    /\ Stored = IF pullAt \in {"open", "recv", "end"} THEN 1 .. pktNo ELSE 1 .. pktNo - 1

\* b comes next after a in the upload.
Follows(a, b) == IF a[2] = pktSize[a[1]] THEN b[1] > a[1] /\ b[2] = 1 ELSE b = <<a[1], a[2] + 1>>

\* An only upload has sent whole frames, of the last one the part before ri.
Reads ==
  LET s == sent[1]
      l == s[Len(s)]
  IN /\ s \in Seq((1 .. pktNo) \X Nat)
     /\ \A i \in 1 .. Len(s) : s[i][1] \in freed \cup {frame}
     /\ s # <<>> => s[1][2] = 1
     /\ \A i \in 2 .. Len(s) : Follows(s[i - 1], s[i])
     /\ frame # NoFrame => \A f \in ToSet(befor) : f > frame
     /\ IF frame # NoFrame /\ ri > 0
        THEN s # <<>> /\ l = <<frame, ri>>
        ELSE s # <<>> => /\ l[2] = pktSize[l[1]] /\ (frame # NoFrame => frame > l[1])
                         /\ \A f \in ToSet(befor) : f > l[1]

\* The frames of a queue are in the order of the stream.
Rising(q) == \A i, j \in 1 .. Len(q) : i < j => q[i] < q[j]

\* befor is in the order of the stream, and so is what an only upload reads from it.
Ordered ==
  /\ Rising(befor)
  /\ ri \in Nat /\ (frame # NoFrame => ri < pktSize[frame])
  /\ sent \in Seq(Seq(Nat \X Nat)) /\ Len(sent) = Len(uploads)
  /\ Len(uploads) <= 1 => misuse # "race"
  /\ uploads = <<>> => frame = NoFrame
  /\ Len(uploads) = 1 => Reads

\* Nothing that a step of upload u needs can be missing.
LEMMA UploadRuns ==
  ASSUME Types, NEW u \in DOMAIN uploads
  PROVE  uploads # <<>> /\ Len(uploads) \in Nat \ {0} /\ (Len(uploads) = 1 => u = 1)
<1>1. Len(uploads) \in Nat /\ DOMAIN uploads = 1 .. Len(uploads) /\ Len(<<>>) = 0
  BY LenProperties, EmptySeq DEF Types
<1> QED BY <1>1

LEMMA StageStep == ASSUME QueueInv, Stage, misuse = "no", CurrentNext PROVE Stage'
<1> USE DEF Stage, PullAt, Goto, queues, reading, signals
<1>1. CASE OpenInput
  BY <1>1 DEF OpenInput, Statuses
<1>2. CASE ReadPacket
  BY <1>2 DEF ReadPacket
<1>3. CASE Tests
  <2>1. pullAt = "CYCW?" => mBAStream_status # "START"
    BY DEF QueueInv, Own, Tested
  <2> QED BY <1>3, <2>1 DEF Tests, TestStatus, Statuses
<1>4. CASE NewBAStream
  BY <1>4 DEF NewBAStream
<1>5. CASE ToCycle
  BY <1>5 DEF ToCycle, Statuses
<1>6. CASE WriteBefor
  BY <1>6 DEF WriteBefor
<1>7. CASE Peek
  BY <1>7 DEF Peek
<1>8. CASE Flags
  BY <1>8 DEF Flags
<1>9. CASE ToDump
  BY <1>9 DEF ToDump, Statuses
<1>10. CASE Spawn
  BY <1>10 DEF Spawn
<1>11. CASE WriteAfter
  <2>1. mBAStream_status' = mBAStream_status
    BY <1>11 DEF WriteAfter, AfterRefused
  <2> QED BY <1>11, <2>1 DEF WriteAfter
<1>12. ASSUME NEW u \in DOMAIN uploads, Uploader(u) PROVE Stage'
  <2>1. uploads # <<>>
    BY UploadRuns DEF QueueInv
  <2>2. UNCHANGED <<mBAStream_status, pullAt, vBAs, signalled, untimely>>
    BY <1>12 DEF Uploader, EnterReadBuf, ReadOne, Copy, Finish
  <2> QED BY <2>1, <2>2
<1>13. CASE Publish
  BY <1>13 DEF Publish
<1>14. CASE Trigger
  BY <1>14 DEF Trigger, Statuses
<1> QED BY <1>1, <1>2, <1>3, <1>4, <1>5, <1>6, <1>7, <1>8, <1>9, <1>10, <1>11, <1>12, <1>13, <1>14
        DEF CurrentNext, Pull, Uploading

\* The pull thread goes on without moving a frame.
LEMMA SingleLooks ==
  ASSUME QueueInv, Stage, Single, misuse = "no", OpenInput \/ Tests \/ ToCycle \/ Peek \/ Flags \/ ToDump
  PROVE  Single'
<1> SUFFICES ASSUME signalled' <= 1 PROVE Single'
  BY DEF Single
<1>1. UNCHANGED <<vBAs, pktSize, uploads, sent, befor, after, frame, freed, leaked, signalled, untimely>>
  BY DEF OpenInput, Tests, TestStatus, ToCycle, Peek, Flags, ToDump, queues, reading, signals
<1>2. Stored' = Stored /\ pktNo' = pktNo /\ Begins' = Begins /\ \A f : Flagged(f)' = Flagged(f)
  BY <1>1 DEF Stored, Held, pktNo, Begins, Flagged
<1>3. signalled <= 1 /\ signalled = signalled'
  BY <1>1
<1>4. CASE OpenInput
  <2>1. pullAt = "open" /\ pullAt' = "recv" /\ mBAStream_status' = "START" /\ misuse' = misuse
    BY <1>4 DEF OpenInput, PullAt, Goto
  <2> QED BY <1>1, <1>2, <1>3, <2>1 DEF Single, Stage
<1>5. CASE Tests
  <2>1. mBAStream_status' = mBAStream_status /\ peeked' = peeked /\ misuse' = misuse
    BY <1>5 DEF Tests, TestStatus
  <2>2. pullAt = "CYCW?" => mBAStream_status # "START"
    BY DEF QueueInv, Own, Tested
  <2>3. CASE TestStatus("START?", "START", "new", "CYCW?")
    <3>1. pullAt = "START?" /\ pullAt' \in {"new", "CYCW?"} /\ (pullAt' = "new" => mBAStream_status = "START")
      BY <2>3 DEF TestStatus, PullAt, Goto
    <3> QED BY <1>1, <1>2, <1>3, <2>1, <3>1 DEF Single, Stage
  <2>4. CASE TestStatus("CYCW?", "CYCW", "writeBefor", "GETI?")
    <3>1. /\ pullAt = "CYCW?" /\ pullAt' \in {"writeBefor", "GETI?"}
          /\ IF mBAStream_status = "CYCW" THEN pullAt' = "writeBefor" ELSE pullAt' = "GETI?"
      BY <2>4 DEF TestStatus, PullAt, Goto
    <3> QED BY <1>1, <1>2, <1>3, <2>1, <2>2, <3>1 DEF Single, Stage, Statuses
  <2>5. CASE TestStatus("GETI?", "GETI", "peek", "DUMP?")
    <3>1. /\ pullAt = "GETI?" /\ pullAt' \in {"peek", "DUMP?"}
          /\ IF mBAStream_status = "GETI" THEN pullAt' = "peek" ELSE pullAt' = "DUMP?"
      BY <2>5 DEF TestStatus, PullAt, Goto
    <3> QED BY <1>1, <1>2, <1>3, <2>1, <3>1 DEF Single, Stage
  <2>6. CASE TestStatus("DUMP?", "DUMP", "writeAfter", "recv")
    <3>1. /\ pullAt = "DUMP?" /\ mBAStream_status = "DUMP" /\ pullAt' = "writeAfter"
      BY <1>3, <2>6 DEF TestStatus, PullAt, Goto, Single
    <3> QED BY <1>1, <1>2, <1>3, <2>1, <3>1 DEF Single, Stage
  <2> QED BY <1>5, <2>3, <2>4, <2>5, <2>6 DEF Tests
<1>6. CASE ToCycle
  <2>1. pullAt = "circulate" /\ pullAt' = "CYCW?" /\ mBAStream_status' = "CYCW" /\ misuse' = misuse
    BY <1>6 DEF ToCycle, PullAt, Goto
  <2> QED BY <1>1, <1>2, <1>3, <2>1 DEF Single, Stage
<1>7. CASE Peek
  <2>1. /\ pullAt = "peek" /\ mBAStream_status' = mBAStream_status
        /\ \/ ~vBAs /\ misuse' = "null" /\ pullAt' = pullAt
           \/ /\ vBAs /\ misuse' = "no"
              /\ \/ befor = <<>> /\ pullAt' = "writeBefor"
                 \/ befor # <<>> /\ pullAt' = "flags" /\ peeked' = Head(befor)
    BY <1>7 DEF Peek, PullAt, Goto
  <2> QED BY <1>1, <1>2, <1>3, <2>1 DEF Single, Stage
<1>8. CASE Flags
  <2>1. pullAt = "flags" /\ befor # <<>> /\ peeked = Head(befor) /\ mBAStream_status = "GETI"
    BY <1>3, <1>8 DEF Single, Flags, PullAt
  <2>2. Head(befor) \in ToSet(befor)
    BY <2>1, Behead DEF QueueInv, Own, Types
  <2>3. peeked \notin freed
    BY <2>1, <2>2 DEF QueueInv, Own, Held
  <2>4. /\ mBAStream_status' = mBAStream_status /\ misuse' = "no"
        /\ \/ Flagged(Head(befor)) /\ pullAt' = "dump"
           \/ pullAt' = "writeBefor"
    BY <1>8, <2>1, <2>3 DEF Flags, Goto
  <2> QED BY <1>1, <1>2, <1>3, <2>1, <2>4 DEF Single, Stage
<1>9. CASE ToDump
  <2>1. pullAt = "dump" /\ pullAt' = "spawn" /\ mBAStream_status' = "DUMP" /\ misuse' = misuse
    BY <1>9 DEF ToDump, PullAt, Goto
  <2> QED BY <1>1, <1>2, <1>3, <2>1 DEF Single, Stage
<1> QED BY <1>4, <1>5, <1>6, <1>7, <1>8, <1>9

\* A list that is not empty has a first and a last element.
LEMMA FirstOfSeq ==
  ASSUME NEW T, NEW s \in Seq(T), s # <<>>
  PROVE  s[1] \in T /\ s[Len(s)] \in T /\ Len(s) \in Nat \ {0} /\ 1 \in 1 .. Len(s)
<1>1. Len(s) \in Nat \ {0}
  BY LenProperties, EmptySeq
<1> QED BY <1>1, ElementOfSeq

\* A packet arrives, or the BAStream is made.
LEMMA SingleBegins ==
  ASSUME QueueInv, Stage, Single, Ordered, misuse = "no", ReadPacket \/ NewBAStream
  PROVE  Single'
<1> SUFFICES ASSUME signalled' <= 1 PROVE Single'
  BY DEF Single
<1>1. CASE ReadPacket
  <2>1. /\ UNCHANGED <<mBAStream_status, peeked, vBAs, uploads, sent, befor, after, frame, freed, leaked, signalled,
                       untimely, misuse>>
        /\ pullAt = "recv"
    BY <1>1 DEF ReadPacket, queues, reading, signals, PullAt
  <2>2. Stored' = Stored /\ Stored = 1 .. pktNo /\ pktNo \in Nat
    BY <2>1, LenProperties DEF Stored, Held, Single, QueueInv, Types, pktNo
  <2>3. CASE pullAt' = "end" /\ pktSize' = pktSize
    <3>1. pktNo' = pktNo /\ Begins' = Begins
      BY <2>1, <2>3 DEF pktNo, Begins, Flagged
    <3> QED BY <2>1, <2>2, <2>3, <3>1 DEF Single
  <2>4. CASE pullAt' = "START?" /\ \E s \in Sizes : pktSize' = Append(pktSize, s)
    <3>1. pktNo' = pktNo + 1 /\ \A f \in 1 .. pktNo : pktSize'[f] = pktSize[f]
      BY <2>4, AppendProperties, LenProperties DEF QueueInv, Types, pktNo
    <3>2. uploads # <<>> => Begins'
      <4> SUFFICES ASSUME uploads # <<>> PROVE Begins'
        OBVIOUS
      <4>1. Begins
        BY <2>1 DEF Single
      <4>2. CASE sent[1] # <<>>
        <5>1. Len(uploads) = 1
          BY <2>1 DEF Single
        <5>2. sent[1] \in Seq((1 .. pktNo) \X Nat)
          BY <5>1 DEF Ordered, Reads
        <5>3. sent[1][1] \in (1 .. pktNo) \X Nat
          BY <4>2, <5>2, FirstOfSeq
        <5> QED BY <2>1, <3>1, <4>1, <4>2, <5>3 DEF Begins, Flagged
      <4>3. CASE sent[1] = <<>> /\ frame # NoFrame
        <5>1. frame \in Stored
          BY <4>3 DEF Stored, Held
        <5> QED BY <2>1, <2>2, <3>1, <4>1, <4>3, <5>1 DEF Begins, Flagged
      <4>4. CASE sent[1] = <<>> /\ frame = NoFrame
        <5>1. befor # <<>> /\ Head(befor) \in Stored
          BY <4>1, <4>4, Behead DEF Begins, QueueInv, Own, Types, Stored, Held
        <5> QED BY <2>1, <2>2, <3>1, <4>1, <4>4, <5>1 DEF Begins, Flagged
      <4> QED BY <4>2, <4>3, <4>4
    <3>3. Stored' = 1 .. pktNo' - 1
      BY <2>2, <3>1
    <3> QED BY <2>1, <2>4, <3>2, <3>3 DEF Single, Stage
  <2> QED BY <1>1, <2>3, <2>4 DEF ReadPacket, Goto
<1>2. CASE NewBAStream
  <2>1. /\ UNCHANGED <<mBAStream_status, pktSize, peeked, uploads, frame, freed, leaked, signalled, untimely, misuse>>
        /\ befor' = <<>> /\ after' = <<>> /\ pullAt = "new" /\ pullAt' = "circulate" /\ vBAs'
    BY <1>2 DEF NewBAStream, PullAt, Goto, reading, signals
  <2>2. befor = <<>> /\ after = <<>> /\ uploads = <<>> /\ ~vBAs
    BY <2>1 DEF Stage
  <2>3. Stored' = Stored /\ pktNo' = pktNo
    BY <2>1, <2>2 DEF Stored, Held, pktNo
  <2> QED BY <2>1, <2>2, <2>3 DEF Single, Stage
<1> QED BY <1>1, <1>2

\* What the queues refuse or give up is remembered: a written packet is stored.
LEMMA WritesStore ==
  ASSUME QueueInv, misuse = "no", WriteBefor \/ Spawn \/ WriteAfter
  PROVE  Stored' = Stored \cup {pktNo} /\ pktNo' = pktNo /\ pktNo \in Nat \ {0}
<1>1. Own /\ Types
  BY DEF QueueInv
<1>2. /\ pullAt \in {"writeBefor", "spawn", "writeAfter"} /\ pktSize' = pktSize /\ frame' = frame
      /\ \/ queueBefor /\ UNCHANGED <<after, leaked>>
         \/ queueAfter /\ UNCHANGED <<befor, freed>>
  BY DEF WriteBefor, Spawn, WriteAfter, PullAt, reading
<1>3. pktNo > 0 /\ pktNo \notin Stored /\ pktNo \in Nat /\ pktNo' = pktNo
  BY <1>1, <1>2, LenProperties DEF Own, Types, pktNo
<1>4. CASE queueBefor /\ UNCHANGED <<after, leaked>>
  <2>1. PICK gone \in SUBSET ToSet(befor) :
          freed' = freed \cup gone /\ ToSet(befor') = (ToSet(befor) \ gone) \cup {pktNo}
    BY <1>1, <1>3, <1>4, BeforQueued
  <2> QED BY <1>2, <1>3, <1>4, <2>1 DEF Stored, Held
<1>5. CASE queueAfter /\ UNCHANGED <<befor, freed>>
  <2>1. \/ leaked' = leaked /\ ToSet(after') = ToSet(after) \cup {pktNo}
        \/ leaked' = leaked \cup {pktNo} /\ after' = after
    BY <1>1, <1>3, <1>5, AfterQueued
  <2> QED BY <1>2, <1>3, <1>5, <2>1 DEF Stored, Held
<1> QED BY <1>2, <1>3, <1>4, <1>5

\* A packet is stored: before the trigger in befor, with the one that starts the upload
\* and from there on in after.
LEMMA SingleWrites ==
  ASSUME QueueInv, Stage, Single, Ordered, misuse = "no", WriteBefor \/ Spawn \/ WriteAfter
  PROVE  Single'
<1> SUFFICES ASSUME signalled' <= 1 PROVE Single'
  BY DEF Single
<1>1. /\ UNCHANGED <<vBAs, pktSize, frame, signalled, untimely, misuse>> /\ pullAt' = "recv"
      /\ mBAStream_status' = mBAStream_status
  BY DEF WriteBefor, Spawn, WriteAfter, AfterRefused, Goto, reading, signals
<1>2. Stored' = 1 .. pktNo'
  <2>1. Stored = 1 .. pktNo - 1
    BY <1>1 DEF Single, WriteBefor, Spawn, WriteAfter, PullAt
  <2>2. Stored' = Stored \cup {pktNo} /\ pktNo' = pktNo /\ pktNo \in Nat \ {0}
    BY WritesStore
  <2>3. \A p \in Nat \ {0} : (1 .. p - 1) \cup {p} = 1 .. p
    OBVIOUS
  <2> QED BY <2>1, <2>2, <2>3
<1>3. uploads' # <<>> => Len(uploads') = 1 /\ mBAStream_status' = "DUMP" /\ Begins'
  <2>1. CASE WriteBefor
    BY <1>1, <2>1 DEF WriteBefor, Single, PullAt, reading
  <2>2. CASE WriteAfter
    <3>1. UNCHANGED <<uploads, sent, befor>>
      BY <2>2 DEF WriteAfter, reading
    <3> QED BY <1>1, <3>1 DEF Single, Begins, Flagged
  <2>3. CASE Spawn
    <3>1. /\ uploads = <<>> /\ mBAStream_status = "DUMP" /\ befor # <<>> /\ Flagged(Head(befor))
      BY <1>1, <2>3 DEF Spawn, Single, PullAt
    <3>2. frame = NoFrame /\ Len(sent) = 0 /\ sent \in Seq(Seq(Nat \X Nat)) /\ <<>> \in Seq(Nat \X Nat)
      BY <3>1, EmptySeq DEF Ordered
    <3>3. uploads' = Append(uploads, "call") /\ sent' = Append(sent, <<>>) /\ befor' = befor
      BY <2>3 DEF Spawn
    <3>4. sent'[1] = <<>>
      BY <3>2, <3>3, AppendProperties
    <3>5. Len(uploads') = 1
      BY <3>1, <3>3, EmptySeq, AppendProperties DEF QueueInv, Types
    <3> QED BY <1>1, <3>1, <3>2, <3>3, <3>4, <3>5 DEF Begins, Flagged
  <2> QED BY <2>1, <2>2, <2>3
<1> QED BY <1>1, <1>2, <1>3 DEF Single

\* The next part of a frame: it is not empty, and ends with the frame or before.
LEMMA CopiedPart ==
  ASSUME PullAssumption, QueueInv, Ordered, misuse = "no", frame # NoFrame
  PROVE  LET n    == IF bufSize < pktSize[frame] - ri THEN bufSize ELSE pktSize[frame] - ri
             part == [i \in 1 .. n |-> <<frame, ri + i>>]
         IN  /\ frame \in 1 .. pktNo /\ pktSize[frame] \in Nat /\ ri \in Nat
             /\ n \in Nat \ {0} /\ ri + n <= pktSize[frame]
             /\ part \in Seq((1 .. pktNo) \X Nat) /\ part \in Seq(Nat \X Nat)
             /\ Len(part) = n /\ part[1] = <<frame, ri + 1>>
             /\ \A i \in 1 .. n : part[i] = <<frame, ri + i>>
<1>1. misuse # "race" /\ ri \in Nat /\ ri < pktSize[frame]
  BY DEF Ordered
<1>2. frame \in 1 .. pktNo
  BY <1>1 DEF QueueInv, Own, Stored, Held
<1>3. pktSize[frame] \in Nat /\ frame \in Nat
  <2>1. pktSize \in Seq(Sizes) /\ frame \in 1 .. Len(pktSize) /\ Sizes \subseteq Nat
    BY <1>2 DEF QueueInv, Types, pktNo, PullAssumption
  <2>2. pktSize[frame] \in Sizes
    BY <2>1, ElementOfSeq
  <2> QED BY <2>1, <2>2 DEF QueueInv, Types
<1> DEFINE n == IF bufSize < pktSize[frame] - ri THEN bufSize ELSE pktSize[frame] - ri
           part == [i \in 1 .. n |-> <<frame, ri + i>>]
<1>4. n \in Nat \ {0} /\ ri + n <= pktSize[frame]
  <2>1. bufSize \in Nat \ {0}
    BY DEF PullAssumption
  <2> QED BY <1>1, <1>3, <2>1
<1>5. \A i \in 1 .. n : <<frame, ri + i>> \in (1 .. pktNo) \X Nat /\ <<frame, ri + i>> \in Nat \X Nat
  BY <1>1, <1>2, <1>3, <1>4
<1>6. part \in Seq((1 .. pktNo) \X Nat) /\ part \in Seq(Nat \X Nat)
  <2>1. part \in [1 .. n -> (1 .. pktNo) \X Nat] /\ part \in [1 .. n -> Nat \X Nat]
    BY <1>5
  <2> HIDE DEF n, part
  <2> QED BY <1>4, <2>1, SeqDef
<1>7. Len(part) = n
  <2>1. DOMAIN part = 1 .. n
    OBVIOUS
  <2> HIDE DEF n, part
  <2> QED BY <1>4, <1>6, <2>1, LenProperties
<1>8. 1 \in 1 .. n
  BY <1>4
<1> QED BY <1>1, <1>2, <1>3, <1>4, <1>6, <1>7, <1>8

\* An upload that is alone moves on: no packet is lost, and it begins with what it began.
LEMMA SingleUploads ==
  ASSUME PullAssumption, QueueInv, Stage, Single, Ordered, misuse = "no",
         NEW u \in DOMAIN uploads, Uploader(u)
  PROVE  Single'
<1> SUFFICES ASSUME signalled' <= 1 PROVE Single'
  BY DEF Single
<1>1. /\ UNCHANGED <<mBAStream_status, pullAt, pktSize, peeked, vBAs, signalled, untimely, after, leaked>>
      /\ signalled <= 1
  BY DEF Uploader, EnterReadBuf, ReadOne, Copy, Finish, queues, signals
<1>2. /\ uploads # <<>> /\ Len(uploads) = 1 /\ u = 1 /\ mBAStream_status = "DUMP" /\ Begins /\ Own /\ Types
      /\ pullAt \in {"recv", "end", "START?", "CYCW?", "GETI?", "DUMP?", "writeAfter"}
  BY <1>1, UploadRuns DEF Single, QueueInv, Own
<1>3. uploads' # <<>> /\ Len(uploads') = 1
  <2>1. \E from, to : uploads' = [uploads EXCEPT ![u] = to]
    BY DEF Uploader, EnterReadBuf, ReadOne, Copy, Finish, Upload
  <2>2. \A to : Len([uploads EXCEPT ![u] = to]) = Len(uploads)
    BY <1>2, LenProperties DEF Types
  <2> QED BY <1>2, <2>1, <2>2, EmptySeq
<1>4. Stored' = Stored /\ pktNo' = pktNo
  <2>1. pktNo' = pktNo
    BY <1>1 DEF pktNo
  <2>2. CASE ReadOne(u)
    <3>1. /\ UNCHANGED freed /\ befor # <<>> /\ frame' = Head(befor) /\ befor' = Tail(befor)
          /\ uploads[u] = "read"
      BY <2>2 DEF ReadOne, Upload
    <3>2. frame = NoFrame
      BY <1>2, <3>1 DEF Own
    <3>3. Head(befor) \in Frames /\ Head(befor) \in ToSet(befor) /\ ToSet(Tail(befor)) = ToSet(befor) \ {Head(befor)}
      BY <1>2, <3>1, Behead DEF Own, Types
    <3> QED BY <1>1, <2>1, <3>1, <3>2, <3>3 DEF Stored, Held, Frames
  <2>3. CASE Copy(u)
    <3>1. /\ UNCHANGED befor /\ uploads[u] = "copy"
          /\ \/ frame' = NoFrame /\ freed' = freed \cup {frame}
             \/ UNCHANGED <<frame, freed>>
      BY <2>3 DEF Copy, Upload
    <3>2. frame # NoFrame
      BY <1>2, <3>1 DEF Own
    <3> QED BY <1>1, <2>1, <3>1, <3>2 DEF Stored, Held
  <2>4. CASE EnterReadBuf(u) \/ Finish(u)
    BY <2>1, <2>4 DEF EnterReadBuf, Finish, queues, Stored, Held
  <2> QED BY <2>2, <2>3, <2>4 DEF Uploader
<1>5. misuse' = "no"
  <2>1. CASE EnterReadBuf(u)
    <3>1. uploads[u] = "call" /\ DOMAIN uploads = {1}
      BY <1>2, <2>1, LenProperties DEF EnterReadBuf, Upload, Types
    <3> QED BY <1>2, <2>1, <3>1 DEF EnterReadBuf, Inside
  <2> QED BY <2>1 DEF Uploader, ReadOne, Copy, Finish
<1>6. Begins'
  <2>1. \A f : Flagged(f)' <=> Flagged(f)
    BY <1>1 DEF Flagged
  <2>2. CASE EnterReadBuf(u) \/ Finish(u)
    BY <1>2, <2>1, <2>2 DEF EnterReadBuf, Finish, queues, Begins, Flagged
  <2>3. CASE ReadOne(u)
    <3>1. /\ UNCHANGED sent /\ befor # <<>> /\ frame' = Head(befor) /\ uploads[u] = "read"
      BY <2>3 DEF ReadOne, Upload
    <3>2. frame = NoFrame
      BY <1>2, <3>1 DEF Own
    <3>3. Head(befor) # NoFrame
      BY <1>2, <3>1, Behead DEF Own, Types, Frames
    <3> QED BY <1>1, <1>2, <3>1, <3>2, <3>3 DEF Begins, Flagged
  <2>4. CASE Copy(u)
    <3> DEFINE n == IF bufSize < pktSize[frame] - ri THEN bufSize ELSE pktSize[frame] - ri
               part == [i \in 1 .. n |-> <<frame, ri + i>>]
    <3>1. /\ uploads[u] = "copy" /\ sent' = [sent EXCEPT ![u] = @ \o part]
      BY <2>4 DEF Copy, Upload
    <3>2. frame # NoFrame
      BY <1>2, <3>1 DEF Own
    <3>3. n \in Nat \ {0} /\ part \in Seq(Nat \X Nat) /\ Len(part) = n /\ part[1] = <<frame, ri + 1>>
      BY <1>2, <3>2, CopiedPart
    <3> HIDE DEF n, part
    <3>4. sent \in Seq(Seq(Nat \X Nat)) /\ Len(sent) = 1 /\ sent[1] \in Seq(Nat \X Nat)
      BY <1>2, ElementOfSeq DEF Ordered
    <3>5. sent'[1] = sent[1] \o part
      BY <1>2, <3>1, <3>4, LenProperties
    <3>6. CASE sent[1] = <<>>
      <4>1. sent'[1] = part
        BY <3>3, <3>5, <3>6, ConcatEmptySeq
      <4>2. sent'[1] # <<>> /\ sent'[1][1][1] = frame
        BY <3>3, <4>1, EmptySeq
      <4> QED BY <1>1, <1>2, <2>1, <3>2, <3>6, <4>2 DEF Begins, Flagged
    <3>7. CASE sent[1] # <<>>
      <4>1. 1 \in 1 .. Len(sent[1]) /\ Len(sent[1]) \in Nat \ {0}
        BY <3>4, <3>7, FirstOfSeq
      <4>2. Len(sent'[1]) = Len(sent[1]) + n /\ sent'[1][1] = sent[1][1]
        <5> PICK T, old, new, p : /\ T = Nat \X Nat /\ old = sent[1] /\ new = sent'[1] /\ p = part
          OBVIOUS
        <5>1. old \in Seq(T) /\ p \in Seq(T) /\ new = old \o p /\ Len(p) = n
          BY <3>3, <3>4, <3>5
        <5>2. Len(new) = Len(old) + Len(p) /\ \A i \in 1 .. Len(old) : new[i] = old[i]
          BY <5>1, Joined
        <5> QED BY <4>1, <5>1, <5>2
      <4>3. sent'[1] # <<>>
        BY <3>3, <4>1, <4>2, EmptySeq
      <4> QED BY <1>1, <1>2, <2>1, <3>7, <4>2, <4>3 DEF Begins, Flagged
    <3> QED BY <3>6, <3>7
  <2> QED BY <2>2, <2>3, <2>4 DEF Uploader
<1> QED BY <1>1, <1>2, <1>3, <1>4, <1>5, <1>6 DEF Single

\* The program starts, or the signal comes: with one trigger, before any upload.
LEMMA SingleSignals ==
  ASSUME QueueInv, Stage, Single, misuse = "no", Publish \/ Trigger
  PROVE  Single'
<1> SUFFICES ASSUME signalled' <= 1 PROVE Single'
  BY DEF Single
<1>1. UNCHANGED <<pullAt, pktSize, peeked, vBAs, befor, after, uploads, frame, sent, freed, leaked>>
  BY DEF Publish, Trigger, queues, reading
<1>2. Stored' = Stored /\ pktNo' = pktNo /\ (Begins' <=> Begins) /\ \A f : Flagged(f)' <=> Flagged(f)
  BY <1>1 DEF Stored, Held, pktNo, Begins, Flagged
<1>3. CASE Publish
  <2>1. UNCHANGED <<mBAStream_status, signalled, untimely, misuse>>
    BY <1>3 DEF Publish
  <2> QED BY <1>1, <1>2, <2>1 DEF Single
<1>4. CASE Trigger
  <2>1. signalled = 0 /\ signalled' = 1
    BY <1>4 DEF Trigger, Stage
  <2>2. /\ uploads = <<>> /\ mBAStream_status \notin {"GETI", "DUMP"}
        /\ pullAt \notin {"GETI?", "DUMP?", "peek", "flags", "dump", "spawn", "writeAfter"}
    BY <2>1 DEF Stage
  <2>3. ~vBAs => untimely' = "null"
    BY <1>4 DEF Trigger
  <2>4. misuse' # "no" => untimely' = "null"
    BY <1>4 DEF Trigger
  <2>5. untimely' = "no" => mBAStream_status' \in {"GETI", "DUMP"} /\ vBAs /\ pullAt # "circulate"
    <3>1. CASE ~vBAs \/ mainThread = "new"
      BY <1>4, <3>1 DEF Trigger
    <3>2. CASE vBAs /\ mainThread # "new"
      BY <1>4, <3>2 DEF Trigger
    <3> QED BY <3>1, <3>2
  <2> QED BY <1>1, <1>2, <2>1, <2>2, <2>3, <2>4, <2>5 DEF Single
<1> QED BY <1>3, <1>4

LEMMA SingleStep ==
  ASSUME PullAssumption, QueueInv, Stage, Single, Ordered, misuse = "no", CurrentNext
  PROVE  Single'
<1>1. CASE Pull
  BY <1>1, SingleLooks, SingleBegins, SingleWrites DEF Pull
<1>2. CASE Uploading
  BY <1>2, SingleUploads DEF Uploading
<1>3. CASE Publish \/ Trigger
  BY <1>3, SingleSignals
<1> QED BY <1>1, <1>2, <1>3 DEF CurrentNext

\* Taking the oldest frame, and adding the newest one, keep a queue in order.
LEMMA TailRises ==
  ASSUME NEW q \in Seq(Frames), q # <<>>, Rising(q)
  PROVE  Rising(Tail(q)) /\ \A f \in ToSet(Tail(q)) : f > Head(q)
<1>1. /\ Tail(q) \in Seq(Frames) /\ Len(Tail(q)) = Len(q) - 1 /\ Head(q) = q[1] /\ Len(q) \in Nat \ {0}
      /\ \A i \in 1 .. Len(Tail(q)) : Tail(q)[i] = q[i + 1]
  BY EmptySeq, LenProperties, HeadTailProperties
<1>2. \A i \in 1 .. Len(Tail(q)) : i + 1 \in 1 .. Len(q) /\ 1 < i + 1
  BY <1>1
<1>3. Rising(Tail(q))
  BY <1>1, <1>2 DEF Rising
<1>4. ASSUME NEW f \in ToSet(Tail(q)) PROVE f > Head(q)
  <2>1. PICK i \in 1 .. Len(Tail(q)) : f = Tail(q)[i]
    BY <1>1, LenProperties DEF ToSet
  <2>2. q[1] \in Frames /\ q[i + 1] \in Frames /\ q[1] < q[i + 1]
    BY <1>1, <1>2, ElementOfSeq DEF Rising
  <2> QED BY <1>1, <2>1, <2>2 DEF Frames
<1> QED BY <1>3, <1>4

LEMMA NewestRises ==
  ASSUME NEW q \in Seq(Frames), Rising(q), NEW p \in Frames, \A f \in ToSet(q) : f < p
  PROVE  Rising(Append(q, p))
<1>1. /\ Len(q) \in Nat /\ Len(Append(q, p)) = Len(q) + 1 /\ Append(q, p)[Len(q) + 1] = p
      /\ \A i \in 1 .. Len(q) : Append(q, p)[i] = q[i]
  BY LenProperties, AppendProperties
<1>2. \A i \in 1 .. Len(q) : q[i] < p
  BY LenProperties DEF ToSet
<1>3. \A i, j \in 1 .. Len(q) + 1 : i < j => i \in 1 .. Len(q) /\ (j \in 1 .. Len(q) \/ j = Len(q) + 1)
  BY <1>1
<1> QED BY <1>1, <1>2, <1>3 DEF Rising

\* No frame of befor is sent or changed by these steps.
LEMMA OrderedStays ==
  ASSUME Ordered, misuse' # "race", UNCHANGED <<pktSize, befor, sent, frame, ri, freed>>,
         Len(uploads') = Len(uploads), uploads' = <<>> <=> uploads = <<>>
  PROVE  Ordered'
<1>1. pktNo' = pktNo /\ \A a, b : Follows(a, b)' <=> Follows(a, b)
  BY DEF pktNo, Follows
<1>2. Reads' <=> Reads
  BY <1>1 DEF Reads
<1> QED BY <1>2 DEF Ordered, Rising

\* The sizes of the frames sent are known.
LEMMA OrderedReceive ==
  ASSUME PullAssumption, QueueInv, Ordered, misuse = "no", ReadPacket
  PROVE  Ordered'
<1>1. UNCHANGED <<befor, uploads, sent, frame, ri, freed, misuse>>
  BY DEF ReadPacket, queues, reading
<1>2. CASE pktSize' = pktSize
  BY <1>1, <1>2, OrderedStays
<1>3. CASE \E s \in Sizes : pktSize' = Append(pktSize, s)
  <2>1. pktNo \in Nat /\ pktNo' = pktNo + 1 /\ \A f \in 1 .. pktNo : pktSize'[f] = pktSize[f]
    BY <1>3, AppendProperties, LenProperties DEF QueueInv, Types, pktNo
  <2>2. frame # NoFrame => frame \in 1 .. pktNo
    BY DEF QueueInv, Own, Stored, Held
  <2>3. ASSUME Len(uploads) = 1 PROVE Reads'
    <3>1. Reads
      BY <2>3 DEF Ordered
    <3> PICK s : s = sent[1]
      OBVIOUS
    <3>2. s \in Seq((1 .. pktNo) \X Nat)
      BY <3>1 DEF Reads
    <3>3. s \in Seq((1 .. pktNo') \X Nat)
      <4> PICK T, U : T = (1 .. pktNo) \X Nat /\ U = (1 .. pktNo') \X Nat
        OBVIOUS
      <4>1. T \subseteq U /\ s \in Seq(T)
        BY <2>1, <3>2
      <4>2. Len(s) \in Nat /\ s \in [1 .. Len(s) -> T]
        BY <4>1, LenProperties
      <4>3. s \in [1 .. Len(s) -> U]
        BY <4>1, <4>2
      <4> QED BY <4>2, <4>3, SeqDef
    <3>4. Len(s) \in Nat /\ \A i \in 1 .. Len(s) : s[i] \in (1 .. pktNo) \X Nat /\ s[i][1] \in 1 .. pktNo
      BY <3>2, LenProperties, ElementOfSeq
    <3>5. \A i \in 2 .. Len(s) : i - 1 \in 1 .. Len(s) /\ (Follows(s[i - 1], s[i])' <=> Follows(s[i - 1], s[i]))
      <4> TAKE i \in 2 .. Len(s)
      <4>1. i - 1 \in 1 .. Len(s)
        BY <3>4
      <4>2. s[i - 1][1] \in 1 .. pktNo
        BY <3>4, <4>1
      <4>3. pktSize'[s[i - 1][1]] = pktSize[s[i - 1][1]]
        BY <2>1, <4>2
      <4> QED BY <4>1, <4>3 DEF Follows
    <3>6. s # <<>> => Len(s) \in 1 .. Len(s)
      BY <3>2, <3>4, EmptySeq
    <3> QED BY <1>1, <2>1, <2>2, <3>1, <3>3, <3>4, <3>5, <3>6 DEF Reads
  <2> QED BY <1>1, <2>1, <2>2, <2>3 DEF Ordered, Rising
<1> QED BY <1>2, <1>3 DEF ReadPacket

\* The newest frame comes last.
LEMMA OrderedWrite ==
  ASSUME QueueInv, Ordered, misuse = "no", WriteBefor
  PROVE  Ordered'
<1>1. /\ UNCHANGED <<pktSize, uploads, sent, frame, ri, misuse>> /\ queueBefor /\ pullAt = "writeBefor"
  BY DEF WriteBefor, PullAt, reading
<1>2. Own /\ Types /\ pktNo > 0 /\ pktNo \notin Stored /\ pktNo \in Nat /\ pktNo \in Frames
  BY <1>1, LenProperties DEF QueueInv, Own, Types, pktNo, Frames, NoFrame
<1>3. Stored \subseteq Nat /\ \A f \in Stored : f < pktNo
  BY <1>2 DEF Own
<1>4. PICK gone \in SUBSET ToSet(befor) :
        freed' = freed \cup gone /\ ToSet(befor') = (ToSet(befor) \ gone) \cup {pktNo}
  BY <1>1, <1>2, BeforQueued
<1>5. Rising(befor')
  <2>1. \A f \in ToSet(befor) : f < pktNo
    BY <1>3 DEF Stored, Held
  <2>2. CASE Len(befor) < queueMax
    BY <1>1, <1>2, <2>1, <2>2, NewestRises DEF queueBefor, Ordered, Types
  <2>3. CASE ~(Len(befor) < queueMax)
    <3>1. befor # <<>> /\ befor \in Seq(Frames) /\ Rising(befor) /\ IsInjective(befor)
      BY <1>2, <2>3, EmptySeq DEF Types, Own, Ordered
    <3>2. /\ Rising(Tail(befor)) /\ Tail(befor) \in Seq(Frames) /\ ToSet(Tail(befor)) \subseteq ToSet(befor)
      BY <3>1, TailRises, Behead
    <3> QED BY <1>1, <1>2, <2>1, <2>3, <3>2, NewestRises DEF queueBefor
  <2> QED BY <2>2, <2>3
<1>6. ASSUME Len(uploads) = 1 PROVE Reads'
  <2>1. Reads
    BY <1>6 DEF Ordered
  <2> PICK s : s = sent[1]
    OBVIOUS
  <2>2. \A a, b : Follows(a, b)' <=> Follows(a, b)
    BY <1>1 DEF Follows
  <2>3. s # <<>> => /\ s[Len(s)][1] \in freed \cup {frame} /\ s[Len(s)][1] \in 1 .. pktNo
                    /\ Len(s) \in 1 .. Len(s)
    <3>1. s \in Seq((1 .. pktNo) \X Nat)
      BY <2>1 DEF Reads
    <3>2. s # <<>> => s[Len(s)] \in (1 .. pktNo) \X Nat /\ Len(s) \in 1 .. Len(s)
      BY <3>1, FirstOfSeq
    <3> QED BY <2>1, <3>2 DEF Reads
  <2>4. s # <<>> => s[Len(s)][1] < pktNo
    BY <1>2, <1>3, <2>3 DEF Stored, Held, NoFrame
  <2>5. frame # NoFrame => frame < pktNo
    BY <1>3 DEF Stored, Held
  <2>6. pktNo' = pktNo
    BY <1>1 DEF pktNo
  <2> QED BY <1>1, <1>2, <1>4, <2>1, <2>2, <2>3, <2>4, <2>5, <2>6 DEF Reads
<1> QED BY <1>1, <1>5, <1>6 DEF Ordered

\* The BAStream is new, or a packet goes to after and may start an upload.
LEMMA OrderedAfter ==
  ASSUME QueueInv, Stage, Ordered, misuse = "no", NewBAStream \/ Spawn \/ WriteAfter
  PROVE  Ordered'
<1>1. /\ UNCHANGED <<pktSize, frame, ri, freed, misuse>>
      /\ befor' = befor \/ (befor' = <<>> /\ uploads' = <<>>)
  BY DEF NewBAStream, Spawn, WriteAfter, PullAt, Stage, reading
<1>2. Rising(befor')
  BY <1>1, EmptySeq DEF Ordered, Rising
<1>3. CASE UNCHANGED <<uploads, sent>>
  <2>1. CASE befor' = befor
    BY <1>1, <1>3, <2>1, OrderedStays
  <2>2. CASE uploads' = <<>>
    <3>1. Len(<<>>) = 0
      BY EmptySeq
    <3> QED BY <1>1, <1>2, <1>3, <2>2, <3>1 DEF Ordered
  <2> QED BY <1>1, <2>1, <2>2
<1>4. CASE Spawn
  <2>1. /\ uploads' = Append(uploads, "call") /\ sent' = Append(sent, <<>>) /\ befor' = befor
    BY <1>4 DEF Spawn
  <2>2. /\ uploads \in Seq({"call", "read", "copy", "done"}) /\ sent \in Seq(Seq(Nat \X Nat))
        /\ <<>> \in Seq(Nat \X Nat) /\ Len(sent) = Len(uploads)
    BY EmptySeq DEF QueueInv, Types, Ordered
  <2>3. Len(uploads') = Len(uploads) + 1 /\ Len(uploads) \in Nat /\ uploads' # <<>>
    <3>1. Len(uploads') = Len(uploads) + 1 /\ Len(uploads) \in Nat
      BY <2>1, <2>2, AppendProperties, LenProperties
    <3> QED BY <3>1, EmptySeq
  <2>4. sent' \in Seq(Seq(Nat \X Nat)) /\ Len(sent') = Len(sent) + 1 /\ sent'[Len(sent) + 1] = <<>>
    <3> PICK T : T = Seq(Nat \X Nat)
      OBVIOUS
    <3>1. sent \in Seq(T) /\ <<>> \in T
      BY <2>2
    <3> QED BY <2>1, <3>1, AppendProperties
  <2>5. ASSUME Len(uploads') = 1 PROVE Reads'
    <3>0. Len(uploads) = 0 /\ Len(sent) = Len(uploads)
      <4>1. Len(uploads) + 1 = 1 /\ Len(uploads) \in Nat
        BY <2>3, <2>5
      <4> QED BY <2>2, <4>1
    <3>1. uploads = <<>> /\ sent'[1] = <<>>
      BY <2>2, <2>4, <3>0, EmptySeq
    <3>2. frame' = NoFrame
      BY <1>1, <3>1 DEF Ordered
    <3>3. <<>> \in Seq((1 .. pktNo') \X Nat)
      BY EmptySeq
    <3> QED BY <3>1, <3>2, <3>3 DEF Reads
  <2> QED BY <1>1, <1>2, <2>2, <2>3, <2>4, <2>5 DEF Ordered
<1> QED BY <1>3, <1>4 DEF NewBAStream, WriteAfter, reading

\* The oldest frame is the next one that an only upload reads.
LEMMA OrderedReadOne ==
  ASSUME PullAssumption, QueueInv, Ordered, misuse = "no", NEW u \in DOMAIN uploads, ReadOne(u)
  PROVE  Ordered'
<1>1. /\ UNCHANGED <<pktSize, freed, sent, misuse>> /\ uploads[u] = "read"
      /\ befor # <<>> /\ frame' = Head(befor) /\ befor' = Tail(befor) /\ ri' = 0
  BY DEF ReadOne, Upload
<1>2. Own /\ Types /\ Rising(befor)
  BY DEF QueueInv, Own, Ordered
<1>3. frame = NoFrame
  BY <1>1, <1>2 DEF Own
<1>4. /\ Head(befor) \in ToSet(befor) /\ Head(befor) \in Frames
      /\ ToSet(Tail(befor)) = ToSet(befor) \ {Head(befor)}
  BY <1>1, <1>2, Behead DEF Own, Types
<1>5. Rising(befor') /\ \A f \in ToSet(befor') : f > frame'
  BY <1>1, <1>2, TailRises DEF Types
<1>6. 0 < pktSize[frame']
  <2>1. frame' \in 1 .. Len(pktSize) /\ pktSize \in Seq(Sizes)
    BY <1>1, <1>2, <1>4 DEF Own, Types, Stored, Held, pktNo, Frames
  <2>2. pktSize[frame'] \in Sizes
    BY <2>1, ElementOfSeq
  <2>3. \A n \in Sizes : n \in Nat \ {0}
    BY DEF PullAssumption
  <2>4. pktSize[frame'] \in Nat \ {0}
    BY <2>2, <2>3
  <2> QED BY <2>4
<1>7. Len(uploads') = Len(uploads) /\ uploads' # <<>>
  <2>1. \E to : uploads' = [uploads EXCEPT ![u] = to]
    BY DEF ReadOne, Upload
  <2>2. \A to : Len([uploads EXCEPT ![u] = to]) = Len(uploads)
    BY <1>2, LenProperties DEF Types
  <2>3. uploads # <<>> /\ Len(uploads) \in Nat \ {0}
    BY <1>2, UploadRuns
  <2> QED BY <2>1, <2>2, <2>3, EmptySeq
<1>8. ASSUME Len(uploads) = 1 PROVE Reads'
  <2>1. Reads
    BY <1>8 DEF Ordered
  <2> PICK s : s = sent[1]
    OBVIOUS
  <2>2. pktNo' = pktNo /\ \A a, b : Follows(a, b)' <=> Follows(a, b)
    BY <1>1 DEF Follows, pktNo
  <2>3. /\ s \in Seq((1 .. pktNo) \X Nat) /\ (s # <<>> => s[1][2] = 1)
        /\ \A i \in 2 .. Len(s) : Follows(s[i - 1], s[i])
    BY <2>1 DEF Reads
  <2>4. \A i \in 1 .. Len(s) : s[i][1] \in freed' \cup {frame'}
    <3> SUFFICES ASSUME NEW i \in 1 .. Len(s) PROVE s[i][1] \in freed
      BY <1>1
    <3>1. s[i] \in (1 .. pktNo) \X Nat
      BY <2>3, ElementOfSeq
    <3>2. s[i][1] \in freed \cup {frame}
      BY <2>1 DEF Reads
    <3>3. s[i][1] # NoFrame
      BY <3>1 DEF NoFrame
    <3> QED BY <1>3, <3>2, <3>3
  <2>5. s # <<>> => /\ s[Len(s)][2] = pktSize[s[Len(s)][1]] /\ frame' > s[Len(s)][1]
                    /\ \A f \in ToSet(befor') : f > s[Len(s)][1]
    BY <1>1, <1>3, <1>4, <2>1 DEF Reads
  <2> QED BY <1>1, <1>5, <2>2, <2>3, <2>4, <2>5 DEF Reads
<1> QED BY <1>1, <1>2, <1>3, <1>5, <1>6, <1>7, <1>8 DEF Ordered

\* What was copied follows what an only upload had, and ends with its frame if that is deleted.
LEMMA OrderedCopy ==
  ASSUME PullAssumption, QueueInv, Ordered, misuse = "no", NEW u \in DOMAIN uploads, Copy(u)
  PROVE  Ordered'
<1>0. PICK n, part : /\ n = IF bufSize < pktSize[frame] - ri THEN bufSize ELSE pktSize[frame] - ri
                     /\ part = [i \in 1 .. n |-> <<frame, ri + i>>]
  OBVIOUS
<1> DEFINE ctx == pktSize[frame] - ri
<1>1. /\ UNCHANGED <<pktSize, befor, misuse>> /\ uploads[u] = "copy"
      /\ sent' = [sent EXCEPT ![u] = @ \o part] /\ ri' = ri + n
      /\ uploads' = [uploads EXCEPT ![u] = "call"]
      /\ IF n = ctx THEN frame' = NoFrame /\ freed' = freed \cup {frame} ELSE UNCHANGED <<frame, freed>>
  BY <1>0 DEF Copy, Upload
<1>2. Own /\ Types /\ frame # NoFrame
  BY <1>1 DEF QueueInv, Own
<1>3. /\ frame \in 1 .. pktNo /\ pktSize[frame] \in Nat /\ ri \in Nat
      /\ n \in Nat \ {0} /\ ri + n <= pktSize[frame]
      /\ part \in Seq((1 .. pktNo) \X Nat) /\ part \in Seq(Nat \X Nat)
      /\ Len(part) = n
      /\ \A i \in 1 .. n : part[i] = <<frame, ri + i>>
  BY <1>0, <1>2, CopiedPart
<1>11. n \in Nat /\ n > 0 /\ n \in 1 .. n /\ 1 \in 1 .. n
  BY <1>3
<1>12. ri \in Nat /\ pktSize[frame] \in Nat /\ ri + n <= pktSize[frame]
  BY <1>3
<1>13. part \in Seq((1 .. pktNo) \X Nat) /\ part \in Seq(Nat \X Nat) /\ Len(part) = n
  BY <1>3
<1>4. (frame' # NoFrame => frame' = frame /\ n # ctx) /\ (frame' = NoFrame => n = ctx)
  BY <1>1, <1>2
<1>5. ctx \in Int /\ (n # ctx => ri + n < pktSize[frame]) /\ (n = ctx => ri + n = pktSize[frame])
  BY <1>11, <1>12
<1> HIDE DEF ctx
<1>6. Len(uploads') = Len(uploads) /\ uploads' # <<>>
  <2>1. Len([uploads EXCEPT ![u] = "call"]) = Len(uploads)
    BY <1>2, LenProperties DEF Types
  <2>2. uploads # <<>> /\ Len(uploads) \in Nat \ {0}
    BY <1>2, UploadRuns
  <2> QED BY <1>1, <2>1, <2>2, EmptySeq
<1>7. sent \in Seq(Seq(Nat \X Nat)) /\ Len(sent) = Len(uploads) /\ u \in 1 .. Len(sent)
  BY <1>2, LenProperties DEF Ordered, Types
<1>8. sent' \in Seq(Seq(Nat \X Nat)) /\ Len(sent') = Len(sent) /\ sent'[u] = sent[u] \o part
  <2> PICK T, S : T = Nat \X Nat /\ S = Seq(T)
    OBVIOUS
  <2>1. sent \in Seq(S) /\ sent[u] \in Seq(T) /\ part \in Seq(T)
    BY <1>7, <1>13, ElementOfSeq
  <2>2. sent[u] \o part \in S
    BY <2>1, ConcatProperties
  <2>3. sent' = [sent EXCEPT ![u] = sent[u] \o part]
    BY <1>1
  <2>4. sent' \in Seq(S) /\ Len(sent') = Len(sent) /\ sent'[u] = sent[u] \o part
    BY ONLY <1>7, <2>1, <2>2, <2>3, ExceptSeq
  <2> QED BY <2>4
<1>9. frame' # NoFrame => ri' < pktSize'[frame']
  BY <1>1, <1>4, <1>5
<1>10. ASSUME Len(uploads) = 1 PROVE Reads'
  <2>1. Reads /\ u = 1
    BY <1>2, <1>10, UploadRuns DEF Ordered
  <2> PICK T, old, new : T = (1 .. pktNo) \X Nat /\ old = sent[1] /\ new = sent'[1]
    OBVIOUS
  <2>2. old \in Seq(T) /\ part \in Seq(T) /\ new = old \o part
    BY <1>8, <1>13, <2>1 DEF Reads
  <2>20. /\ new \in Seq(T) /\ Len(old) \in Nat /\ Len(new) = Len(old) + Len(part)
         /\ \A i \in 1 .. Len(old) : new[i] = old[i]
         /\ \A i \in 1 .. Len(part) : new[Len(old) + i] = part[i]
    BY ONLY <2>2, Joined
  <2>3. Len(old) \in Nat /\ Len(new) = Len(old) + n
    BY <1>13, <2>20
  <2>21. \A i \in 1 .. Len(old) : new[i] = old[i]
    BY <2>20
  <2>22. \A i \in 1 .. n : new[Len(old) + i] = <<frame, ri + i>>
    BY <1>3, <2>20
  <2>4. new # <<>> /\ new[Len(new)] = <<frame, ri + n>>
    <3>1. Len(new) # 0
      BY <1>11, <2>3
    <3> QED BY <1>11, <2>3, <2>22, <3>1, EmptySeq
  <2>5. \A i \in 1 .. Len(new) : i \in 1 .. Len(old) \/ \E k \in 1 .. n : i = Len(old) + k
    <3> TAKE i \in 1 .. Len(new)
    <3>1. CASE i > Len(old)
      <4>1. i - Len(old) \in 1 .. n /\ i = Len(old) + (i - Len(old))
        BY <1>11, <2>3, <3>1
      <4> QED BY <4>1
    <3> QED BY <2>3, <3>1
  <2>6. old = <<>> <=> Len(old) = 0
    BY <2>2, EmptySeq
  <2>7. /\ old # <<>> => Len(old) \in 1 .. Len(old) /\ 1 \in 1 .. Len(old)
        /\ (old = <<>> => ri = 0)
    BY <1>2, <1>12, <2>1, <2>3, <2>6 DEF Reads
  <2>8. \A i \in 1 .. Len(new) : new[i][1] \in freed' \cup {frame'}
    <3>1. freed \cup {frame} \subseteq freed' \cup {frame'}
      BY <1>1
    <3>2. \A i \in 1 .. Len(old) : new[i][1] \in freed \cup {frame}
      BY <2>1, <2>21 DEF Reads
    <3>3. \A k \in 1 .. n : new[Len(old) + k][1] = frame
      <4> TAKE k \in 1 .. n
      <4>1. new[Len(old) + k] = <<frame, ri + k>>
        BY <2>22
      <4> QED BY <4>1
    <3> QED BY <2>5, <3>1, <3>2, <3>3
  <2>9. new[1][2] = 1
    <3>1. CASE old = <<>>
      <4>1. new[Len(old) + 1] = <<frame, ri + 1>> /\ Len(old) + 1 = 1 /\ ri + 1 = 1
        BY <1>11, <2>22, <2>6, <2>7, <3>1
      <4> QED BY <4>1
    <3>2. CASE old # <<>>
      BY <2>1, <2>21, <2>7, <3>2 DEF Reads
    <3> QED BY <3>1, <3>2
  <2>10. ASSUME NEW i \in 2 .. Len(new) PROVE Follows(new[i - 1], new[i])
    <3>1. CASE i \in 1 .. Len(old)
      <4>1. i \in 2 .. Len(old) /\ i - 1 \in 1 .. Len(old)
        BY <2>3, <3>1
      <4> QED BY <2>1, <2>21, <3>1, <4>1 DEF Reads
    <3>2. CASE \E k \in 1 .. n : i = Len(old) + k
      <4> PICK k \in 1 .. n : i = Len(old) + k
        BY <3>2
      <4>1. new[i] = <<frame, ri + k>> /\ k \in Nat /\ k <= n
        <5>1. new[Len(old) + k] = <<frame, ri + k>>
          BY <2>22
        <5>2. k \in Nat /\ k <= n
          BY <1>11
        <5> QED BY <5>1, <5>2
      <4>2. CASE k = 1
        <5>1. i - 1 = Len(old) /\ old # <<>>
          BY <2>3, <2>6, <4>2
        <5>2. new[i - 1] = old[Len(old)]
          BY <2>21, <2>7, <5>1
        <5>3. CASE ri > 0
          <6>1. old[Len(old)] = <<frame, ri>>
            BY <1>2, <2>1, <5>3 DEF Reads
          <6>2. ri # pktSize[frame]
            BY <1>11, <1>12
          <6> QED BY <4>1, <4>2, <5>2, <6>1, <6>2 DEF Follows
        <5>4. CASE ~(ri > 0)
          <6>1. ri = 0 /\ new[i] = <<frame, 1>>
            BY <1>12, <4>1, <4>2, <5>4
          <6>2. old[Len(old)][2] = pktSize[old[Len(old)][1]] /\ frame > old[Len(old)][1]
            BY <1>2, <2>1, <5>1, <5>4 DEF Reads
          <6> QED BY <5>2, <6>1, <6>2 DEF Follows
        <5> QED BY <5>3, <5>4
      <4>3. CASE k # 1
        <5>1. k - 1 \in 1 .. n /\ i - 1 = Len(old) + (k - 1) /\ ri + (k - 1) # pktSize[frame]
              /\ (ri + (k - 1)) + 1 = ri + k
          <6>1. k - 1 \in 1 .. n /\ i - 1 = Len(old) + (k - 1)
            BY <1>11, <2>3, <4>1, <4>3
          <6>2. k <= n /\ k \in Nat
            BY <4>1
          <6>5. ri \in Nat /\ n \in Nat
            BY <1>11, <1>12
          <6>3. ri + (k - 1) < ri + n /\ (ri + (k - 1)) + 1 = ri + k
            BY <6>2, <6>5
          <6>4. ri + (k - 1) # pktSize[frame]
            <7> DEFINE a == ri + (k - 1)
                       c == ri + n
                       d == pktSize[frame]
            <7>1. a < c /\ c <= d /\ a \in Int /\ c \in Int /\ d \in Int
              BY <1>11, <1>12, <6>2, <6>3
            <7> HIDE DEF a, c, d
            <7>2. a # d
              BY <7>1
            <7> QED BY <7>2 DEF a, d
          <6> QED BY <6>1, <6>3, <6>4
        <5>2. new[i - 1] = <<frame, ri + (k - 1)>>
          BY <2>22, <5>1
        <5> QED BY <4>1, <5>1, <5>2 DEF Follows
      <4> QED BY <4>2, <4>3
    <3>3. i \in 1 .. Len(new)
      BY <2>3
    <3> QED BY <2>5, <3>1, <3>2, <3>3
  <2>11. pktNo' = pktNo /\ \A a, b : Follows(a, b)' <=> Follows(a, b)
    BY <1>1 DEF Follows, pktNo
  <2>12. frame' # NoFrame => /\ ri' > 0 /\ \A f \in ToSet(befor) : f > frame'
                             /\ new[Len(new)] = <<frame', ri'>>
    <3> SUFFICES ASSUME frame' # NoFrame
                 PROVE  ri' > 0 /\ (\A f \in ToSet(befor) : f > frame') /\ new[Len(new)] = <<frame', ri'>>
      OBVIOUS
    <3>1. frame' = frame /\ ri' = ri + n
      BY <1>1, <1>4
    <3>2. ri' > 0
      BY <1>11, <1>12, <3>1
    <3> QED BY <1>2, <2>1, <2>4, <3>1, <3>2 DEF Reads
  <2>13. frame' = NoFrame => /\ new[Len(new)][2] = pktSize[new[Len(new)][1]]
                             /\ \A f \in ToSet(befor) : f > new[Len(new)][1]
    BY <1>2, <1>4, <1>5, <2>1, <2>4 DEF Reads
  <2>14. pktNo' = pktNo /\ new \in Seq((1 .. pktNo) \X Nat) /\ befor' = befor
    BY <1>1, <2>20, <2>11
  <2> QED BY <2>14, <1>1, <2>4, <2>8, <2>9, <2>10, <2>11, <2>12, <2>13 DEF Reads
<1> QED BY <1>1, <1>2, <1>3, <1>6, <1>7, <1>8, <1>9, <1>10 DEF Ordered, Rising

LEMMA OrderedStep ==
  ASSUME PullAssumption, QueueInv, Stage, Ordered, misuse = "no", CurrentNext
  PROVE  Ordered'
<1>1. CASE OpenInput \/ Tests \/ ToCycle \/ Peek \/ Flags \/ ToDump \/ Publish \/ Trigger
  <2>1. UNCHANGED <<pktSize, befor, uploads, sent, frame, ri, freed>> /\ misuse' # "race"
    BY <1>1 DEF OpenInput, Tests, TestStatus, ToCycle, Peek, Flags, ToDump, Publish, Trigger, queues, reading, signals
  <2> QED BY <2>1, OrderedStays
<1>2. ASSUME NEW u \in DOMAIN uploads, EnterReadBuf(u) \/ Finish(u) PROVE Ordered'
  <2>1. UNCHANGED <<pktSize, befor, sent, frame, ri, freed>>
    BY <1>2 DEF EnterReadBuf, Finish, queues
  <2>2. Types /\ uploads # <<>> /\ Len(uploads) \in Nat \ {0} /\ (Len(uploads) = 1 => u = 1)
    BY UploadRuns DEF QueueInv
  <2>3. Len(uploads') = Len(uploads) /\ uploads' # <<>>
    <3>1. \E to : uploads' = [uploads EXCEPT ![u] = to]
      BY <1>2 DEF EnterReadBuf, Finish, Upload
    <3>2. \A to : Len([uploads EXCEPT ![u] = to]) = Len(uploads)
      BY <2>2, LenProperties DEF Types
    <3> QED BY <2>2, <3>1, <3>2, EmptySeq
  <2>4. CASE misuse' # "race"
    BY <2>1, <2>2, <2>3, <2>4, OrderedStays
  <2>5. CASE misuse' = "race"
    <3>1. EnterReadBuf(u) /\ uploads[u] = "call" /\ \E v \in DOMAIN uploads : Inside(v)
      BY <1>2, <2>5 DEF EnterReadBuf, Finish, Upload
    <3>2. Len(uploads) # 1
      <4>1. Len(uploads) = 1 => DOMAIN uploads = {1}
        BY <2>2, LenProperties DEF Types
      <4> QED BY <2>2, <3>1, <4>1 DEF Inside
    <3>3. ~(Len(uploads') <= 1)
      BY <2>2, <2>3, <3>2
    <3> QED BY <2>1, <2>2, <2>3, <3>3 DEF Ordered, Rising
  <2> QED BY <2>4, <2>5
<1>3. CASE Pull
  BY <1>1, <1>3, OrderedReceive, OrderedWrite, OrderedAfter DEF Pull
<1>4. CASE Uploading
  BY <1>2, <1>4, OrderedReadOne, OrderedCopy DEF Uploading, Uploader
<1> QED BY <1>1, <1>3, <1>4 DEF CurrentNext

\* The three hold together with the ownership of the frames.
LEMMA AlwaysOrdered == PullAssumption => (CurrentSpec => [](QueueInv /\ Stage /\ Single /\ Ordered))
<1> SUFFICES ASSUME PullAssumption PROVE CurrentSpec => [](QueueInv /\ Stage /\ Single /\ Ordered)
  OBVIOUS
<1>1. CurrentInit => Stage /\ Single /\ Ordered
  <2> SUFFICES ASSUME CurrentInit PROVE Stage /\ Single /\ Ordered
    OBVIOUS
  <2>1. ToSet(<<>>) = {} /\ Len(<<>>) = 0 /\ <<>> \in Seq(Seq(Nat \X Nat))
    BY EmptySeq DEF ToSet
  <2>2. Stage
    BY DEF CurrentInit, Stage, Statuses
  <2>3. Single
    <3>1. pktNo = 0 /\ Stored = {}
      BY <2>1 DEF CurrentInit, Stored, Held, pktNo, NoFrame
    <3> QED BY <3>1 DEF CurrentInit, Single
  <2>4. Ordered
    BY <2>1 DEF CurrentInit, Ordered, Rising
  <2> QED BY <2>2, <2>3, <2>4
<1>2. QueueInv /\ Stage /\ Single /\ Ordered /\ [CurrentNext]_currentVars => (Stage /\ Single /\ Ordered)'
  <2> SUFFICES ASSUME QueueInv, Stage, Single, Ordered, [CurrentNext]_currentVars PROVE (Stage /\ Single /\ Ordered)'
    OBVIOUS
  <2>1. CASE UNCHANGED currentVars
    <3>1. UNCHANGED <<mBAStream_status, pullAt, pktSize, vBAs, befor, after, peeked, uploads, frame, ri, sent, freed,
                      leaked, signalled, untimely, misuse>>
      BY <2>1 DEF currentVars, queues, reading, signals
    <3>2. Stored' = Stored /\ pktNo' = pktNo /\ (Begins' <=> Begins) /\ (Reads' <=> Reads)
          /\ \A f : Flagged(f)' <=> Flagged(f)
      BY <3>1 DEF Stored, Held, pktNo, Begins, Flagged, Reads, Follows
    <3> QED BY <3>1, <3>2 DEF Stage, Single, Ordered, Rising
  <2>2. CASE CurrentNext
    BY <2>2, StageStep, SingleStep, OrderedStep DEF CurrentNext
  <2> QED BY <2>1, <2>2
<1> QED BY <1>1, <1>2, QueueInductive, PTL DEF CurrentSpec

\* One trigger that comes after the start breaks nothing and is not lost; no packet falls
\* between the queues; and what an only upload sends is whole frames in the order of the
\* stream, the first of them flagged.
THEOREM TimelyUpload == PullAssumption => (CurrentSpec => []UploadInOrder)
<1>1. QueueInv /\ Stage /\ Single /\ Ordered => UploadInOrder
  <2> SUFFICES ASSUME QueueInv, Stage, Single, Ordered PROVE UploadInOrder
    OBVIOUS
  <2>1. signalled \in Nat
    BY DEF Stage
  <2>2. SingleTriggerSafe
    BY <2>1 DEF SingleTriggerSafe, Single
  <2>3. TriggerKept
    BY DEF TriggerKept, Single
  <2>4. EveryPacketStored
    BY DEF EveryPacketStored, Single, Stored
  <2>5. WholeFrames
    <3> SUFFICES ASSUME Len(uploads) = 1, NEW i \in 1 .. Len(sent[1])
                 PROVE  IF i = 1 THEN sent[1][i][2] = 1 ELSE Follows(sent[1][i - 1], sent[1][i])
      BY DEF WholeFrames, Follows
    <3>1. Reads /\ sent[1] \in Seq((1 .. pktNo) \X Nat)
      BY DEF Ordered, Reads
    <3>2. Len(sent[1]) \in Nat /\ sent[1] # <<>> /\ (i # 1 => i \in 2 .. Len(sent[1]))
      BY <3>1, LenProperties, EmptySeq
    <3> QED BY <3>1, <3>2 DEF Reads
  <2>6. StartsFlagged
    BY DEF StartsFlagged, Single, Begins
  <2> QED BY <2>2, <2>3, <2>4, <2>5, <2>6 DEF UploadInOrder
<1> QED BY <1>1, AlwaysOrdered, PTL
=============================================================================
