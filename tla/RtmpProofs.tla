----------------------------- MODULE RtmpProofs -----------------------------
(***************************************************************************)
(* rtmpServer, for any number of connections, frames, channels, messages   *)
(* and portions: first the poll loop, its two vectors and the stream that  *)
(* it forwards, then the chunk parser, which finds in a stream of bytes    *)
(* what the peer put into it.                                              *)
(***************************************************************************)
EXTENDS RtmpServer, ListLemmas, TLAPS

\* The two vectors are parallel, list each open connection once and start with the
\* listening socket, for which nothing is ever queued.
Parallel ==
  /\ clients \in Seq(Conns \cup {NULL}) /\ IsInjective(clients)
  /\ revents \in Seq(SUBSET {"in", "out"}) /\ Len(revents) = Len(clients)
  /\ Len(clients) > 0 /\ clients[1] = NULL /\ "out" \notin revents[1]
  /\ peer \in [Conns -> {"none", "up", "gone", "closed"}]

\* A client that poll() reported and that was not served is at or behind the index
\* of the loop, with its events, so the loop does not end before it.
Waits(c) == pc # "poll" /\ \E j \in i .. Len(clients) : clients[j] = c /\ revents[j] # {}

IInv ==
  /\ Parallel
  /\ pc \in {"poll", "scan", "handshake", "killed"} /\ i \in 1 .. Len(clients)
  /\ due \subseteq Conns /\ \A c \in due : Waits(c)
  /\ ClientsAreOpen

\* The connection at an entry of the vector, and the members of the vector.
LEMMA Entries ==
  ASSUME IInv
  PROVE  /\ Len(clients) \in Nat \ {0} /\ DOMAIN clients = 1 .. Len(clients)
         /\ \A j \in 1 .. Len(clients) : clients[j] \in Conns \cup {NULL} /\ (clients[j] = NULL <=> j = 1)
         /\ \A c : c \in Listed <=> c \in Conns /\ \E j \in 1 .. Len(clients) : clients[j] = c
<1>1. Len(clients) \in Nat \ {0} /\ DOMAIN clients = 1 .. Len(clients)
  BY LenProperties DEF IInv, Parallel
<1>2. \A j \in 1 .. Len(clients) : clients[j] \in Conns \cup {NULL}
  BY <1>1, ElementOfSeq DEF IInv, Parallel
<1>3. \A j \in 1 .. Len(clients) : clients[j] = NULL <=> j = 1
  BY <1>1 DEF IInv, Parallel, IsInjective
<1>4. \A c : c \in Listed <=> c \in Conns /\ \E j \in 1 .. Len(clients) : clients[j] = c
  BY <1>1, <1>2, RtmpAssumption DEF Listed, ToSet
<1> QED BY <1>1, <1>2, <1>3, <1>4

\* The loop goes on at an entry with an event, and past none.
LEMMA LoopGoesOn ==
  ASSUME NEW j \in Nat \ {0}, Len(clients') \in Nat \ {0}, GoOn(j),
         \A c \in due' : \E k \in j .. Len(clients') : clients'[k] = c /\ revents'[k] # {}
  PROVE  /\ pc' \in {"poll", "scan"} /\ i' \in 1 .. Len(clients')
         /\ \A c \in due' : Waits(c)'
<1> DEFINE next == {k \in j .. Len(clients') : revents'[k] # {}}
<1>1. CASE next = {} /\ pc' = "poll" /\ i' = 1
  BY <1>1 DEF Waits
<1>2. CASE pc' = "scan" /\ \E k \in next : i' = k /\ \A m \in next : k <= m
  BY <1>2 DEF Waits
<1> QED BY <1>1, <1>2 DEF GoOn

\* The entry at the index is served, and stays.
LEMMA ServedKeeps ==
  ASSUME IInv, client # NULL \/ pc = "handshake",
         clients' = clients, revents' = [revents EXCEPT ![i] = {}], Advance,
         peer' = peer, publisher' \in {publisher, client}, client = NULL => publisher' = publisher
  PROVE  IInv'
<1>1. /\ Len(clients) \in Nat \ {0} /\ i \in 1 .. Len(clients)
      /\ \A j \in 1 .. Len(revents) : revents'[j] = IF j = i THEN {} ELSE revents[j]
  BY Entries, ElementOfSeq, LenProperties DEF IInv, Parallel
<1>2. Parallel'
  <2>1. revents' \in Seq(SUBSET {"in", "out"}) /\ Len(revents') = Len(revents)
    BY <1>1, ExceptSeq DEF IInv, Parallel
  <2> QED BY <1>1, <2>1 DEF IInv, Parallel
<1>3. \A c \in due' : \E k \in i + 1 .. Len(clients') : clients'[k] = c /\ revents'[k] # {}
  <2> SUFFICES ASSUME NEW c \in due' PROVE \E k \in i + 1 .. Len(clients) : clients[k] = c /\ revents'[k] # {}
    OBVIOUS
  <2>1. c \in due /\ c # client
    BY DEF Advance
  <2>2. PICK k \in i .. Len(clients) : clients[k] = c /\ revents[k] # {}
    BY <2>1 DEF IInv, Waits
  <2>3. k # i
    BY <2>1, <2>2 DEF client
  <2> QED BY <1>1, <2>2, <2>3 DEF IInv, Parallel
<1>4. /\ pc' \in {"poll", "scan"} /\ i' \in 1 .. Len(clients')
      /\ \A c \in due' : Waits(c)'
  <2>1. i + 1 \in Nat \ {0} /\ Len(clients') \in Nat \ {0} /\ GoOn(i + 1)
    BY <1>1 DEF Advance
  <2> QED BY <1>3, <2>1, LoopGoesOn
<1>5. ClientsAreOpen'
  <2>1. client # NULL => client \in Listed
    BY <1>1, Entries DEF client
  <2>2. Listed' = Listed
    BY DEF Listed
  <2> QED BY <2>1, <2>2 DEF IInv, ClientsAreOpen
<1> QED BY <1>2, <1>4, <1>5 DEF IInv, Advance

\* close_client: the entry is erased from both vectors, and those behind it move up to
\* the index at which the loop goes on.
LEMMA CloseKeeps ==
  ASSUME IInv, client # NULL, NEW queued, CloseClient(queued)
  PROVE  IInv'
<1>1. /\ Len(clients) \in Nat /\ i \in 2 .. Len(clients) /\ i \in 1 .. Len(clients)
      /\ i \in 1 .. Len(revents) /\ client \in Conns
  BY Entries DEF IInv, Parallel, client
<1>0. clients' = RemoveAt(clients, i) /\ revents' = RemoveAt(revents, i) /\ GoOn(i)
  BY DEF CloseClient
<1>2. /\ clients' \in Seq(Conns \cup {NULL}) /\ Len(clients') = Len(clients) - 1
      /\ \A j \in 1 .. Len(clients) - 1 : clients'[j] = IF j < i THEN clients[j] ELSE clients[j + 1]
  <2> clients \in Seq(Conns \cup {NULL})
    BY DEF IInv, Parallel
  <2> QED BY <1>0, <1>1, Erased
<1>3. /\ revents' \in Seq(SUBSET {"in", "out"}) /\ Len(revents') = Len(clients) - 1
      /\ \A j \in 1 .. Len(clients) - 1 : revents'[j] = IF j < i THEN revents[j] ELSE revents[j + 1]
  <2>1. /\ revents' \in Seq(SUBSET {"in", "out"}) /\ Len(revents') = Len(revents) - 1
        /\ \A j \in 1 .. Len(revents) - 1 : revents'[j] = IF j < i THEN revents[j] ELSE revents[j + 1]
    <3> revents \in Seq(SUBSET {"in", "out"})
      BY DEF IInv, Parallel
    <3> QED BY <1>0, <1>1, Erased
  <2> QED BY <2>1 DEF IInv, Parallel
<1>4. IsInjective(clients') /\ ToSet(clients') = ToSet(clients) \ {client}
  BY <1>1, Erase DEF IInv, Parallel, CloseClient, client
<1>5. peer' = [peer EXCEPT ![client] = "closed"]
  BY DEF CloseClient
<1>6. Parallel'
  <2>1. clients'[1] = clients[1] /\ revents'[1] = revents[1]
    BY <1>1, <1>2, <1>3
  <2>2. peer' \in [Conns -> {"none", "up", "gone", "closed"}]
    BY <1>5 DEF IInv, Parallel
  <2> QED BY <1>1, <1>2, <1>3, <1>4, <2>1, <2>2 DEF IInv, Parallel
<1>7. \A c \in due' : \E k \in i .. Len(clients') : clients'[k] = c /\ revents'[k] # {}
  <2> SUFFICES ASSUME NEW c \in due' PROVE \E k \in i .. Len(clients) - 1 : clients'[k] = c /\ revents'[k] # {}
    BY <1>2
  <2>1. c \in due /\ c # client
    BY DEF CloseClient
  <2>2. PICK k \in i .. Len(clients) : clients[k] = c /\ revents[k] # {}
    BY <2>1 DEF IInv, Waits
  <2>3. k # i
    BY <2>1, <2>2 DEF client
  <2>4. k - 1 \in i .. Len(clients) - 1 /\ (k - 1) + 1 = k
    BY <1>1, <2>2, <2>3
  <2>5. clients'[k - 1] = clients[k] /\ revents'[k - 1] = revents[k]
    BY <1>1, <1>2, <1>3, <2>4
  <2> QED BY <2>2, <2>4, <2>5
<1>8. /\ pc' \in {"poll", "scan"} /\ i' \in 1 .. Len(clients')
      /\ \A c \in due' : Waits(c)'
  <2>1. i \in Nat \ {0} /\ Len(clients') \in Nat \ {0} /\ GoOn(i)
    BY <1>0, <1>1, <1>2
  <2> QED BY <1>7, <2>1, LoopGoesOn
<1>9. ClientsAreOpen'
  <2>1. Listed' = Listed \ {client}
    BY <1>4 DEF Listed
  <2>2. \A c \in Conns : peer'[c] = IF c = client THEN "closed" ELSE peer[c]
    BY <1>1, <1>5 DEF IInv, Parallel
  <2>3. publisher' = NULL \/ (client # publisher /\ publisher' = publisher)
    BY DEF CloseClient, StreamEnds
  <2> QED BY <2>1, <2>2, <2>3 DEF IInv, ClientsAreOpen
<1> QED BY <1>6, <1>8, <1>9 DEF IInv, CloseClient

\* SIGPIPE: nothing is left.
LEMMA KilledKeeps == ASSUME IInv, Killed PROVE IInv'
<1>1. /\ <<NULL>> \in Seq(Conns \cup {NULL}) /\ <<{}>> \in Seq(SUBSET {"in", "out"})
      /\ IsInjective(<<NULL>>) /\ ToSet(<<NULL>>) = {NULL}
  BY DEF IsInjective, ToSet
<1>2. Parallel'
  BY <1>1 DEF Killed, Parallel
<1>3. ClientsAreOpen'
  BY <1>1 DEF Killed, StreamEnds, ClientsAreOpen, Listed
<1> QED BY <1>2, <1>3 DEF Killed, IInv

\* A send to a viewer fails while the message of another client is handled.
LEMMA SendFailsKeeps ==
  ASSUME IInv, client # NULL, NEW rs, SendFails(rs)
  PROVE  IInv'
  BY CloseKeeps, KilledKeeps DEF SendFails

\* The new table holds what poll() reported, the loop starts at its front.
LEMMA PollKeeps == ASSUME IInv, Poll PROVE IInv'
<1> DEFINE Idx  == 2 .. Len(clients)
           must == {j \in Idx : peer[clients[j]] = "gone"}
           may  == {j \in Idx : peer[clients[j]] = "up"} \cup {j \in {1} : \E c \in Conns : peer[c] = "none"}
           full == {j \in Idx : pending[clients[j]]}
<1>1. PICK more \in SUBSET may, writable \in SUBSET full :
        /\ revents' = [j \in 1 .. Len(clients) |->
                         (IF j \in must \cup more THEN {"in"} ELSE {}) \cup (IF j \in writable THEN {"out"} ELSE {})]
        /\ due' = {clients[j] : j \in ((must \cup more) \cup writable) \ {1}}
  BY DEF Poll
<1>2. clients' = clients /\ peer' = peer /\ publisher' = publisher /\ GoOn(1)
  BY DEF Poll, stream
<1>3. must \subseteq Idx /\ more \subseteq Idx \cup {1} /\ writable \subseteq Idx /\ Len(clients) \in Nat \ {0}
  BY Entries
<1> HIDE DEF must, may, full
<1>9. \A j \in 1 .. Len(clients) :
        revents'[j] = (IF j \in must \cup more THEN {"in"} ELSE {}) \cup (IF j \in writable THEN {"out"} ELSE {})
  BY <1>1
<1>10. \A j \in 1 .. Len(clients) : revents'[j] \in SUBSET {"in", "out"}
  <2> SUFFICES ASSUME NEW j \in 1 .. Len(clients) PROVE revents'[j] \in SUBSET {"in", "out"}
    OBVIOUS
  <2> QED BY <1>9
<1>11. \A j \in 1 .. Len(clients) : "out" \in revents'[j] => j \in writable
  <2> SUFFICES ASSUME NEW j \in 1 .. Len(clients), j \notin writable PROVE "out" \notin revents'[j]
    OBVIOUS
  <2> QED BY <1>9
<1>12. \A j \in 1 .. Len(clients) : j \in (must \cup more) \cup writable => revents'[j] # {}
  <2> SUFFICES ASSUME NEW j \in 1 .. Len(clients), j \in (must \cup more) \cup writable PROVE revents'[j] # {}
    OBVIOUS
  <2> QED BY <1>9
<1>13. revents' \in [1 .. Len(clients) -> SUBSET {"in", "out"}]
  <2> DEFINE r == revents'
  <2>1. r = [j \in 1 .. Len(clients) |-> r[j]]
    BY <1>1
  <2>2. \A j \in 1 .. Len(clients) : r[j] \in SUBSET {"in", "out"}
    BY <1>10
  <2> HIDE DEF r
  <2>3. r \in [1 .. Len(clients) -> SUBSET {"in", "out"}]
    BY <2>1, <2>2
  <2> QED BY <2>3 DEF r
<1>4. Parallel'
  <2>1. /\ revents' \in [1 .. Len(clients) -> SUBSET {"in", "out"}]
        /\ "out" \notin revents'[1]
    <3> 1 \in 1 .. Len(clients) /\ 1 \notin writable
      BY <1>3
    <3> QED BY <1>11, <1>13
  <2>2. revents' \in Seq(SUBSET {"in", "out"}) /\ Len(revents') = Len(clients)
    <3>1. \A s \in [1 .. Len(clients) -> SUBSET {"in", "out"}] :
            s \in Seq(SUBSET {"in", "out"}) /\ Len(s) = Len(clients)
      BY <1>3
    <3> QED BY <2>1, <3>1
  <2> QED BY <1>2, <1>3, <2>1, <2>2 DEF IInv, Parallel
<1>5. due' \subseteq Conns
  BY <1>1, <1>3, Entries
<1>6. \A c \in due' : \E k \in 1 .. Len(clients') : clients'[k] = c /\ revents'[k] # {}
  <2> SUFFICES ASSUME NEW c \in due' PROVE \E k \in 1 .. Len(clients) : clients[k] = c /\ revents'[k] # {}
    BY <1>2
  <2>1. PICK k \in ((must \cup more) \cup writable) \ {1} : clients[k] = c
    BY <1>1
  <2>2. k \in 1 .. Len(clients) /\ revents'[k] # {}
    <3>1. k \in 1 .. Len(clients)
      BY <1>3
    <3> QED BY <1>12, <3>1
  <2> QED BY <2>1, <2>2
<1>7. /\ pc' \in {"poll", "scan"} /\ i' \in 1 .. Len(clients')
      /\ \A c \in due' : Waits(c)'
  <2>1. 1 \in Nat \ {0} /\ Len(clients') \in Nat \ {0}
    BY <1>2, <1>3
  <2> QED BY <1>2, <1>6, <2>1, LoopGoesOn
<1>8. ClientsAreOpen'
  BY <1>2 DEF IInv, ClientsAreOpen, Listed
<1> QED BY <1>4, <1>5, <1>7, <1>8 DEF IInv

\* What was queued goes out; the entry may have to be read as well.
LEMMA TrySendKeeps == ASSUME IInv, TrySend PROVE IInv'
<1>1. client # NULL
  BY Entries DEF TrySend, IInv, Parallel, client
<1>2. CASE SendFails(<<client>>)
  BY <1>1, <1>2, SendFailsKeeps
<1>3. CASE /\ revents' = [revents EXCEPT ![i] = @ \ {"out"}] /\ clients' = clients
           /\ "in" \in revents[i] /\ UNCHANGED <<pc, i, due>> /\ UNCHANGED <<stream, peer>>
  <2>1. i \in 1 .. Len(revents) /\ revents[i] \in SUBSET {"in", "out"} /\ Len(revents) \in Nat
    BY ElementOfSeq, LenProperties DEF IInv, Parallel
  <2>2. \A j \in 1 .. Len(revents) : revents'[j] = IF j = i THEN revents[i] \ {"out"} ELSE revents[j]
    BY <1>3, <2>1, LenProperties DEF IInv, Parallel
  <2>3. revents' \in Seq(SUBSET {"in", "out"}) /\ Len(revents') = Len(revents)
    <3> DEFINE e == revents[i] \ {"out"}
    <3>1. e \in SUBSET {"in", "out"} /\ revents' = [revents EXCEPT ![i] = e]
      BY <1>3, <2>1
    <3> HIDE DEF e
    <3> QED BY <2>1, <3>1, ExceptSeq DEF IInv, Parallel
  <2>4. Parallel'
    BY <1>3, <2>1, <2>2, <2>3 DEF IInv, Parallel
  <2>5. \A c \in due' : Waits(c)'
    <3> SUFFICES ASSUME NEW c \in due PROVE Waits(c)'
      BY <1>3
    <3>1. PICK j \in i .. Len(clients) : clients[j] = c /\ revents[j] # {}
      BY DEF IInv, Waits
    <3>2. revents'[j] # {}
      BY <1>3, <2>1, <2>2, <3>1 DEF IInv, Parallel
    <3>3. pc # "poll"
      BY DEF IInv, Waits
    <3> QED BY <1>3, <3>1, <3>2, <3>3 DEF Waits
  <2>6. ClientsAreOpen'
    BY <1>3 DEF IInv, ClientsAreOpen, Listed, stream
  <2> QED BY <1>3, <2>4, <2>5, <2>6 DEF IInv
<1>4. CASE /\ revents' = [revents EXCEPT ![i] = @ \ {"out"}] /\ clients' = clients
           /\ "in" \notin revents[i] /\ Advance /\ UNCHANGED <<stream, peer>>
  <2>1. i \in 1 .. Len(revents) /\ revents[i] \in SUBSET {"in", "out"}
    BY ElementOfSeq DEF IInv, Parallel
  <2>2. revents[i] \ {"out"} = {}
    BY <1>4, <2>1
  <2> QED BY <1>1, <1>4, <2>2, ServedKeeps DEF stream
<1> QED BY <1>2, <1>3, <1>4 DEF TrySend

\* accept: nobody is due at the entry of the listening socket.
LEMMA AcceptKeeps == ASSUME IInv, Accept PROVE IInv'
<1>1. /\ i = 1 /\ clients' = clients /\ peer' = peer /\ publisher' = publisher /\ pc' = "handshake"
      /\ i' = i /\ due' = due /\ revents' = [revents EXCEPT ![1] = {}]
  BY Entries DEF Accept, stream, IInv, client
<1>2. /\ Len(revents) \in Nat \ {0} /\ revents' \in Seq(SUBSET {"in", "out"}) /\ Len(revents') = Len(revents)
      /\ \A j \in 1 .. Len(revents) : revents'[j] = IF j = 1 THEN {} ELSE revents[j]
  BY <1>1, Entries, LenProperties, ExceptSeq DEF IInv, Parallel
<1>3. \A c \in due' : Waits(c)'
  <2> SUFFICES ASSUME NEW c \in due PROVE Waits(c)'
    BY <1>1
  <2>1. PICK j \in i .. Len(clients) : clients[j] = c /\ revents[j] # {}
    BY DEF IInv, Waits
  <2>2. j # 1
    BY <2>1, Entries, RtmpAssumption DEF IInv
  <2> QED BY <1>1, <1>2, <2>1, <2>2 DEF IInv, Parallel, Waits
<1>4. ClientsAreOpen'
  BY <1>1 DEF IInv, ClientsAreOpen, Listed
<1> QED BY <1>1, <1>2, <1>3, <1>4 DEF IInv, Parallel

\* The new client is listed behind the others, or its socket is closed.
LEMMA HandshakeKeeps == ASSUME IInv, NEW c \in Conns, Handshake(c) PROVE IInv'
<1>1. Len(clients) \in Nat \ {0} /\ Len(revents) = Len(clients) /\ i \in 1 .. Len(clients)
  BY Entries DEF IInv, Parallel
<1>2. c \notin ToSet(clients) /\ c # NULL
  BY RtmpAssumption DEF Handshake, IInv, ClientsAreOpen, Listed
<1>3. publisher' = publisher /\ Advance
  BY DEF Handshake, stream
<1>4. \A d \in due' : \E k \in i + 1 .. Len(clients) : clients[k] = d /\ revents[k] # {}
  <2> SUFFICES ASSUME NEW d \in due' PROVE \E k \in i + 1 .. Len(clients) : clients[k] = d /\ revents[k] # {}
    OBVIOUS
  <2>1. d \in due /\ d # client
    BY <1>3 DEF Advance
  <2>2. PICK k \in i .. Len(clients) : clients[k] = d /\ revents[k] # {}
    BY <2>1 DEF IInv, Waits
  <2> QED BY <1>1, <2>1, <2>2 DEF client
<1>5. CASE UNCHANGED <<clients, revents>> /\ peer' = [peer EXCEPT ![c] = "closed"]
  <2>1. Parallel'
    BY <1>5 DEF IInv, Parallel
  <2>2. /\ pc' \in {"poll", "scan"} /\ i' \in 1 .. Len(clients')
        /\ \A d \in due' : Waits(d)'
    <3> i + 1 \in Nat \ {0} /\ Len(clients') \in Nat \ {0} /\ GoOn(i + 1)
      BY <1>1, <1>3, <1>5 DEF Advance
    <3> QED BY <1>4, <1>5, LoopGoesOn
  <2>3. ClientsAreOpen'
    BY <1>3, <1>5 DEF IInv, ClientsAreOpen, Listed, Handshake, Parallel
  <2> QED BY <1>3, <2>1, <2>2, <2>3 DEF IInv, Advance
<1>6. CASE /\ clients' = Append(clients, c) /\ revents' = Append(revents, {})
           /\ peer' = [peer EXCEPT ![c] = "up"]
  <2>1. /\ clients' \in Seq(Conns \cup {NULL}) /\ Len(clients') = Len(clients) + 1
        /\ \A j \in 1 .. Len(clients) : clients'[j] = clients[j]
        /\ clients'[Len(clients) + 1] = c
    BY <1>1, <1>6, AppendProperties DEF IInv, Parallel
  <2>2. /\ revents' \in Seq(SUBSET {"in", "out"}) /\ Len(revents') = Len(clients) + 1
        /\ \A j \in 1 .. Len(clients) : revents'[j] = revents[j]
    BY <1>1, <1>6, AppendProperties DEF IInv, Parallel
  <2>4. IsInjective(clients') /\ ToSet(clients') = ToSet(clients) \cup {c}
    BY <1>2, <1>6, Enlist DEF IInv, Parallel
  <2>6. Parallel'
    BY <1>1, <1>6, <2>1, <2>2, <2>4 DEF IInv, Parallel
  <2>7. /\ pc' \in {"poll", "scan"} /\ i' \in 1 .. Len(clients')
        /\ \A d \in due' : Waits(d)'
    <3>1. i + 1 \in Nat \ {0} /\ Len(clients') \in Nat \ {0} /\ GoOn(i + 1)
      BY <1>1, <1>3, <2>1 DEF Advance
    <3>2. \A d \in due' : \E k \in i + 1 .. Len(clients') : clients'[k] = d /\ revents'[k] # {}
      BY <1>1, <1>4, <2>1, <2>2
    <3> QED BY <3>1, <3>2, LoopGoesOn
  <2>8. ClientsAreOpen'
    <3>1. Listed' = Listed \cup {c}
      BY <1>2, <2>4 DEF Listed
    <3> QED BY <1>3, <1>6, <3>1 DEF IInv, ClientsAreOpen, Parallel
  <2> QED BY <1>3, <2>6, <2>7, <2>8 DEF IInv, Advance
<1> QED BY <1>5, <1>6 DEF Handshake

\* A message: the entry is served, or costs its client the connection.
LEMMA RecvKeeps == ASSUME IInv, Recv PROVE IInv'
<1>1. client # NULL
  BY DEF Recv, Readable
<1>2. CASE Done /\ publisher' \in {publisher, client}
  BY <1>1, <1>2, ServedKeeps DEF Done
<1>3. CASE Throw \/ \E rs : SendFails(rs)
  BY <1>1, <1>3, CloseKeeps, SendFailsKeeps DEF Throw
<1>4. \/ Done /\ publisher' \in {publisher, client}
      \/ Throw \/ \E rs : SendFails(rs)
  BY DEF Recv, Reply, Ignored, FCPublish, StartPlayback, Pause, SetDataFrame, Audio, Video, Refused, stream
<1> QED BY <1>2, <1>3, <1>4

\* A peer leaves; its entry stays until the server has read the end of the stream.
LEMMA LeaveKeeps == ASSUME IInv, NEW c \in Conns, Leave(c) PROVE IInv'
<1>1. UNCHANGED loop /\ publisher' = publisher
  BY DEF Leave, stream
<1>2. \A d \in Conns : peer'[d] = IF d = c THEN "gone" ELSE peer[d]
  BY DEF Leave, IInv, Parallel
<1>3. Parallel'
  BY <1>1 DEF IInv, Parallel, loop, Leave
<1>4. ClientsAreOpen'
  BY <1>1, <1>2 DEF IInv, ClientsAreOpen, loop, Leave, Listed
<1> QED BY <1>1, <1>3, <1>4 DEF IInv, loop, Waits

\* The inductive invariant.
LEMMA Inductive == Spec => []IInv
<1>1. Init => IInv
  <2> SUFFICES ASSUME Init PROVE IInv
    OBVIOUS
  <2>1. /\ <<NULL>> \in Seq(Conns \cup {NULL}) /\ <<{}>> \in Seq(SUBSET {"in", "out"})
        /\ IsInjective(<<NULL>>) /\ ToSet(<<NULL>>) = {NULL}
    BY DEF IsInjective, ToSet
  <2> QED BY <2>1 DEF Init, IInv, Parallel, ClientsAreOpen, Listed
<1>2. IInv /\ [Next]_vars => IInv'
  <2> SUFFICES ASSUME IInv, [Next]_vars PROVE IInv'
    OBVIOUS
  <2>1. CASE UNCHANGED vars
    BY <2>1 DEF vars, loop, stream, IInv, Parallel, ClientsAreOpen, Listed, Waits
  <2> QED BY <2>1, LeaveKeeps, HandshakeKeeps, PollKeeps, TrySendKeeps, AcceptKeeps, RecvKeeps
          DEF Next, Server
<1> QED BY <1>1, <1>2, PTL DEF Spec

\* The vector of clients, erased from and appended to inside the loop over it, names
\* exactly the open connections, and `publisher` never points at a deleted client.
THEOREM NoDanglingPublisher == Spec => []ClientsAreOpen
<1>1. IInv => ClientsAreOpen
  BY DEF IInv
<1> QED BY <1>1, Inductive, PTL

\* No erasure makes the loop skip a client that poll() reported.
THEOREM NobodySkipped == Spec => []RoundServesAll
<1>1. IInv => RoundServesAll
  <2> SUFFICES ASSUME IInv, NEW c \in due
               PROVE  c \in {clients[j] : j \in {k \in i .. Len(clients) : pc # "poll"}}
    BY DEF RoundServesAll
  <2> QED BY DEF IInv, Waits
<1> QED BY <1>1, Inductive, PTL
-----------------------------------------------------------------------------
\* The stream that the clients get.

\* The key frames since c began to play.
KeysFrom(c) == {k \in keys : since[c] < k}

\* The frames from m on, and m is the first key frame of c.
GetsFrom(c, m) ==
  /\ m \in KeysFrom(c) /\ \A k \in KeysFrom(c) : m <= k
  /\ got[c] = [n \in 1 .. frames - m + 1 |-> m + n - 1]

\* While a client plays it is ready as soon as a key frame has come after its play, and
\* then gets every frame; who is ready has seen a key frame of this publisher.
Plays(c) ==
  /\ playing[c] => c \in Listed
  /\ ready[c] => keys # {}
  /\ playing[c] =>
       IF ready[c] THEN \E m \in KeysFrom(c) : GetsFrom(c, m)
       ELSE KeysFrom(c) = {} /\ got[c] = <<>>
  /\ metadata /\ playing[c] => c \in told

StreamInv ==
  /\ playing \in [Conns -> BOOLEAN] /\ ready \in [Conns -> BOOLEAN]
  /\ since \in [Conns -> Nat] /\ DOMAIN got = Conns
  /\ frames \in Nat /\ keys \subseteq 1 .. frames /\ \A c \in Conns : since[c] <= frames
  /\ \A c \in Conns : Plays(c)

\* Nothing is known of a client that does not play and is not ready.
LEMMA Silent ==
  ASSUME NEW c \in Conns, playing'[c] = FALSE, ready'[c] = FALSE
  PROVE  Plays(c)'
  BY DEF Plays

\* A client keeps what it has as long as the stream and its own state stay.
LEMMA Untouched ==
  ASSUME NEW c \in Conns, Plays(c), playing[c] => c \in Listed',
         playing'[c] = playing[c], ready'[c] = ready[c], since'[c] = since[c], got'[c] = got[c],
         keys' = keys, frames' = frames, metadata' = metadata, c \in told => c \in told'
  PROVE  Plays(c)'
  BY DEF Plays, KeysFrom, GetsFrom

\* The publisher leaves: everybody starts anew.
LEMMA StreamEndsKeeps ==
  ASSUME StreamInv, StreamEnds, playing' \in [Conns -> BOOLEAN],
         \A c \in Conns : playing'[c] => playing[c] /\ c \in Listed'
  PROVE  StreamInv'
<1>1. ASSUME NEW c \in Conns PROVE Plays(c)'
  BY DEF StreamEnds, Plays, KeysFrom
<1> QED BY <1>1 DEF StreamInv, StreamEnds

LEMMA CloseKeepsStream ==
  ASSUME IInv, StreamInv, client # NULL, NEW queued, CloseClient(queued)
  PROVE  StreamInv'
<1>1. client \in Conns /\ Listed' = Listed \ {client}
  <2>1. i \in 1 .. Len(clients) /\ client \in Conns
    BY Entries DEF IInv, client
  <2>2. ToSet(clients') = ToSet(clients) \ {client}
    BY <2>1, Erase DEF IInv, Parallel, CloseClient, client
  <2> QED BY <2>1, <2>2 DEF Listed
<1>2. playing' = [playing EXCEPT ![client] = FALSE]
  BY DEF CloseClient
<1>3. CASE client = publisher
  <2>1. StreamEnds /\ playing' \in [Conns -> BOOLEAN]
    BY <1>2, <1>3 DEF CloseClient, StreamInv
  <2>2. \A c \in Conns : playing'[c] => playing[c] /\ c \in Listed'
    BY <1>1, <1>2 DEF StreamInv, Plays
  <2> QED BY <2>1, <2>2, StreamEndsKeeps
<1>4. CASE client # publisher
  <2>1. /\ ready' = [ready EXCEPT ![client] = FALSE]
        /\ got' = [got EXCEPT ![client] = <<>>]
        /\ since' = [since EXCEPT ![client] = 0]
        /\ told' = told \ {client}
        /\ metadata' = metadata /\ frames' = frames /\ keys' = keys
    BY <1>4 DEF CloseClient
  <2>2. ASSUME NEW c \in Conns PROVE Plays(c)'
    <3>1. CASE c = client
      BY <1>1, <1>2, <2>1, <3>1, Silent DEF StreamInv
    <3>2. CASE c # client
      <4>1. Plays(c) /\ (playing[c] => c \in Listed')
        BY <1>1, <3>2 DEF StreamInv, Plays
      <4> QED BY <1>2, <2>1, <3>2, <4>1, Untouched DEF StreamInv
    <3> QED BY <3>1, <3>2
  <2>3. since' \in [Conns -> Nat] /\ \A c \in Conns : since'[c] <= frames
    BY <1>1, <2>1 DEF StreamInv
  <2> QED BY <1>2, <2>1, <2>2, <2>3 DEF StreamInv
<1> QED BY <1>3, <1>4

LEMMA KilledKeepsStream == ASSUME StreamInv, Killed PROVE StreamInv'
  BY StreamEndsKeeps DEF Killed

LEMMA SendFailsKeepsStream ==
  ASSUME IInv, StreamInv, client # NULL, NEW rs, SendFails(rs)
  PROVE  StreamInv'
  BY CloseKeepsStream, KilledKeepsStream DEF SendFails

\* Steps that leave the stream alone, with a list that does not lose anybody.
LEMMA SameStream ==
  ASSUME StreamInv, UNCHANGED stream, Listed \subseteq Listed'
  PROVE  StreamInv'
<1>1. ASSUME NEW c \in Conns PROVE Plays(c)'
  <2> Plays(c) /\ (playing[c] => c \in Listed')
    BY DEF StreamInv, Plays
  <2> QED BY Untouched DEF stream
<1> QED BY <1>1 DEF StreamInv, stream

\* A client that begins to play has no key frame behind it.
LEMMA StartPlaybackKeepsStream ==
  ASSUME IInv, StreamInv, client # NULL, StartPlayback
  PROVE  StreamInv'
<1>1. client \in Conns /\ client \in Listed
  <2> i \in 1 .. Len(clients)
    BY DEF IInv
  <2> QED BY Entries DEF client
<1>2. Listed' = Listed
  BY DEF StartPlayback, Done, Listed
<1>3. /\ playing' = [playing EXCEPT ![client] = TRUE] /\ ready' = [ready EXCEPT ![client] = FALSE]
      /\ since' = [since EXCEPT ![client] = frames] /\ got' = [got EXCEPT ![client] = <<>>]
      /\ told' = IF metadata THEN told \cup {client} ELSE told
      /\ metadata' = metadata /\ frames' = frames /\ keys' = keys
  BY DEF StartPlayback
<1>4. ASSUME NEW c \in Conns PROVE Plays(c)'
  <2>1. CASE c = client
    <3>1. playing'[c] = TRUE /\ ready'[c] = FALSE /\ since'[c] = frames /\ got'[c] = <<>>
      BY <1>1, <1>3, <2>1 DEF StreamInv
    <3>2. KeysFrom(c)' = {}
      <4> frames \in Nat /\ \A k \in keys : k \in Nat /\ k <= frames
        BY DEF StreamInv
      <4> QED BY <1>3, <3>1 DEF KeysFrom
    <3> QED BY <1>1, <1>2, <1>3, <2>1, <3>1, <3>2 DEF Plays
  <2>2. CASE c # client
    <3> Plays(c) /\ (playing[c] => c \in Listed')
      BY <1>2 DEF StreamInv, Plays
    <3> QED BY <1>3, <2>2, Untouched DEF StreamInv
  <2> QED BY <2>1, <2>2
<1>5. since' \in [Conns -> Nat] /\ \A c \in Conns : since'[c] <= frames
  BY <1>1, <1>3 DEF StreamInv
<1> QED BY <1>3, <1>4, <1>5 DEF StreamInv

\* Pausing leaves ready as it is, and with it that a key frame has been seen.
LEMMA PauseKeepsStream ==
  ASSUME IInv, StreamInv, client # NULL, Pause
  PROVE  StreamInv'
<1>0. client \in Conns
  <2> i \in 1 .. Len(clients)
    BY DEF IInv
  <2> QED BY Entries DEF client
<1>1. Listed' = Listed
  BY DEF Pause, Done, Listed
<1>2. /\ playing' = [playing EXCEPT ![client] = FALSE] /\ ready' = ready
      /\ since' = [since EXCEPT ![client] = 0] /\ got' = [got EXCEPT ![client] = <<>>]
      /\ told' = told \ {client} /\ metadata' = metadata /\ frames' = frames /\ keys' = keys
  BY DEF Pause
<1>3. ASSUME NEW c \in Conns PROVE Plays(c)'
  <2>0. Plays(c)
    BY DEF StreamInv
  <2>1. CASE c = client
    <3> playing'[c] = FALSE /\ (ready'[c] => keys' # {})
      BY <1>2, <2>0, <2>1 DEF StreamInv, Plays
    <3> QED BY DEF Plays
  <2>2. CASE c # client
    <3> Plays(c) /\ (playing[c] => c \in Listed')
      BY <1>1, <2>0 DEF Plays
    <3> QED BY <1>2, <2>2, Untouched DEF StreamInv
  <2> QED BY <2>1, <2>2
<1>4. since' \in [Conns -> Nat] /\ \A c \in Conns : since'[c] <= frames
  BY <1>0, <1>2 DEF StreamInv
<1> QED BY <1>2, <1>3, <1>4 DEF StreamInv

\* The next frame continues what a client has got.
LEMMA Continues ==
  ASSUME NEW m \in Nat \ {0}, NEW n \in Nat, m <= n + 1
  PROVE  Append([k \in 1 .. n - m + 1 |-> m + k - 1], n + 1)
           = [k \in 1 .. (n + 1) - m + 1 |-> m + k - 1]
<1> DEFINE s == [k \in 1 .. n - m + 1 |-> m + k - 1]
           t == [k \in 1 .. (n + 1) - m + 1 |-> m + k - 1]
           r == Append(s, n + 1)
<1>1. s \in Seq(Nat) /\ Len(s) = n - m + 1
  <2>1. n - m + 1 \in Nat /\ \A k \in 1 .. n - m + 1 : m + k - 1 \in Nat
    OBVIOUS
  <2> QED BY <2>1
<1>2. t \in Seq(Nat) /\ Len(t) = n - m + 2
  <2>1. (n + 1) - m + 1 \in Nat /\ \A k \in 1 .. (n + 1) - m + 1 : m + k - 1 \in Nat
    OBVIOUS
  <2> QED BY <2>1
<1>3. \A k \in 1 .. n - m + 1 : s[k] = m + k - 1
  OBVIOUS
<1>4. \A k \in 1 .. n - m + 2 : t[k] = m + k - 1
  OBVIOUS
<1> HIDE DEF s, t
<1>5. /\ r \in Seq(Nat) /\ Len(r) = n - m + 2
      /\ (\A k \in 1 .. n - m + 1 : r[k] = s[k]) /\ r[n - m + 2] = n + 1
  BY <1>1, AppendProperties
<1> HIDE DEF r
<1>6. \A k \in 1 .. n - m + 2 : r[k] = t[k]
  <2> SUFFICES ASSUME NEW k \in 1 .. n - m + 2 PROVE r[k] = t[k]
    OBVIOUS
  <2>1. CASE k <= n - m + 1
    BY <1>3, <1>4, <1>5, <2>1
  <2>2. CASE k = n - m + 2
    BY <1>4, <1>5, <2>2
  <2> QED BY <2>1, <2>2
<1>7. r = t
  BY <1>2, <1>5, <1>6, SeqEqual
<1> QED BY <1>7 DEF r, s, t

\* So does the first one, with nothing before it.
LEMMA Begins ==
  ASSUME NEW n \in Nat
  PROVE  Append(<<>>, n) = [k \in 1 .. n - n + 1 |-> n + k - 1]
<1>1. n - n + 1 = 1 /\ \A k \in 1 .. 1 : n + k - 1 = n
  OBVIOUS
<1>2. [k \in 1 .. n - n + 1 |-> n + k - 1] = [k \in 1 .. 1 |-> n]
  BY <1>1
<1> QED BY <1>2

\* A frame for one client: it begins with a key frame, and then takes every frame.
LEMMA NextFrame ==
  ASSUME StreamInv, NEW c \in Conns, NEW key \in BOOLEAN, Listed' = Listed,
         playing' = playing, since' = since, metadata' = metadata, told' = told,
         frames' = frames + 1, keys' = (IF key THEN keys \cup {frames + 1} ELSE keys),
         NEW to, to = (playing[c] /\ (key \/ ready[c])), ready'[c] = (ready[c] \/ to),
         got'[c] = IF to THEN Append(got[c], frames + 1) ELSE got[c]
  PROVE  Plays(c)'
<1>1. /\ Plays(c) /\ frames \in Nat /\ keys \subseteq 1 .. frames /\ since[c] \in Nat /\ since[c] <= frames
      /\ playing[c] \in BOOLEAN /\ ready[c] \in BOOLEAN
  BY DEF StreamInv
<1>2. ready'[c] => keys' # {}
  BY <1>1 DEF Plays
<1>3. KeysFrom(c) \subseteq Nat /\ \A k \in KeysFrom(c) : k <= frames /\ since[c] < k
  <2> \A k \in keys : k \in Nat /\ k <= frames
    BY <1>1
  <2> QED BY DEF KeysFrom
<1>4. CASE ~playing[c]
  BY <1>1, <1>2, <1>4 DEF Plays
<1>5. CASE playing[c] /\ ready[c]
  <2>1. PICK m \in KeysFrom(c) : GetsFrom(c, m)
    BY <1>1, <1>5 DEF Plays
  <2>2. m \in Nat \ {0} /\ m <= frames /\ since[c] < m
    BY <1>1, <1>3
  <2>3. KeysFrom(c)' = KeysFrom(c) \cup (IF key THEN {frames + 1} ELSE {})
    <3> since[c] < frames + 1
      BY <1>1, <2>2
    <3> QED BY DEF KeysFrom
  <2>4. got'[c] = [n \in 1 .. frames' - m + 1 |-> m + n - 1]
    <3>1. got'[c] = Append(got[c], frames + 1) /\ frames' = frames + 1
      BY <1>5
    <3>2. got[c] = [n \in 1 .. frames - m + 1 |-> m + n - 1]
      BY <2>1 DEF GetsFrom
    <3>3. m <= frames + 1
      BY <1>1, <2>2
    <3>4. Append([n \in 1 .. frames - m + 1 |-> m + n - 1], frames + 1)
            = [n \in 1 .. (frames + 1) - m + 1 |-> m + n - 1]
      BY <1>1, <2>2, <3>3, Continues
    <3> QED BY <3>1, <3>2, <3>4
  <2>5. m \in KeysFrom(c)' /\ \A k \in KeysFrom(c)' : m <= k
    <3>1. \A k \in KeysFrom(c) : m <= k
      BY <2>1 DEF GetsFrom
    <3>2. m <= frames + 1
      BY <1>1, <2>2
    <3> QED BY <2>1, <2>3, <3>1, <3>2
  <2> QED BY <1>1, <1>2, <1>5, <2>4, <2>5 DEF Plays, GetsFrom
<1>6. CASE playing[c] /\ ~ready[c] /\ key
  <2>1. KeysFrom(c) = {} /\ got[c] = <<>> /\ c \in Listed /\ (metadata => c \in told)
    BY <1>1, <1>6 DEF Plays
  <2>2. to = TRUE
    BY <1>6
  <2>3. ready'[c] = TRUE /\ got'[c] = Append(<<>>, frames')
    BY <2>1, <2>2
  <2>4. KeysFrom(c)' = {frames'}
    <3> since[c] < frames + 1
      BY <1>1
    <3> QED BY <1>6, <2>1 DEF KeysFrom
  <2>5. PICK m \in Nat : m = frames'
    BY <1>1
  <2>6. got'[c] = [n \in 1 .. frames' - m + 1 |-> m + n - 1]
    BY <2>3, <2>5, Begins
  <2>7. m \in KeysFrom(c)' /\ GetsFrom(c, m)'
    <3>1. m \in KeysFrom(c)' /\ \A k \in KeysFrom(c)' : m <= k
      BY <2>4, <2>5
    <3> QED BY <2>6, <3>1 DEF GetsFrom
  <2>8. c \in Listed' /\ (metadata' => c \in told')
    BY <2>1
  <2> QED BY <1>2, <2>3, <2>7, <2>8 DEF Plays
<1>7. CASE playing[c] /\ ~ready[c] /\ ~key
  BY <1>1, <1>7 DEF Plays, KeysFrom
<1> QED BY <1>1, <1>4, <1>5, <1>6, <1>7

\* A video frame: the clients that take it are those that play and are ready or, with a
\* key frame, become so.
LEMMA VideoKeepsStream ==
  ASSUME IInv, StreamInv, client # NULL, NEW key \in BOOLEAN, Video(key)
  PROVE  StreamInv'
<1> DEFINE to == [c \in Conns |-> playing[c] /\ (key \/ ready[c])]
<1>1. CASE SendFails(Receivers(to))
  BY <1>1, SendFailsKeepsStream
<1>2. CASE /\ Done /\ frames' = frames + 1
           /\ keys' = (IF key THEN keys \cup {frames + 1} ELSE keys)
           /\ ready' = [c \in Conns |-> ready[c] \/ to[c]]
           /\ got' = [c \in Conns |-> IF to[c] THEN Append(got[c], frames + 1) ELSE got[c]]
           /\ UNCHANGED <<publisher, metadata, playing, since, told>>
  <2>1. Listed' = Listed
    BY <1>2 DEF Done, Listed
  <2>2. ASSUME NEW c \in Conns PROVE Plays(c)'
    <3>1. /\ to[c] = (playing[c] /\ (key \/ ready[c])) /\ ready'[c] = (ready[c] \/ to[c])
          /\ got'[c] = IF to[c] THEN Append(got[c], frames + 1) ELSE got[c]
      BY <1>2
    <3> HIDE DEF to
    <3> QED BY <1>2, <2>1, <3>1, NextFrame
  <2>3. frames' \in Nat /\ keys' \subseteq 1 .. frames' /\ \A c \in Conns : since'[c] <= frames'
    BY <1>2 DEF StreamInv
  <2>4. ready' \in [Conns -> BOOLEAN] /\ DOMAIN got' = Conns
    <3>1. \A c \in Conns : (ready[c] \/ to[c]) \in BOOLEAN
      OBVIOUS
    <3> QED BY <1>2, <3>1
  <2> QED BY <1>2, <2>2, <2>3, <2>4 DEF StreamInv
<1> QED BY <1>1, <1>2 DEF Video

\* The metadata reach everybody who plays, or cost somebody the connection.
LEMMA SetDataFrameKeepsStream ==
  ASSUME IInv, StreamInv, client # NULL, SetDataFrame
  PROVE  StreamInv'
<1>1. CASE SendFails(Receivers(playing))
  BY <1>1, SendFailsKeepsStream
<1>2. CASE /\ Done /\ told' = {c \in Conns : playing[c]}
           /\ UNCHANGED <<publisher, playing, ready, frames, keys, since, got>>
  <2>1. Listed' = Listed
    BY <1>2 DEF Done, Listed
  <2>2. ASSUME NEW c \in Conns PROVE Plays(c)'
    <3> Plays(c)
      BY DEF StreamInv
    <3> QED BY <1>2, <2>1 DEF Plays, KeysFrom, GetsFrom
  <2> QED BY <1>2, <2>2 DEF StreamInv
<1> QED BY <1>1, <1>2 DEF SetDataFrame

\* A message of a client.
LEMMA RecvKeepsStream == ASSUME IInv, StreamInv, Recv PROVE StreamInv'
<1>1. client # NULL
  BY DEF Recv, Readable
<1>2. CASE Done /\ UNCHANGED stream
  <2> Listed' = Listed
    BY <1>2 DEF Done, Listed
  <2> QED BY <1>2, SameStream
<1>3. CASE FCPublish
  <2>1. Listed' = Listed /\ UNCHANGED <<metadata, playing, ready, frames, keys, since, got, told>>
    BY <1>3 DEF FCPublish, Done, Listed
  <2>2. ASSUME NEW c \in Conns PROVE Plays(c)'
    <3> Plays(c) /\ (playing[c] => c \in Listed')
      BY <2>1 DEF StreamInv, Plays
    <3> QED BY <2>1, Untouched
  <2> QED BY <2>1, <2>2 DEF StreamInv
<1>4. CASE Throw \/ \E rs : SendFails(rs)
  BY <1>1, <1>4, CloseKeepsStream, SendFailsKeepsStream DEF Throw
<1>5. CASE Reply \/ Ignored
  BY <1>2, <1>5 DEF Reply, Ignored
<1>6. CASE Audio
  BY <1>2, <1>4, <1>6 DEF Audio
<1>7. CASE Refused
  BY <1>4, <1>7 DEF Refused
<1> QED BY <1>1, <1>3, <1>4, <1>5, <1>6, <1>7, StartPlaybackKeepsStream, PauseKeepsStream,
           SetDataFrameKeepsStream, VideoKeepsStream DEF Recv

\* Polling, accepting and leaving do not touch the stream, nor does a queue that is sent.
LEMMA LoopKeepsStream ==
  ASSUME IInv, StreamInv, Poll \/ TrySend \/ Accept \/ \E c \in Conns : Leave(c) \/ Handshake(c)
  PROVE  StreamInv'
<1>1. CASE Poll \/ Accept \/ \E c \in Conns : Leave(c)
  <2> Listed' = Listed /\ UNCHANGED stream
    BY <1>1 DEF Poll, Accept, Leave, loop, Listed
  <2> QED BY SameStream
<1>2. CASE TrySend
  <2>1. client # NULL
    BY <1>2, Entries DEF TrySend, IInv, Parallel, client
  <2>2. CASE SendFails(<<client>>)
    BY <2>1, <2>2, SendFailsKeepsStream
  <2>3. CASE clients' = clients /\ UNCHANGED stream
    <3> Listed' = Listed
      BY <2>3 DEF Listed
    <3> QED BY <2>3, SameStream
  <2> QED BY <1>2, <2>2, <2>3 DEF TrySend
<1>3. ASSUME NEW c \in Conns, Handshake(c) PROVE StreamInv'
  <2>1. UNCHANGED stream
    BY <1>3 DEF Handshake
  <2>2. CASE clients' = clients
    <3> Listed' = Listed
      BY <2>2 DEF Listed
    <3> QED BY <2>1, SameStream
  <2>3. CASE clients' = Append(clients, c)
    <3>1. c \notin ToSet(clients)
      BY <1>3, RtmpAssumption DEF Handshake, IInv, ClientsAreOpen, Listed
    <3>2. ToSet(clients') = ToSet(clients) \cup {c}
      BY <2>3, <3>1, Enlist DEF IInv, Parallel
    <3> QED BY <2>1, <3>2, SameStream DEF Listed
  <2> QED BY <1>3, <2>2, <2>3 DEF Handshake
<1> QED BY <1>1, <1>2, <1>3

LEMMA StreamInductive == Spec => []StreamInv
<1>1. Init => StreamInv
  <2> SUFFICES ASSUME Init PROVE StreamInv
    OBVIOUS
  <2>1. ASSUME NEW c \in Conns PROVE Plays(c)
    BY DEF Init, Plays
  <2> QED BY <2>1 DEF Init, StreamInv
<1>2. IInv /\ StreamInv /\ [Next]_vars => StreamInv'
  <2> SUFFICES ASSUME IInv, StreamInv, [Next]_vars PROVE StreamInv'
    OBVIOUS
  <2>1. CASE UNCHANGED vars
    <3> Listed' = Listed /\ UNCHANGED stream
      BY <2>1 DEF vars, loop, Listed
    <3> QED BY SameStream
  <2> QED BY <2>1, LoopKeepsStream, RecvKeepsStream DEF Next, Server
<1> QED BY <1>1, <1>2, Inductive, PTL DEF Spec

\* However viewers and publishers come, pause and leave, and whoever fails in the middle
\* of a forwarded frame: a client that plays gets every frame of the present publisher
\* from the first key frame after its play on, each once, and knows its metadata.
THEOREM NoGapInTheStream == Spec => []StreamComplete
<1>1. ASSUME IInv, StreamInv PROVE StreamComplete
  <2>1. ASSUME NEW c \in Listed
        PROVE  /\ ready[c] => keys # {}
               /\ playing[c] =>
                    LET first == {k \in keys : since[c] < k}
                    IN got[c] = IF first = {} THEN <<>>
                                ELSE [n \in 1 .. frames - Min(first) + 1 |-> Min(first) + n - 1]
               /\ metadata /\ playing[c] => c \in told
    <3>1. c \in Conns
      BY <1>1, Entries
    <3>2. Plays(c)
      BY <1>1, <3>1 DEF StreamInv
    <3>3. CASE playing[c] /\ ready[c]
      <4>1. PICK m \in KeysFrom(c) : GetsFrom(c, m)
        BY <3>2, <3>3 DEF Plays
      <4>2. KeysFrom(c) \subseteq Nat
        <5> \A k \in keys : k \in Nat
          BY <1>1 DEF StreamInv
        <5> QED BY DEF KeysFrom
      <4>3. \A x \in KeysFrom(c) : (\A y \in KeysFrom(c) : x <= y) => x = m
        BY <4>1, <4>2 DEF GetsFrom
      <4>4. Min(KeysFrom(c)) = m
        <5>1. m \in KeysFrom(c) /\ \A y \in KeysFrom(c) : m <= y
          BY <4>1 DEF GetsFrom
        <5>2. Min(KeysFrom(c)) \in KeysFrom(c) /\ \A y \in KeysFrom(c) : Min(KeysFrom(c)) <= y
          BY <5>1 DEF Min
        <5> QED BY <4>3, <5>2
      <4> QED BY <3>2, <3>3, <4>1, <4>4 DEF Plays, GetsFrom, KeysFrom
    <3>4. CASE playing[c] /\ ~ready[c]
      BY <3>2, <3>4 DEF Plays, KeysFrom
    <3>5. CASE ~playing[c]
      BY <3>2, <3>5 DEF Plays
    <3> QED BY <3>3, <3>4, <3>5
  <2> QED BY <2>1 DEF StreamComplete, StreamFromKey, MetadataKnown
<1> QED BY <1>1, Inductive, StreamInductive, PTL
-----------------------------------------------------------------------------
\* The chunks of a peer.  One round of the parser first: what it makes of a buffer that
\* begins with a header.

\* The cells of the wire, and what the server makes of them.
Cell ==
  ({"flags"} \X (0 .. 3) \X Channels) \cup ({"msg_type"} \X {"media", "set chunk"})
  \cup ({"timestamp", "msg_len", "endpoint", "extended"} \X Nat) \cup (Nat \X Nat)

Message ==
  [type : {"media", "set chunk"}, len : Nat, timestamp : Nat, endpoint : Nat, buf : Seq(Nat \X Nat)]

Client(b, ms, l, o) == [buf |-> b, messages |-> ms, chunk_len |-> l, open |-> o]

Parsing(b, ms, l, o, h) == [c |-> Client(b, ms, l, o), handled |-> h]

\* A message with what the header at the head of b says of it.
Taken(m, b, fmt) ==
  [type      |-> IF fmt <= 1 THEN b[4][2] ELSE m.type,
   len       |-> IF fmt <= 1 THEN b[3][2] ELSE m.len,
   timestamp |-> m.timestamp,
   endpoint  |-> IF fmt = 0 THEN b[5][2] ELSE m.endpoint,
   buf       |-> m.buf]

\* The number of cells of a header.
LEMMA HeaderLengths ==
  /\ C!HEADER_LENGTH[0] = 5 /\ C!HEADER_LENGTH[1] = 4 /\ C!HEADER_LENGTH[2] = 2
  /\ C!HEADER_LENGTH[3] = 1 /\ \A fmt \in 0 .. 3 : C!HEADER_LENGTH[fmt] \in 1 .. 5
  BY DEF C!HEADER_LENGTH

\* A message whose fields change.
Fields(m, x, y, z) ==
  /\ [m EXCEPT !.len = x, !.type = y, !.endpoint = z]
       = [type |-> y, len |-> x, timestamp |-> m.timestamp, endpoint |-> z, buf |-> m.buf]
  /\ [m EXCEPT !.timestamp = x, !.buf = y]
       = [type |-> m.type, len |-> m.len, timestamp |-> x, endpoint |-> m.endpoint, buf |-> y]
  /\ [m EXCEPT !.buf = y]
       = [type |-> m.type, len |-> m.len, timestamp |-> m.timestamp, endpoint |-> m.endpoint, buf |-> y]

IsMessage(m) ==
  \E t, n, s, e, b : m = [type |-> t, len |-> n, timestamp |-> s, endpoint |-> e, buf |-> b]

LEMMA Messages == ASSUME NEW m \in Message PROVE IsMessage(m)
  BY DEF Message, IsMessage

LEMMA MessageChanged == ASSUME NEW m, IsMessage(m), NEW x, NEW y, NEW z PROVE Fields(m, x, y, z)
<1> PICK t, n, s, e, b : m = [type |-> t, len |-> n, timestamp |-> s, endpoint |-> e, buf |-> b]
  BY DEF IsMessage
<1> DEFINE R(t1, n1, s1, e1, b1) == [type |-> t1, len |-> n1, timestamp |-> s1, endpoint |-> e1, buf |-> b1]
<1>1. m = R(t, n, s, e, b)
  OBVIOUS
<1>2. m.type = t /\ m.len = n /\ m.timestamp = s /\ m.endpoint = e /\ m.buf = b
  OBVIOUS
<1>3. [m EXCEPT !.len = x] = R(t, x, s, e, b)
  BY <1>1
<1>4. [R(t, x, s, e, b) EXCEPT !.type = y] = R(y, x, s, e, b)
  OBVIOUS
<1>5. [R(y, x, s, e, b) EXCEPT !.endpoint = z] = R(y, x, s, z, b)
  OBVIOUS
<1>6. [m EXCEPT !.timestamp = x] = R(t, n, x, e, b)
  BY <1>1
<1>7. [R(t, n, x, e, b) EXCEPT !.buf = y] = R(t, n, x, e, y)
  OBVIOUS
<1>8. [m EXCEPT !.buf = y] = R(t, n, s, e, y)
  BY <1>1
<1>9. /\ [m EXCEPT !.len = x, !.type = y, !.endpoint = z]
           = [[[m EXCEPT !.len = x] EXCEPT !.type = y] EXCEPT !.endpoint = z]
      /\ [m EXCEPT !.timestamp = x, !.buf = y] = [[m EXCEPT !.timestamp = x] EXCEPT !.buf = y]
  OBVIOUS
<1> HIDE DEF R
<1>10. /\ [m EXCEPT !.len = x, !.type = y, !.endpoint = z] = R(y, x, s, z, b)
       /\ [m EXCEPT !.timestamp = x, !.buf = y] = R(t, n, x, e, y)
  BY <1>3, <1>4, <1>5, <1>6, <1>7, <1>9, Zenon
<1> QED BY <1>2, <1>8, <1>10, Zenon DEF R, Fields

\* A client whose fields change.
ClientFields(b, ms, l, o, ch, m, x) ==
  /\ [Client(b, ms, l, o) EXCEPT !.messages[ch] = m] = Client(b, [ms EXCEPT ![ch] = m], l, o)
  /\ [Client(b, ms, l, o) EXCEPT !.messages[ch] = m, !.buf = x] = Client(x, [ms EXCEPT ![ch] = m], l, o)
  /\ [Client(b, ms, l, o) EXCEPT !.chunk_len = x] = Client(b, ms, x, o)
  /\ [Client(b, ms, l, o) EXCEPT !.open = FALSE] = Client(b, ms, l, FALSE)

\* What a record update makes of a client.
LEMMA ClientChanged ==
  ASSUME NEW b, NEW ms, NEW l, NEW o \in BOOLEAN, NEW ch, NEW m, NEW x
  PROVE  ClientFields(b, ms, l, o, ch, m, x)
<1>2. PICK ns : ns = [ms EXCEPT ![ch] = m]
  OBVIOUS
<1>1. [Client(b, ms, l, o) EXCEPT !.messages[ch] = m] = Client(b, [ms EXCEPT ![ch] = m], l, o)
  <2>1. Client(b, ms, l, o).messages = ms
    BY DEF Client
  <2>2. [Client(b, ms, l, o) EXCEPT !.messages = ns] = Client(b, ns, l, o)
    BY DEF Client
  <2>3. [Client(b, ms, l, o) EXCEPT !.messages[ch] = m]
          = [Client(b, ms, l, o) EXCEPT !.messages = [Client(b, ms, l, o).messages EXCEPT ![ch] = m]]
    OBVIOUS
  <2> QED BY <1>2, <2>1, <2>2, <2>3, Zenon
<1>3. [Client(b, ns, l, o) EXCEPT !.buf = x] = Client(x, ns, l, o)
  BY DEF Client
<1>4. [Client(b, ms, l, o) EXCEPT !.messages[ch] = m, !.buf = x]
        = [[Client(b, ms, l, o) EXCEPT !.messages[ch] = m] EXCEPT !.buf = x]
  OBVIOUS
<1>5. [Client(b, ms, l, o) EXCEPT !.chunk_len = x] = Client(b, ms, x, o)
  BY DEF Client
<1>6. [Client(b, ms, l, o) EXCEPT !.open = FALSE] = Client(b, ms, l, FALSE)
  <2> PICK no \in BOOLEAN : no = FALSE
    OBVIOUS
  <2>1. [Client(b, ms, l, o) EXCEPT !.open = no] = Client(b, ms, l, no)
    BY ONLY o \in BOOLEAN, no \in BOOLEAN DEF Client
  <2> QED BY <2>1, Zenon
<1>7. [Client(b, ms, l, o) EXCEPT !.messages[ch] = m, !.buf = x] = Client(x, [ms EXCEPT ![ch] = m], l, o)
  BY <1>1, <1>2, <1>3, <1>4, Zenon
<1> QED BY <1>1, <1>5, <1>6, <1>7, Zenon DEF ClientFields

\* TakeHeader changes the message of the channel only.
HeaderRead(b, ms, l, fmt, ch, T) ==
  LET c == Client(b, ms, l, TRUE)
      d == Client(b, [ms EXCEPT ![ch] = T], l, TRUE)
  IN  /\ C!TakeHeader(c) = d
      /\ C!HeaderLen(c) = C!HEADER_LENGTH[fmt] /\ C!HeaderLen(d) = C!HEADER_LENGTH[fmt]
      /\ C!Fmt(d) = fmt /\ C!Chan(d) = ch /\ C!Msg(d) = T

\* What TakeHeader makes of a client whose buffer begins with a header.
LEMMA HeaderTaken ==
  ASSUME NEW b, NEW ms \in [Channels -> Message], NEW l, NEW fmt \in 0 .. 3, NEW ch \in Channels,
         b[1] = <<"flags", fmt, ch>>
  PROVE  HeaderRead(b, ms, l, fmt, ch, Taken(ms[ch], b, fmt))
<1> DEFINE c == Client(b, ms, l, TRUE)
           m == Taken(ms[ch], b, fmt)
           d == Client(b, [ms EXCEPT ![ch] = m], l, TRUE)
<1>1. C!Fmt(c) = fmt /\ C!Chan(c) = ch /\ C!Fmt(d) = fmt /\ C!Chan(d) = ch
  BY DEF C!Fmt, C!Chan, Client
<1>2. C!HeaderLen(c) = C!HEADER_LENGTH[fmt] /\ C!HeaderLen(d) = C!HEADER_LENGTH[fmt]
  BY <1>1 DEF C!HeaderLen
<1>3. C!Msg(d) = m
  <2> [ms EXCEPT ![ch] = m][ch] = m
    OBVIOUS
  <2> QED BY <1>1, Zenon DEF C!Msg, Client
<1>4. C!TakeHeader(c) = d
  <2>1. C!Msg(c) = ms[ch] /\ c.buf = b /\ ms[ch] \in Message
    BY <1>1 DEF C!Msg, Client
  <2>2. [ms[ch] EXCEPT !.len      = IF fmt <= 1 THEN b[3][2] ELSE @,
                       !.type     = IF fmt <= 1 THEN b[4][2] ELSE @,
                       !.endpoint = IF fmt = 0 THEN b[5][2] ELSE @] = m
    <3> PICK x : x = IF fmt <= 1 THEN b[3][2] ELSE ms[ch].len
      OBVIOUS
    <3> PICK y : y = IF fmt <= 1 THEN b[4][2] ELSE ms[ch].type
      OBVIOUS
    <3> PICK z : z = IF fmt = 0 THEN b[5][2] ELSE ms[ch].endpoint
      OBVIOUS
    <3>1. [ms[ch] EXCEPT !.len = x, !.type = y, !.endpoint = z]
            = [type |-> y, len |-> x, timestamp |-> ms[ch].timestamp, endpoint |-> z, buf |-> ms[ch].buf]
      <4> Fields(ms[ch], x, y, z)
        BY <2>1, Messages, MessageChanged, Zenon
      <4> QED BY Zenon DEF Fields
    <3> QED BY <3>1, Zenon DEF Taken
  <2>3. [c EXCEPT !.messages[ch] = m] = d
    <3> ClientFields(b, ms, l, TRUE, ch, m, 0)
      BY ClientChanged, Zenon
    <3> QED BY Zenon DEF ClientFields
  <2> QED BY <1>1, <2>1, <2>2, <2>3, Zenon DEF C!TakeHeader
<1> QED BY <1>1, <1>2, <1>3, <1>4, Zenon DEF HeaderRead

\* A message T with the q bytes behind the header of b; and one that was handled.
Enlarged(T, b, fmt, q) ==
  [type |-> T.type, len |-> T.len,
   timestamp |-> IF fmt = 3 THEN T.timestamp ELSE IF fmt = 0 THEN b[2][2] ELSE b[2][2] + T.timestamp,
   endpoint |-> T.endpoint,
   buf |-> T.buf \o SubSeq(b, C!HEADER_LENGTH[fmt] + 1, C!HEADER_LENGTH[fmt] + q)]

\* The message when it was handled.
Emptied(m) ==
  [type |-> m.type, len |-> m.len, timestamp |-> m.timestamp, endpoint |-> m.endpoint, buf |-> <<>>]

\* What a round makes of a buffer b that begins with a header, when T is the message of
\* its channel with what the header says, and ns the messages with T.
Rounded(b, ns, l, h, fmt, ch, T, q) ==
  LET m    == Enlarged(T, b, fmt, q)
      rest == SubSeq(b, C!HEADER_LENGTH[fmt] + q + 1, Len(b))
  IN  IF T.len = 0 THEN Parsing(b, ns, l, FALSE, h)
      ELSE IF Len(b) < C!HEADER_LENGTH[fmt] + q THEN Parsing(b, ns, l, TRUE, h)
      ELSE IF fmt <= 2 /\ b[2][2] = EXT THEN Parsing(b, ns, l, FALSE, h)
      ELSE IF Len(m.buf) < m.len THEN Parsing(rest, [ns EXCEPT ![ch] = m], l, TRUE, h)
      ELSE IF m.type = "set chunk" /\ m.len < SIZE_LEN THEN Parsing(rest, [ns EXCEPT ![ch] = m], l, FALSE, h)
      ELSE Parsing(rest, [ns EXCEPT ![ch] = Emptied(m)],
                   IF m.type = "set chunk" THEN C!Announced(m) ELSE l, TRUE, Append(h, m))

\* Where the loop ends.
Stays(p) == C!Round(p) = p

\* The loop ends at a closed client, an empty buffer and an incomplete header.
LEMMA RoundEnds ==
  ASSUME NEW b, NEW ms, NEW l, NEW o, NEW h
  PROVE  ~o \/ b = <<>> \/ Len(b) < C!HeaderLen(Client(b, ms, l, o))
           => Stays(Parsing(b, ms, l, o, h))
<1> DEFINE c == Client(b, ms, l, o)
           p == Parsing(b, ms, l, o, h)
<1>1. p.c = c /\ c.buf = b /\ c.open = o
  BY Zenon DEF Parsing, Client
<1> QED BY <1>1, Zenon DEF C!Round, Stays

\* What a record update makes of the parser.
LEMMA ParsingChanged ==
  ASSUME NEW c, NEW h, NEW d
  PROVE  [[c |-> c, handled |-> h] EXCEPT !.c = d] = [c |-> d, handled |-> h]
  OBVIOUS

RoundIs(b, ms, l, h, fmt, ch, T, q) ==
  C!Round(Parsing(b, ms, l, TRUE, h)) = Rounded(b, [ms EXCEPT ![ch] = T], l, h, fmt, ch, T, q)

\* A round on a buffer that holds a whole header.
LEMMA RoundOf ==
  ASSUME NEW b, NEW ms \in [Channels -> Message], NEW l, NEW h,
         NEW fmt \in 0 .. 3, NEW ch \in Channels, b[1] = <<"flags", fmt, ch>>, b # <<>>,
         Len(b) \in Nat, Len(b) >= C!HEADER_LENGTH[fmt],
         NEW T \in Message, T = Taken(ms[ch], b, fmt), T.len >= Len(T.buf),
         NEW q, q = C!Least(T.len - Len(T.buf), l)
  PROVE  RoundIs(b, ms, l, h, fmt, ch, T, q)
<1> DEFINE c == Client(b, ms, l, TRUE)
           p == Parsing(b, ms, l, TRUE, h)
           ns == [ms EXCEPT ![ch] = T]
           d == Client(b, ns, l, TRUE)
           m == Enlarged(T, b, fmt, q)
           rest == SubSeq(b, C!HEADER_LENGTH[fmt] + q + 1, Len(b))
<1>1. /\ C!TakeHeader(c) = d
      /\ C!HeaderLen(c) = C!HEADER_LENGTH[fmt] /\ C!HeaderLen(d) = C!HEADER_LENGTH[fmt]
      /\ C!Fmt(d) = fmt /\ C!Chan(d) = ch /\ C!Msg(d) = T
  <2> HeaderRead(b, ms, l, fmt, ch, T)
    BY HeaderTaken, Zenon
  <2> QED BY Zenon DEF HeaderRead
<1>2. p.c = c /\ p.handled = h /\ c.open = TRUE /\ c.buf = b /\ d.buf = b /\ d.chunk_len = l /\ d.messages = ns
  BY DEF Parsing, Client
<1>3. C!Chunk(d) = q
  BY <1>1, <1>2, Zenon DEF C!Chunk
<1>4. C!Time(d) = IF fmt = 3 THEN T.timestamp ELSE IF fmt = 0 THEN b[2][2] ELSE b[2][2] + T.timestamp
  BY <1>1, <1>2, Zenon DEF C!Time
<1>5. C!Grown(d) = m
  <2> PICK x : x = C!Time(d)
    OBVIOUS
  <2> PICK y : y = T.buf \o SubSeq(b, C!HEADER_LENGTH[fmt] + 1, C!HEADER_LENGTH[fmt] + q)
    OBVIOUS
  <2>1. Fields(T, x, y, 0)
    BY Messages, MessageChanged, Zenon
  <2>2. [T EXCEPT !.timestamp = x, !.buf = y]
          = [type |-> T.type, len |-> T.len, timestamp |-> x, endpoint |-> T.endpoint, buf |-> y]
    BY <2>1, Zenon DEF Fields
  <2>3. C!Grown(d) = [T EXCEPT !.timestamp = x, !.buf = y]
    BY <1>1, <1>2, <1>3, Zenon DEF C!Grown
  <2> QED BY <1>4, <2>2, <2>3, Zenon DEF Enlarged
<1>6. \A w : C!Put(d, w) = Client(rest, [ns EXCEPT ![ch] = w], l, TRUE)
  <2> TAKE w
  <2>1. ClientFields(b, ns, l, TRUE, ch, w, rest)
    BY ClientChanged, Zenon
  <2>2. C!Put(d, w) = [d EXCEPT !.messages[ch] = w, !.buf = rest]
    BY <1>1, <1>2, <1>3, Zenon DEF C!Put
  <2> QED BY <2>1, <2>2, Zenon DEF ClientFields
<1>7. \A x, y, z : C!Refuse(Client(x, y, z, TRUE)) = Client(x, y, z, FALSE)
  <2> TAKE x, y, z
  <2>1. ClientFields(x, y, z, TRUE, ch, 0, 0)
    BY ClientChanged, Zenon
  <2> QED BY <2>1, Zenon DEF ClientFields, C!Refuse
<1>8. \A x, y, z, w : [Client(x, y, z, TRUE) EXCEPT !.chunk_len = w] = Client(x, y, w, TRUE)
  <2> TAKE x, y, z, w
  <2>1. ClientFields(x, y, z, TRUE, ch, 0, w)
    BY ClientChanged, Zenon
  <2> QED BY <2>1, Zenon DEF ClientFields
<1>9. [m EXCEPT !.buf = <<>>] = Emptied(m)
  <2>1. IsMessage(m)
    BY Zenon DEF Enlarged, IsMessage
  <2>2. Fields(m, 0, <<>>, 0)
    BY <2>1, MessageChanged, Zenon
  <2> QED BY <2>2, Zenon DEF Fields, Emptied
<1>10. \A w : [p EXCEPT !.c = w] = [c |-> w, handled |-> h]
  BY ParsingChanged, Zenon DEF Parsing
<1>11. C!Round(p) =
         IF T.len < Len(T.buf) \/ T.len = 0 THEN [p EXCEPT !.c = C!Refuse(d)]
         ELSE IF Len(b) < C!HEADER_LENGTH[fmt] + q THEN [p EXCEPT !.c = d]
         ELSE IF fmt <= 2 /\ b[2][2] = EXT THEN [p EXCEPT !.c = C!Refuse(d)]
         ELSE IF Len(m.buf) < m.len THEN [p EXCEPT !.c = C!Put(d, m)]
         ELSE IF m.type = "set chunk" /\ m.len < SIZE_LEN THEN [p EXCEPT !.c = C!Refuse(C!Put(d, m))]
         ELSE [handled |-> Append(h, m),
               c |-> [C!Put(d, [m EXCEPT !.buf = <<>>]) EXCEPT
                        !.chunk_len = IF m.type = "set chunk" THEN C!Announced(m) ELSE @]]
  <2>1. p.c.open /\ p.c.buf # <<>> /\ ~(Len(p.c.buf) < C!HeaderLen(p.c))
    <3> ~(Len(b) < C!HEADER_LENGTH[fmt])
      BY HeaderLengths
    <3> QED BY <1>1, <1>2, Zenon
  <2> HIDE DEF c, d, m, p, ns
  <2> QED BY <1>1, <1>2, <1>3, <1>5, <2>1, Zenon DEF C!Round
<1>12. /\ [p EXCEPT !.c = C!Refuse(d)] = Parsing(b, ns, l, FALSE, h)
       /\ [p EXCEPT !.c = d] = Parsing(b, ns, l, TRUE, h)
       /\ [p EXCEPT !.c = C!Put(d, m)] = Parsing(rest, [ns EXCEPT ![ch] = m], l, TRUE, h)
       /\ [p EXCEPT !.c = C!Refuse(C!Put(d, m))] = Parsing(rest, [ns EXCEPT ![ch] = m], l, FALSE, h)
  <2> HIDE DEF p, ns, m, rest
  <2>1. C!Refuse(d) = Client(b, ns, l, FALSE)
    BY <1>7, Zenon
  <2>2. C!Put(d, m) = Client(rest, [ns EXCEPT ![ch] = m], l, TRUE)
    BY <1>6, Zenon
  <2>3. C!Refuse(C!Put(d, m)) = Client(rest, [ns EXCEPT ![ch] = m], l, FALSE)
    <3> PICK k : k = [ns EXCEPT ![ch] = m]
      OBVIOUS
    <3> QED BY <1>7, <2>2, Zenon
  <2> QED BY <1>10, <2>1, <2>2, <2>3, Zenon DEF Parsing
<1>13. PICK w : w = IF m.type = "set chunk" THEN C!Announced(m) ELSE l
  OBVIOUS
<1>14. [handled |-> Append(h, m),
        c |-> [C!Put(d, [m EXCEPT !.buf = <<>>]) EXCEPT
                 !.chunk_len = IF m.type = "set chunk" THEN C!Announced(m) ELSE @]]
         = Parsing(rest, [ns EXCEPT ![ch] = Emptied(m)], w, TRUE, Append(h, m))
  <2>1. PICK e : e = Client(rest, [ns EXCEPT ![ch] = Emptied(m)], l, TRUE)
    OBVIOUS
  <2>2. C!Put(d, [m EXCEPT !.buf = <<>>]) = e
    BY <1>6, <1>9, <2>1, Zenon
  <2>3. e.chunk_len = l
    BY <2>1 DEF Client
  <2>4. [e EXCEPT !.chunk_len = IF m.type = "set chunk" THEN C!Announced(m) ELSE @] = [e EXCEPT !.chunk_len = w]
    BY <1>13, <2>3, Zenon
  <2>5. [e EXCEPT !.chunk_len = w] = Client(rest, [ns EXCEPT ![ch] = Emptied(m)], w, TRUE)
    <3> HIDE DEF m, rest, ns
    <3> PICK k : k = [ns EXCEPT ![ch] = Emptied(m)]
      OBVIOUS
    <3>1. e = Client(rest, k, l, TRUE)
      BY <2>1, Zenon
    <3>2. [e EXCEPT !.chunk_len = w] = Client(rest, k, w, TRUE)
      BY <1>8, <3>1, Zenon
    <3> QED BY <3>2, Zenon
  <2>6. \A x, y : [handled |-> x, c |-> y] = [c |-> y, handled |-> x]
    OBVIOUS
  <2> HIDE DEF m, d
  <2> QED BY <2>2, <2>4, <2>5, <2>6, Zenon DEF Parsing
<1>15. ~(T.len < Len(T.buf))
  <2> T.len \in Nat /\ Len(T.buf) \in Nat
    BY LenProperties DEF Message
  <2> QED OBVIOUS
<1> HIDE DEF m, d, p, ns, rest
<1>16. C!Round(p) =
         IF T.len = 0 THEN Parsing(b, ns, l, FALSE, h)
         ELSE IF Len(b) < C!HEADER_LENGTH[fmt] + q THEN Parsing(b, ns, l, TRUE, h)
         ELSE IF fmt <= 2 /\ b[2][2] = EXT THEN Parsing(b, ns, l, FALSE, h)
         ELSE IF Len(m.buf) < m.len THEN Parsing(rest, [ns EXCEPT ![ch] = m], l, TRUE, h)
         ELSE IF m.type = "set chunk" /\ m.len < SIZE_LEN THEN Parsing(rest, [ns EXCEPT ![ch] = m], l, FALSE, h)
         ELSE Parsing(rest, [ns EXCEPT ![ch] = Emptied(m)], w, TRUE, Append(h, m))
  BY <1>11, <1>12, <1>14, <1>15, Zenon
<1> QED BY <1>13, <1>16, Zenon DEF RoundIs, Rounded, p, m, ns, rest
-----------------------------------------------------------------------------
\* The peer: its chunks, cell by cell.

\* What a peer may say.
Kind ==
  [type : {"media", "set chunk"}, len : Nat, size : Nat \ {0}, endpoint : Nat, timestamp : Nat]

\* A message of the peer, as Chunks keeps it.
Said == [kind : Kind, fmt : 0 .. 3, delta : Nat, drifted : BOOLEAN]

\* The header of a chunk, cell by cell.
HeaderSays(s, fmt, ch, m) ==
  /\ s[1] = <<"flags", fmt, ch>>
  /\ fmt <= 2 => s[2][2] = IF fmt = 0 THEN C!Least(m.kind.timestamp, EXT) ELSE m.delta
  /\ fmt <= 1 => s[3][2] = m.kind.len /\ s[4][2] = m.kind.type
  /\ fmt = 0  => s[5][2] = m.kind.endpoint

\* A header whose timestamp does not fit, which is refused, has one cell more.
IsLong(fmt, m) == fmt = 0 /\ m.kind.timestamp >= EXT

HeaderCells(s, fmt, ch, m) ==
  /\ s \in Seq(Cell) /\ Len(s) = C!HEADER_LENGTH[fmt] + (IF IsLong(fmt, m) THEN 1 ELSE 0)
  /\ HeaderSays(s, fmt, ch, m)

\* What the peer writes for a header.
LEMMA HeaderIs ==
  ASSUME C!ChunksAssumption, NEW m \in Said, NEW fmt \in 0 .. 3, NEW ch \in Channels
  PROVE  HeaderCells(C!Header(fmt, ch, m), fmt, ch, m)
<1> PICK t : t = IF fmt = 0 THEN C!Least(m.kind.timestamp, EXT) ELSE m.delta
  OBVIOUS
<1>0. EXT \in Nat /\ m.kind.timestamp \in Nat /\ m.kind.len \in Nat /\ m.kind.endpoint \in Nat
      /\ m.delta \in Nat /\ m.kind.type \in {"media", "set chunk"}
  BY DEF C!ChunksAssumption, Said, Kind
<1>1. t \in Nat
  BY <1>0 DEF C!Least
<1> PICK a : a = <<"flags", fmt, ch>>
  OBVIOUS
<1> PICK b : b = <<"timestamp", t>>
  OBVIOUS
<1> PICK c : c = <<"msg_len", m.kind.len>>
  OBVIOUS
<1> PICK d : d = <<"msg_type", m.kind.type>>
  OBVIOUS
<1> PICK e : e = <<"endpoint", m.kind.endpoint>>
  OBVIOUS
<1> PICK x : x = <<"extended", m.kind.timestamp>>
  OBVIOUS
<1>2. a \in Cell /\ b \in Cell /\ c \in Cell /\ d \in Cell /\ e \in Cell /\ x \in Cell
  BY <1>0, <1>1 DEF Cell
<1> PICK s : s = <<a, b, c, d, e>>
  OBVIOUS
<1>3. s \in Seq(Cell) /\ Len(s) = 5 /\ s[1] = a /\ s[2] = b /\ s[3] = c /\ s[4] = d /\ s[5] = e
  BY <1>2
<1> PICK k \in 1 .. 5 : k = C!HEADER_LENGTH[fmt]
  BY HeaderLengths
<1>4. (fmt = 0 => k = 5) /\ (fmt = 1 => k = 4) /\ (fmt = 2 => k = 2) /\ (fmt = 3 => k = 1)
  BY HeaderLengths
<1> PICK u : u = SubSeq(s, 1, k)
  OBVIOUS
<1>5. u \in Seq(Cell) /\ Len(u) = k /\ \A at \in 1 .. k : u[at] = s[at]
  <2>1. 1 \in 1 .. Len(s) + 1 /\ k \in 1 - 1 .. Len(s) /\ k - 1 + 1 = k /\ \A at \in 1 .. k : 1 + at - 1 = at
    BY <1>3
  <2>2. /\ SubSeq(s, 1, k) \in Seq(Cell) /\ Len(SubSeq(s, 1, k)) = k - 1 + 1
        /\ \A at \in 1 .. k - 1 + 1 : SubSeq(s, 1, k)[at] = s[1 + at - 1]
    BY ONLY <1>3, <2>1, Part
  <2>3. u = SubSeq(s, 1, k)
    OBVIOUS
  <2> QED BY ONLY <2>1, <2>2, <2>3
<1> PICK v : v = IF fmt = 0 /\ m.kind.timestamp >= EXT THEN <<x>> ELSE <<>>
  OBVIOUS
<1>6. v \in Seq(Cell) /\ Len(v) = IF fmt = 0 /\ m.kind.timestamp >= EXT THEN 1 ELSE 0
  BY <1>2
<1>7. C!Header(fmt, ch, m) = u \o v
  BY Zenon DEF C!Header
<1> PICK r : r = u \o v
  OBVIOUS
<1>8. r \in Seq(Cell) /\ Len(r) = Len(u) + Len(v) /\ \A at \in 1 .. Len(u) : r[at] = u[at]
  <2>1. r = u \o v /\ u \in Seq(Cell) /\ v \in Seq(Cell)
    BY <1>5, <1>6
  <2> QED BY ONLY <2>1, Joined
<1>9. \A at \in 1 .. k : r[at] = s[at]
  BY <1>5, <1>8
<1>10. /\ r[1] = a /\ (fmt <= 2 => r[2] = b) /\ (fmt <= 1 => r[3] = c /\ r[4] = d)
       /\ (fmt = 0 => r[5] = e)
  <2>1. /\ 1 \in 1 .. k /\ (fmt <= 2 => 2 \in 1 .. k) /\ (fmt <= 1 => 3 \in 1 .. k /\ 4 \in 1 .. k)
        /\ (fmt = 0 => 5 \in 1 .. k)
    BY <1>4
  <2> QED BY <1>3, <1>9, <2>1, Zenon
<1>11. Len(r) = k + (IF fmt = 0 /\ m.kind.timestamp >= EXT THEN 1 ELSE 0)
  BY <1>5, <1>6, <1>8
<1>12. b[2] = t /\ c[2] = m.kind.len /\ d[2] = m.kind.type /\ e[2] = m.kind.endpoint
  OBVIOUS
<1>13. HeaderCells(r, fmt, ch, m)
  <2>1. HeaderSays(r, fmt, ch, m)
    <3>1. /\ (fmt <= 2 => r[2][2] = t) /\ (fmt <= 1 => r[3][2] = m.kind.len /\ r[4][2] = m.kind.type)
          /\ (fmt = 0 => r[5][2] = m.kind.endpoint)
      BY <1>10, <1>12, Zenon
    <3> QED BY <1>10, <3>1, Zenon DEF HeaderSays
  <2>2. Len(r) = k + (IF IsLong(fmt, m) THEN 1 ELSE 0)
    BY <1>11, Zenon DEF IsLong
  <2> QED BY <1>8, <2>1, <2>2, Zenon DEF HeaderCells
<1> QED BY <1>7, <1>13, Zenon

\* The bytes of a message behind one of its places, as far as another.
IsBytes(y, n, at, j) ==
  /\ y \in Seq(Nat \X Nat) /\ y \in Seq(Cell) /\ Len(y) = j - at
  /\ \A k \in 1 .. j - at : y[k] = <<n, at + k>>

\* C!Bytes is that, also as cells.
LEMMA BytesAre ==
  ASSUME NEW n \in Nat, NEW at \in Nat, NEW j \in Nat, at <= j
  PROVE  IsBytes(C!Bytes(n, at, j), n, at, j)
<1> PICK w \in Nat : w = j - at
  OBVIOUS
<1>1. C!Bytes(n, at, j) = [k \in 1 .. w |-> <<n, at + k>>]
  BY DEF C!Bytes
<1>2. \A k \in 1 .. w : <<n, at + k>> \in Nat \X Nat
  OBVIOUS
<1>4. \A k \in 1 .. w : <<n, at + k>> \in Cell
  BY <1>2, Zenon DEF Cell
<1>5. \A S : (\A k \in 1 .. w : <<n, at + k>> \in S) => [k \in 1 .. w |-> <<n, at + k>>] \in Seq(S)
  OBVIOUS
<1>6. PICK f : f = [k \in 1 .. w |-> <<n, at + k>>]
  OBVIOUS
<1>7. Len(f) = w /\ \A k \in 1 .. w : f[k] = <<n, at + k>>
  BY <1>6
<1>8. f \in Seq(Nat \X Nat) /\ f \in Seq(Cell)
  BY <1>2, <1>4, <1>5, <1>6, Zenon
<1>9. j - at = w
  OBVIOUS
<1>10. IsBytes(f, n, at, j)
  BY <1>7, <1>8, <1>9, Zenon DEF IsBytes
<1> QED BY <1>1, <1>6, <1>10, Zenon

\* There are none before the first.
LEMMA NoBytes == ASSUME NEW n PROVE C!Bytes(n, 0, 0) = <<>>
  BY DEF C!Bytes
-----------------------------------------------------------------------------
\* The chunks that were sent, as a log, and what the server knows at each.

\* The peer between two chunks, with the number of messages that it has sent whole and
\* of cells; and a chunk: bytes of message n behind the first `from`.
State ==
  [under : [Channels -> [msg : Nat, pos : Nat]], speak : Nat \ {0}, count : Nat, place : Nat]

ChunkSent == [n : Nat, from : Nat, fmt : 0 .. 3, ch : Channels]

\* Where the bytes of the chunk end, and its cells.
End(m, a, k) == C!Least(m.kind.len, k.from + a.speak)

Seg(m, a, k) == C!Header(k.fmt, k.ch, m) \o C!Bytes(k.n, k.from, End(m, a, k))

\* The cells of a chunk.
IsSeg(s, m, a, k) ==
  /\ s \in Seq(Cell) /\ End(m, a, k) \in Nat /\ k.from <= End(m, a, k) /\ End(m, a, k) <= m.kind.len
  /\ Len(s) = C!HEADER_LENGTH[k.fmt] + (IF IsLong(k.fmt, m) THEN 1 ELSE 0) + (End(m, a, k) - k.from)
  /\ HeaderSays(s, k.fmt, k.ch, m)
  /\ ~IsLong(k.fmt, m) => \A j \in 1 .. End(m, a, k) - k.from :
                            s[C!HEADER_LENGTH[k.fmt] + j] = <<k.n, k.from + j>>

\* A chunk that may be sent has these cells.
LEMMA SegIs ==
  ASSUME C!ChunksAssumption, NEW m \in Said, NEW a \in State, NEW k \in ChunkSent, k.from <= m.kind.len
  PROVE  IsSeg(Seg(m, a, k), m, a, k)
<1>0. k.from \in Nat /\ a.speak \in Nat /\ m.kind.len \in Nat
  BY DEF State, ChunkSent, Said, Kind
<1> PICK e \in Nat : e = End(m, a, k) /\ k.from <= e /\ e <= m.kind.len
  BY <1>0 DEF End, C!Least
<1>1. k.n \in Nat /\ k.from \in Nat /\ k.fmt \in 0 .. 3 /\ k.ch \in Channels
  BY DEF ChunkSent
<1> PICK n \in Nat, f \in Nat, t \in 0 .. 3, ch \in Channels : n = k.n /\ f = k.from /\ t = k.fmt /\ ch = k.ch
  BY <1>1
<1> PICK u : u = C!Header(t, ch, m)
  OBVIOUS
<1>2. HeaderCells(u, t, ch, m)
  BY HeaderIs, Zenon
<1> PICK v : v = C!Bytes(n, f, e)
  OBVIOUS
<1>3. v \in Seq(Cell) /\ Len(v) = e - f /\ \A j \in 1 .. e - f : v[j] = <<n, f + j>>
  <2>1. n \in Nat /\ f \in Nat /\ e \in Nat /\ f <= e
    OBVIOUS
  <2>2. IsBytes(C!Bytes(n, f, e), n, f, e)
    BY <2>1, BytesAre, Zenon
  <2>3. IsBytes(v, n, f, e)
    BY <2>2, Zenon
  <2> QED BY <2>3, Zenon DEF IsBytes
<1> PICK h \in 1 .. 5 : h = C!HEADER_LENGTH[t]
  BY HeaderLengths
<1>4. (t = 0 => h = 5) /\ (t = 1 => h = 4) /\ (t = 2 => h = 2) /\ (t = 3 => h = 1)
  BY HeaderLengths
<1> PICK x \in 0 .. 1 : x = IF IsLong(t, m) THEN 1 ELSE 0
  OBVIOUS
<1>5. u \in Seq(Cell) /\ Len(u) = h + x /\ HeaderSays(u, t, ch, m)
  BY <1>2, Zenon DEF HeaderCells
<1> PICK s : s = u \o v
  OBVIOUS
<1>6. /\ s \in Seq(Cell) /\ Len(s) = Len(u) + Len(v)
      /\ (\A at \in 1 .. Len(u) : s[at] = u[at]) /\ \A at \in 1 .. Len(v) : s[Len(u) + at] = v[at]
  <2>1. s = u \o v /\ u \in Seq(Cell) /\ v \in Seq(Cell)
    BY <1>3, <1>5
  <2> QED BY ONLY <2>1, Joined
<1>7. Len(s) = h + x + (e - f)
  BY <1>3, <1>5, <1>6
<1>8. HeaderSays(s, t, ch, m)
  <2>1. /\ 1 \in 1 .. h + x /\ (t <= 2 => 2 \in 1 .. h + x) /\ (t <= 1 => 3 \in 1 .. h + x /\ 4 \in 1 .. h + x)
        /\ (t = 0 => 5 \in 1 .. h + x)
    BY <1>4
  <2>2. /\ s[1] = u[1] /\ (t <= 2 => s[2] = u[2]) /\ (t <= 1 => s[3] = u[3] /\ s[4] = u[4])
        /\ (t = 0 => s[5] = u[5])
    BY <1>5, <1>6, <2>1, Zenon
  <2> QED BY <1>5, <2>2, Zenon DEF HeaderSays
<1>9. ~IsLong(t, m) => \A j \in 1 .. e - f : s[h + j] = <<n, f + j>>
  <2> SUFFICES ASSUME ~IsLong(t, m), NEW j \in 1 .. e - f PROVE s[h + j] = <<n, f + j>>
    OBVIOUS
  <2>1. Len(u) = h
    BY <1>5
  <2>2. j \in 1 .. Len(v)
    BY <1>3
  <2>3. s[Len(u) + j] = v[j]
    BY <1>6, <2>2, Zenon
  <2> QED BY <1>3, <2>1, <2>3, Zenon
<1>10. Seg(m, a, k) = s
  BY Zenon DEF Seg
<1> QED BY <1>6, <1>7, <1>8, <1>9, <1>10, Zenon DEF IsSeg

\* A message of a channel comes behind another one of that channel, with a short header.
Succeeds(m, old) ==
  /\ m.kind.endpoint = old.kind.endpoint
  /\ m.fmt >= 2 => m.kind.type = old.kind.type /\ m.kind.len = old.kind.len
  /\ m.fmt # 3 => m.delta < EXT
  /\ ~m.drifted => ~old.drifted
                   /\ m.kind.timestamp = old.kind.timestamp + (IF m.fmt = 3 THEN 0 ELSE m.delta)

\* The chunk k, sent in state a: of a message that began before, the first one of a
\* channel, or one behind another message.
Proceeds(m, a, k) ==
  k.from < m.kind.len /\ k.fmt = 3 /\ a.under[k.ch].msg = k.n /\ a.under[k.ch].pos = k.from

Opens(ms, m, a, k) ==
  LET u == a.under[k.ch] IN
  /\ k.from = 0 /\ m.fmt = k.fmt
  /\ \/ u.msg = 0 /\ k.fmt = 0
     \/ /\ u.msg \in 1 .. Len(ms) /\ u.pos = ms[u.msg].kind.len
        /\ k.fmt # 0 => Succeeds(m, ms[u.msg])

\* Chunk k takes the peer from a to b.
Step(ms, sp, a, k, b) ==
  LET m  == ms[k.n]
      to == End(m, a, k)
  IN  /\ k.n \in 1 .. Len(ms) /\ (Proceeds(m, a, k) \/ Opens(ms, m, a, k))
      /\ b.under = [a.under EXCEPT ![k.ch] = [msg |-> k.n, pos |-> to]]
      /\ b.speak = IF to = m.kind.len /\ m.kind.type = "set chunk" THEN m.kind.size ELSE a.speak
      /\ b.count = IF to = m.kind.len THEN a.count + 1 ELSE a.count
      /\ to = m.kind.len => b.count \in 1 .. Len(sp) /\ sp[b.count] = k.n
      /\ b.place = a.place + Len(Seg(m, a, k))

\* What the server knows of a channel, and of all when it has taken the chunks up to
\* state a.
KnowsOf(ms, u, y) ==
  LET k == ms[u.msg].kind IN
  IF u.msg = 0 THEN y = C!RTMP_Message
  ELSE /\ u.msg \in 1 .. Len(ms) /\ u.pos <= k.len
       /\ y.type = k.type /\ y.len = k.len /\ y.endpoint = k.endpoint
       /\ y.buf = IF u.pos = k.len THEN <<>> ELSE C!Bytes(u.msg, 0, u.pos)
       /\ ~ms[u.msg].drifted => y.timestamp = k.timestamp

Knows(ms, a, M) == \A ch \in Channels : KnowsOf(ms, a.under[ch], M[ch])

\* The message of the next chunk when its header is taken.
Due(m, old) ==
  [type |-> m.kind.type, len |-> m.kind.len, timestamp |-> old.timestamp,
   endpoint |-> m.kind.endpoint, buf |-> old.buf]

\* The time that a header says.
TimeOf(T, b, fmt) == IF fmt = 3 THEN T.timestamp ELSE IF fmt = 0 THEN b[2][2] ELSE b[2][2] + T.timestamp

\* What a header changes in the message of its channel: nothing but what belongs to the
\* next chunk, and the second time nothing at all.
IsDue(ms, a, k, M, b) ==
  LET m == ms[k.n]
      D == Due(m, M[k.ch])
  IN  /\ D \in Message /\ D.buf = C!Bytes(k.n, 0, k.from) /\ Len(D.buf) = k.from
      /\ Taken(M[k.ch], b, k.fmt) = D /\ Taken(D, b, k.fmt) = D
      /\ k.fmt <= 2 => (b[2][2] = EXT <=> IsLong(k.fmt, m))
      /\ TimeOf(D, b, k.fmt) \in Nat
      /\ ~m.drifted /\ ~IsLong(k.fmt, m) => TimeOf(D, b, k.fmt) = m.kind.timestamp

\* A server that knows what came before makes the message that is due of the header.
LEMMA DueIs ==
  ASSUME C!ChunksAssumption, NEW ms \in Seq(Said), NEW sp, NEW a \in State, NEW k \in ChunkSent, NEW z,
         Step(ms, sp, a, k, z), NEW M \in [Channels -> Message], Knows(ms, a, M),
         NEW b, HeaderSays(b, k.fmt, k.ch, ms[k.n])
  PROVE  IsDue(ms, a, k, M, b)
<1> PICK n \in Nat, f \in Nat, t \in 0 .. 3, ch \in Channels : n = k.n /\ f = k.from /\ t = k.fmt /\ ch = k.ch
  BY DEF ChunkSent
<1>0. n \in 1 .. Len(ms)
  BY Zenon DEF Step
<1>00. n # 0
  <2> n >= 1
    BY <1>0
  <2> QED OBVIOUS
<1> PICK m \in Said : m = ms[n]
  BY <1>0, ElementOfSeq
<1> PICK old \in Message : old = M[ch]
  OBVIOUS
<1> PICK D : D = Due(m, old)
  OBVIOUS
<1>1. /\ m.kind.len \in Nat /\ m.kind.endpoint \in Nat /\ m.kind.timestamp \in Nat /\ m.delta \in Nat
      /\ m.kind.type \in {"media", "set chunk"} /\ EXT \in Nat /\ m.drifted \in BOOLEAN /\ m.fmt \in 0 .. 3
  BY DEF Said, Kind, C!ChunksAssumption
<1>2. old.timestamp \in Nat /\ old.buf \in Seq(Nat \X Nat)
  BY DEF Message
<1>3. D.type = m.kind.type /\ D.len = m.kind.len /\ D.endpoint = m.kind.endpoint
      /\ D.timestamp = old.timestamp /\ D.buf = old.buf
  BY DEF Due
<1>4. D \in Message
  BY <1>1, <1>2 DEF Due, Message
<1> PICK u : u = a.under[ch]
  OBVIOUS
<1>5. u.msg \in Nat /\ u.pos \in Nat
  BY DEF State
<1>6. Proceeds(m, a, k) \/ Opens(ms, m, a, k)
  BY Zenon DEF Step
<1>7. HeaderSays(b, t, ch, m)
  BY Zenon
<1>8. /\ IF u.msg = 0 THEN old = C!RTMP_Message
         ELSE /\ u.msg \in 1 .. Len(ms)
              /\ old.type = ms[u.msg].kind.type /\ old.len = ms[u.msg].kind.len
              /\ old.endpoint = ms[u.msg].kind.endpoint
              /\ old.buf = IF u.pos = ms[u.msg].kind.len THEN <<>> ELSE C!Bytes(u.msg, 0, u.pos)
              /\ ~ms[u.msg].drifted => old.timestamp = ms[u.msg].kind.timestamp
  BY Zenon DEF Knows, KnowsOf
\* The message that began before.
<1>9. ASSUME Proceeds(m, a, k)
      PROVE  /\ t = 3 /\ D = old /\ D.buf = C!Bytes(n, 0, f) /\ ~IsLong(t, m)
             /\ ~m.drifted => D.timestamp = m.kind.timestamp
  <2>1. t = 3 /\ u.msg = n /\ u.pos = f /\ f < m.kind.len
    BY <1>9, Zenon DEF Proceeds
  <2>2. u.msg # 0 /\ u.pos # m.kind.len
    <3>0. f \in Nat /\ m.kind.len \in Nat /\ f < m.kind.len
      BY <1>1, <2>1, Zenon
    <3>1. f # m.kind.len
      BY ONLY <3>0
    <3> QED BY <1>00, <2>1, <3>1, Zenon
  <2>3. /\ old.type = m.kind.type /\ old.len = m.kind.len /\ old.endpoint = m.kind.endpoint
        /\ old.buf = C!Bytes(n, 0, f) /\ (~m.drifted => old.timestamp = m.kind.timestamp)
    BY <1>8, <2>1, <2>2, Zenon
  <2>4. D = old
    BY <2>3 DEF Due, Message
  <2> QED BY <2>1, <2>3, <2>4 DEF IsLong
\* A message that begins.
<1>10. ASSUME Opens(ms, m, a, k)
       PROVE  /\ f = 0 /\ D.buf = C!Bytes(n, 0, f) /\ m.fmt = t
              /\ t # 0 => /\ u.msg \in 1 .. Len(ms) /\ Succeeds(m, ms[u.msg])
                          /\ old.type = ms[u.msg].kind.type /\ old.len = ms[u.msg].kind.len
                          /\ old.endpoint = ms[u.msg].kind.endpoint
                          /\ ~ms[u.msg].drifted => old.timestamp = ms[u.msg].kind.timestamp
  <2>1. /\ f = 0 /\ m.fmt = t
        /\ \/ u.msg = 0 /\ t = 0
           \/ /\ u.msg \in 1 .. Len(ms) /\ u.pos = ms[u.msg].kind.len
              /\ t # 0 => Succeeds(m, ms[u.msg])
    BY <1>10, Zenon DEF Opens
  <2>2. C!Bytes(n, 0, 0) = <<>>
    BY DEF C!Bytes
  <2>3. u.msg \in 1 .. Len(ms) => u.msg # 0
    BY <1>5
  <2>4. old.buf = <<>>
    <3>1. CASE u.msg = 0
      <4> old = C!RTMP_Message
        BY <1>8, <3>1, Zenon
      <4> QED BY DEF C!RTMP_Message
    <3>2. CASE u.msg # 0
      BY <1>8, <2>1, <3>2, Zenon
    <3> QED BY <3>1, <3>2
  <2> QED BY <1>3, <1>8, <2>1, <2>2, <2>3, <2>4, Zenon
\* What the header says.
<1>11. /\ (t <= 2 => b[2][2] = IF t = 0 THEN C!Least(m.kind.timestamp, EXT) ELSE m.delta)
       /\ (t <= 1 => b[3][2] = m.kind.len /\ b[4][2] = m.kind.type)
       /\ (t = 0 => b[5][2] = m.kind.endpoint)
  BY <1>7, Zenon DEF HeaderSays
<1>12. Taken(old, b, t) = D
  <2>1. (t > 1 => old.type = m.kind.type /\ old.len = m.kind.len) /\ (t # 0 => old.endpoint = m.kind.endpoint)
    <3>1. CASE Proceeds(m, a, k)
      BY <1>3, <1>9, <3>1
    <3>2. CASE Opens(ms, m, a, k)
      BY <1>10, <3>2 DEF Succeeds
    <3> QED BY <1>6, <3>1, <3>2
  <2>2. /\ (IF t <= 1 THEN b[4][2] ELSE old.type) = m.kind.type
        /\ (IF t <= 1 THEN b[3][2] ELSE old.len) = m.kind.len
        /\ (IF t = 0 THEN b[5][2] ELSE old.endpoint) = m.kind.endpoint
    BY <1>11, <2>1
  <2> QED BY <2>2, Zenon DEF Taken, Due
<1>13. Taken(D, b, t) = D
  <2>1. /\ (IF t <= 1 THEN b[4][2] ELSE D.type) = m.kind.type
        /\ (IF t <= 1 THEN b[3][2] ELSE D.len) = m.kind.len
        /\ (IF t = 0 THEN b[5][2] ELSE D.endpoint) = m.kind.endpoint
    BY <1>3, <1>11
  <2> QED BY <1>3, <2>1, Zenon DEF Taken, Due
<1>14. t <= 2 => (b[2][2] = EXT <=> IsLong(t, m))
  <2> SUFFICES ASSUME t <= 2 PROVE b[2][2] = EXT <=> IsLong(t, m)
    OBVIOUS
  <2>1. CASE t = 0
    <3>1. b[2][2] = IF m.kind.timestamp < EXT THEN m.kind.timestamp ELSE EXT
      BY <1>11, <2>1 DEF C!Least
    <3>2. m.kind.timestamp \in Nat /\ EXT \in Nat
      BY <1>1
    <3> QED BY ONLY <2>1, <3>1, <3>2 DEF IsLong
  <2>2. CASE t # 0
    <3>1. b[2][2] = m.delta
      BY <1>11, <2>2
    <3>2. Opens(ms, m, a, k)
      BY <1>6, <1>9
    <3>3. m.delta < EXT
      BY <1>10, <2>2, <3>2 DEF Succeeds
    <3>4. m.delta \in Nat /\ EXT \in Nat
      BY ONLY <1>1
    <3>5. b[2][2] # EXT
      BY ONLY <3>1, <3>3, <3>4
    <3> QED BY <2>2, <3>5, Zenon DEF IsLong
  <2> QED BY <2>1, <2>2
<1>15. TimeOf(D, b, t) \in Nat
  <2>1. t <= 2 => b[2][2] \in Nat
    <3>1. C!Least(m.kind.timestamp, EXT) \in Nat
      BY ONLY <1>1 DEF C!Least
    <3>2. m.delta \in Nat
      BY ONLY <1>1
    <3> QED BY <1>11, <3>1, <3>2, Zenon
  <2> QED BY <1>2, <1>3, <2>1 DEF TimeOf
<1>16. ~m.drifted /\ ~IsLong(t, m) => TimeOf(D, b, t) = m.kind.timestamp
  <2> SUFFICES ASSUME ~m.drifted, ~IsLong(t, m) PROVE TimeOf(D, b, t) = m.kind.timestamp
    OBVIOUS
  <2>1. CASE Proceeds(m, a, k)
    BY <1>9, <2>1 DEF TimeOf
  <2>2. CASE Opens(ms, m, a, k) /\ t = 0
    <3>1. m.kind.timestamp \in Nat /\ EXT \in Nat /\ ~(m.kind.timestamp >= EXT)
      BY <1>1, <2>2 DEF IsLong
    <3>2. b[2][2] = C!Least(m.kind.timestamp, EXT)
      BY <1>11, <2>2
    <3>3. C!Least(m.kind.timestamp, EXT) = m.kind.timestamp
      BY ONLY <3>1 DEF C!Least
    <3>4. t = 0 /\ t # 3
      BY <2>2
    <3> QED BY <3>2, <3>3, <3>4, Zenon DEF TimeOf
  <2>3. CASE Opens(ms, m, a, k) /\ t # 0
    <3>1. /\ m.fmt = t /\ Succeeds(m, ms[u.msg]) /\ u.msg \in 1 .. Len(ms)
          /\ (~ms[u.msg].drifted => old.timestamp = ms[u.msg].kind.timestamp)
      BY <1>10, <2>3
    <3>2. ~ms[u.msg].drifted /\ m.kind.timestamp = ms[u.msg].kind.timestamp + (IF m.fmt = 3 THEN 0 ELSE m.delta)
      BY <3>1 DEF Succeeds
    <3>3. D.timestamp = ms[u.msg].kind.timestamp
      BY <1>3, <3>1, <3>2
    <3>4. m.kind.timestamp = D.timestamp + (IF t = 3 THEN 0 ELSE m.delta)
      BY <3>1, <3>2, <3>3
    <3>5. t <= 2 /\ t # 0 => b[2][2] = m.delta
      BY <1>11
    <3>6. D.timestamp \in Nat
      BY <1>2, <1>3
    <3>7. t # 0 /\ t \in 0 .. 3 /\ m.delta \in Nat
      BY <1>1, <2>3
    <3>8. CASE t = 3
      <4> m.kind.timestamp = D.timestamp
        BY ONLY <3>4, <3>6, <3>8
      <4> QED BY <3>8, Zenon DEF TimeOf
    <3>9. CASE t # 3
      <4>1. b[2][2] = m.delta
        BY ONLY <3>5, <3>7, <3>9
      <4>2. m.kind.timestamp = b[2][2] + D.timestamp
        BY ONLY <3>4, <3>6, <3>7, <3>9, <4>1
      <4> QED BY <3>7, <3>9, <4>2, Zenon DEF TimeOf
    <3> QED BY <3>8, <3>9
  <2> QED BY <1>6, <2>1, <2>2, <2>3
<1>17. D.buf = C!Bytes(n, 0, f) /\ Len(D.buf) = f
  <2>1. D.buf = C!Bytes(n, 0, f)
    BY <1>6, <1>9, <1>10
  <2>2. Len(C!Bytes(n, 0, f)) = f - 0
    <3> 0 \in Nat /\ 0 <= f
      OBVIOUS
    <3>1. IsBytes(C!Bytes(n, 0, f), n, 0, f)
      BY BytesAre, Zenon
    <3> QED BY <3>1, Zenon DEF IsBytes
  <2>3. f - 0 = f
    OBVIOUS
  <2> QED BY <2>1, <2>2, <2>3, Zenon
<1> QED BY <1>4, <1>12, <1>13, <1>14, <1>15, <1>16, <1>17, Zenon DEF IsDue

\* The chunks that the peer has sent, and its states before and after each.
Log(ms, sp, log, cs) ==
  /\ log \in Seq(State) /\ cs \in Seq(ChunkSent) /\ Len(log) = Len(cs) + 1
  /\ \A at \in 1 .. Len(cs) : Step(ms, sp, log[at], cs[at], log[at + 1])
  /\ \A at, j \in 1 .. Len(log) : at <= j => log[at].place <= log[j].place
  /\ \A at \in 1 .. Len(log) : log[at].count <= Len(sp)

\* Chunk number `at` of a log.
SegOf(ms, log, cs, at) == Seg(ms[cs[at].n], log[at], cs[at])

\* The cells s are those of the chunks from r on.
OnWire(ms, log, cs, r, s) ==
  /\ s \in Seq(Cell) /\ r \in 1 .. Len(log) /\ Len(s) = log[Len(log)].place - log[r].place
  /\ \A at \in r .. Len(cs) : \A j \in 1 .. Len(SegOf(ms, log, cs, at)) :
       s[(log[at].place - log[r].place) + j] = SegOf(ms, log, cs, at)[j]

\* The first of these chunks.
IsFirst(ms, sp, log, cs, r, s, g) ==
  /\ r \in 1 .. Len(cs) /\ cs[r] \in ChunkSent /\ log[r] \in State /\ log[r + 1] \in State
  /\ ms[cs[r].n] \in Said /\ Step(ms, sp, log[r], cs[r], log[r + 1])
  /\ g = Len(SegOf(ms, log, cs, r)) /\ g \in Nat /\ g <= Len(s)
  /\ log[r + 1].place = log[r].place + g
  /\ IsSeg(SegOf(ms, log, cs, r), ms[cs[r].n], log[r], cs[r])
  /\ \A j \in 1 .. g : s[j] = SegOf(ms, log, cs, r)[j]

\* The entries of a log.
LEMMA LogEntries ==
  ASSUME NEW ms, NEW sp, NEW log, NEW cs, Log(ms, sp, log, cs)
  PROVE  /\ Len(cs) \in Nat /\ Len(log) = Len(cs) + 1
         /\ (\A at \in 1 .. Len(log) : log[at] \in State /\ log[at].place \in Nat /\ log[at].count \in Nat)
         /\ \A at \in 1 .. Len(cs) : cs[at] \in ChunkSent
<1>1. log \in Seq(State) /\ cs \in Seq(ChunkSent) /\ Len(log) = Len(cs) + 1
  BY Zenon DEF Log
<1>2. (\A at \in 1 .. Len(log) : log[at] \in State) /\ \A at \in 1 .. Len(cs) : cs[at] \in ChunkSent
  BY <1>1, ElementOfSeq
<1>3. Len(cs) \in Nat
  BY <1>1, LenProperties
<1>4. \A a \in State : a.place \in Nat /\ a.count \in Nat
  BY DEF State
<1> QED BY <1>1, <1>2, <1>3, <1>4, Zenon

\* Where the wire begins with a chunk that is not the last, that chunk is whole.
LEMMA FirstIs ==
  ASSUME C!ChunksAssumption, NEW ms \in Seq(Said), NEW sp, NEW log, NEW cs, Log(ms, sp, log, cs),
         NEW r \in 1 .. Len(cs), NEW s, OnWire(ms, log, cs, r, s)
  PROVE  IsFirst(ms, sp, log, cs, r, s, Len(SegOf(ms, log, cs, r)))
<1> PICK N \in Nat : N = Len(cs)
  BY LogEntries
<1>1. Len(log) = N + 1 /\ r \in 1 .. N /\ r \in 1 .. Len(log) /\ r + 1 \in 1 .. Len(log) /\ r \in r .. Len(cs)
      /\ N + 1 \in 1 .. Len(log) /\ r + 1 <= N + 1
  BY LogEntries
<1> PICK k \in ChunkSent : k = cs[r]
  BY LogEntries
<1> PICK a \in State : a = log[r]
  BY <1>1, LogEntries
<1> PICK z \in State : z = log[r + 1]
  BY <1>1, LogEntries
<1> PICK e \in State : e = log[N + 1]
  BY <1>1, LogEntries
<1>2. Step(ms, sp, a, k, z)
  BY <1>1, Zenon DEF Log
<1>3. k.n \in 1 .. Len(ms)
  BY <1>2, Zenon DEF Step
<1> PICK m \in Said : m = ms[k.n]
  BY <1>3, ElementOfSeq
<1> PICK x : x = Seg(m, a, k)
  OBVIOUS
<1>4. SegOf(ms, log, cs, r) = x
  BY Zenon DEF SegOf
<1>5. k.from <= m.kind.len
  <2>1. Proceeds(m, a, k) \/ Opens(ms, m, a, k)
    BY <1>2, Zenon DEF Step
  <2>2. m.kind.len \in Nat /\ k.from \in Nat
    BY DEF Said, Kind, ChunkSent
  <2>3. k.from = 0 \/ k.from < m.kind.len
    BY <2>1, Zenon DEF Proceeds, Opens
  <2> QED BY ONLY <2>2, <2>3
<1>6. IsSeg(x, m, a, k)
  BY <1>5, SegIs, Zenon
<1> PICK g : g = Len(x)
  OBVIOUS
<1>7. g \in Nat
  <2> x \in Seq(Cell)
    BY <1>6, Zenon DEF IsSeg
  <2> QED BY LenProperties
<1>8. z.place = a.place + g
  BY <1>2, Zenon DEF Step
<1>9. z.place <= e.place
  <2> \A at, j \in 1 .. Len(log) : at <= j => log[at].place <= log[j].place
    BY Zenon DEF Log
  <2> QED BY <1>1
<1>10. Len(s) = e.place - a.place
  BY <1>1, Zenon DEF OnWire
<1>11. a.place \in Nat /\ z.place \in Nat /\ e.place \in Nat
  BY DEF State
<1>12. g <= Len(s)
  BY ONLY <1>7, <1>8, <1>9, <1>10, <1>11
<1>13. \A j \in 1 .. g : s[j] = x[j]
  <2> TAKE j \in 1 .. g
  <2>1. s[(a.place - a.place) + j] = x[j]
    BY <1>1, <1>4, Zenon DEF OnWire
  <2>2. (a.place - a.place) + j = j
    BY <1>7, <1>11
  <2> QED BY <2>1, <2>2, Zenon
<1> QED BY <1>2, <1>4, <1>6, <1>7, <1>8, <1>12, <1>13, Zenon DEF IsFirst

\* t is s without its first g cells.
Behind(t, s, g) == t \in Seq(Cell) /\ Len(t) = Len(s) - g /\ \A at \in 1 .. Len(t) : t[at] = s[g + at]

\* What is left on the wire when the first chunk is taken.
LEMMA Advanced ==
  ASSUME NEW ms, NEW sp, NEW log, NEW cs, Log(ms, sp, log, cs),
         NEW r \in 1 .. Len(cs), NEW s, OnWire(ms, log, cs, r, s), NEW g \in Nat,
         IsFirst(ms, sp, log, cs, r, s, g),
         NEW t, Behind(t, s, g)
  PROVE  OnWire(ms, log, cs, r + 1, t)
<1>0. t \in Seq(Cell) /\ Len(t) = Len(s) - g /\ \A at \in 1 .. Len(t) : t[at] = s[g + at]
  BY Zenon DEF Behind
<1> PICK N \in Nat : N = Len(cs)
  BY LogEntries
<1>1. Len(log) = N + 1 /\ r \in 1 .. N /\ r + 1 \in 1 .. Len(log) /\ r \in Nat
      /\ N + 1 \in 1 .. Len(log) /\ r + 1 <= N + 1
  BY LogEntries
<1> PICK p \in Nat : p = log[r].place
  BY <1>1, LogEntries
<1> PICK z \in Nat : z = log[r + 1].place
  BY <1>1, LogEntries
<1> PICK e \in Nat : e = log[N + 1].place
  BY <1>1, LogEntries
<1>2. z = p + g
  BY Zenon DEF IsFirst
<1>3. Len(s) = e - p
  BY <1>1, Zenon DEF OnWire
<1>4. Len(t) = e - z
  BY ONLY <1>0, <1>2, <1>3, p \in Nat, g \in Nat, e \in Nat
<1>5. ASSUME NEW at \in r + 1 .. N, NEW j \in 1 .. Len(SegOf(ms, log, cs, at))
      PROVE  t[(log[at].place - z) + j] = SegOf(ms, log, cs, at)[j]
  <2>1. /\ at \in 1 .. N /\ at \in r .. N /\ at \in 1 .. Len(log) /\ at + 1 \in 1 .. Len(log)
        /\ r + 1 <= at /\ at + 1 <= N + 1
    BY <1>1
  <2> PICK q \in Nat : q = log[at].place
    BY <2>1, LogEntries
  <2> PICK v \in Nat : v = log[at + 1].place
    BY <2>1, LogEntries
  <2> PICK x : x = SegOf(ms, log, cs, at)
    OBVIOUS
  <2>2. v = q + Len(x)
    <3> Step(ms, sp, log[at], cs[at], log[at + 1])
      BY <2>1, Zenon DEF Log
    <3> QED BY Zenon DEF Step, SegOf
  <2>3. z <= q /\ v <= e
    <3> \A k, l \in 1 .. Len(log) : k <= l => log[k].place <= log[l].place
      BY Zenon DEF Log
    <3> QED BY <1>1, <2>1
  <2>4. s[(q - p) + j] = x[j]
    BY <2>1, Zenon DEF OnWire
  <2>5. j \in 1 .. Len(x)
    OBVIOUS
  <2>6. (q - z) + j \in 1 .. Len(t) /\ g + ((q - z) + j) = (q - p) + j
    BY ONLY <1>2, <1>4, <2>2, <2>3, <2>5, p \in Nat, z \in Nat, g \in Nat, e \in Nat, q \in Nat, v \in Nat
  <2> QED BY <1>0, <2>4, <2>6, Zenon
<1> QED BY <1>0, <1>1, <1>4, <1>5, Zenon DEF OnWire

\* What the server knows when it has taken one chunk more.
IsNext(m, k, e, x) ==
  /\ x \in Message /\ x.type = m.kind.type /\ x.len = m.kind.len /\ x.endpoint = m.kind.endpoint
  /\ e <= m.kind.len /\ x.buf = IF e = m.kind.len THEN <<>> ELSE C!Bytes(k.n, 0, e)
  /\ ~m.drifted => x.timestamp = m.kind.timestamp

KnowsAfter(ms, z, R) == R \in [Channels -> Message] /\ Knows(ms, z, R)

\* It then knows what it must at the next entry of the log.
LEMMA KnowsNext ==
  ASSUME NEW ms, NEW sp, NEW a \in State, NEW k \in ChunkSent, NEW z, Step(ms, sp, a, k, z),
         NEW M \in [Channels -> Message], Knows(ms, a, M),
         NEW m, m = ms[k.n], NEW e, e = End(m, a, k), NEW x, IsNext(m, k, e, x)
  PROVE  KnowsAfter(ms, z, [M EXCEPT ![k.ch] = x])
<1> PICK n \in Nat, c \in Channels : n = k.n /\ c = k.ch
  BY DEF ChunkSent
<1>0. /\ x \in Message /\ x.type = m.kind.type /\ x.len = m.kind.len /\ x.endpoint = m.kind.endpoint
      /\ e <= m.kind.len /\ x.buf = (IF e = m.kind.len THEN <<>> ELSE C!Bytes(k.n, 0, e))
      /\ (~m.drifted => x.timestamp = m.kind.timestamp)
  BY Zenon DEF IsNext
<1>1. /\ n \in 1 .. Len(ms) /\ z.under = [a.under EXCEPT ![c] = [msg |-> n, pos |-> e]]
  BY Zenon DEF Step
<1>2. n # 0
  <2> n >= 1
    BY <1>1
  <2> QED OBVIOUS
<1>3. a.under \in [Channels -> [msg : Nat, pos : Nat]]
  BY DEF State
<1> PICK N : N = [M EXCEPT ![c] = x]
  OBVIOUS
<1>4. N \in [Channels -> Message] /\ N[c] = x /\ \A d \in Channels : d # c => N[d] = M[d]
  BY <1>0
<1>5. z.under[c] = [msg |-> n, pos |-> e] /\ \A d \in Channels : d # c => z.under[d] = a.under[d]
  BY <1>1, <1>3
<1>6. z.under[c].msg = n /\ z.under[c].pos = e
  BY <1>5
<1>7. ASSUME NEW d \in Channels PROVE KnowsOf(ms, z.under[d], N[d])
  <2>1. CASE d = c
    <3> PICK u : u = z.under[c]
      OBVIOUS
    <3>1. u.msg = n /\ u.pos = e /\ N[c] = x /\ n = k.n /\ ms[n] = m /\ ms[n].kind = m.kind
      BY <1>4, <1>6, Zenon
    <3>2. KnowsOf(ms, u, x)
      <4>1. /\ x.type = ms[n].kind.type /\ x.len = ms[n].kind.len /\ x.endpoint = ms[n].kind.endpoint
            /\ e <= ms[n].kind.len /\ x.buf = (IF e = ms[n].kind.len THEN <<>> ELSE C!Bytes(n, 0, e))
            /\ ~ms[n].drifted => x.timestamp = ms[n].kind.timestamp
        BY <1>0, <3>1, Zenon
      <4>2. u.msg = n /\ u.pos = e /\ n # 0 /\ n \in 1 .. Len(ms)
        BY <1>1, <1>2, <3>1, Zenon
      <4> QED BY ONLY <4>1, <4>2, Zenon DEF KnowsOf
    <3>3. z.under[d] = u /\ N[d] = x
      BY <2>1, <3>1, Zenon
    <3> QED BY ONLY <3>2, <3>3, Zenon
  <2>2. CASE d # c
    <3>1. z.under[d] = a.under[d] /\ N[d] = M[d]
      BY <1>4, <1>5, <2>2, Zenon
    <3>2. KnowsOf(ms, a.under[d], M[d])
      BY Zenon DEF Knows
    <3> QED BY <3>1, <3>2, Zenon
  <2> QED BY <2>1, <2>2
<1>8. Knows(ms, z, N)
  BY <1>7, Zenon DEF Knows
<1> QED BY <1>4, <1>8, Zenon DEF KnowsAfter

\* A message that a chunk made longer.
IsEnlarged(m, k, e, x) ==
  /\ x \in Message /\ x.type = m.kind.type /\ x.len = m.kind.len /\ x.endpoint = m.kind.endpoint
  /\ x.buf = C!Bytes(k.n, 0, e) /\ Len(x.buf) = e /\ (e > 0 => x.buf[1] = <<k.n, 1>>)
  /\ ~m.drifted => x.timestamp = m.kind.timestamp

\* What belongs to the chunk, and the next buffer.
Split(b, k, e, u, rest) ==
  /\ u \in Seq(Nat \X Nat) /\ Len(u) = e - k.from
  /\ (\A j \in 1 .. e - k.from : u[j] = <<k.n, k.from + j>>)
  /\ rest \in Seq(Cell) /\ Len(rest) = Len(b) - (C!HEADER_LENGTH[k.fmt] + (e - k.from))
  /\ \A at \in 1 .. Len(rest) : rest[at] = b[C!HEADER_LENGTH[k.fmt] + (e - k.from) + at]

\* The parser cuts the buffer there.
LEMMA SplitIs ==
  ASSUME NEW b \in Seq(Cell), NEW k \in ChunkSent, NEW e \in Nat, k.from <= e,
         NEW q, q = e - k.from, NEW H, H = C!HEADER_LENGTH[k.fmt], Len(b) >= H + q,
         \A j \in 1 .. q : b[H + j] = <<k.n, k.from + j>>
  PROVE  Split(b, k, e, SubSeq(b, H + 1, H + q), SubSeq(b, H + q + 1, Len(b)))
<1> PICK n \in Nat, f \in Nat : n = k.n /\ f = k.from
  BY DEF ChunkSent
<1>1. q \in Nat /\ H \in Nat /\ Len(b) \in Nat /\ k.fmt \in 0 .. 3
  <2>1. k.fmt \in 0 .. 3
    BY DEF ChunkSent
  <2>2. H \in 1 .. 5
    BY <2>1, HeaderLengths, Zenon
  <2>3. q \in Nat
    BY ONLY q = e - k.from, f = k.from, f \in Nat, e \in Nat, k.from <= e
  <2>4. H \in Nat
    BY ONLY <2>2
  <2>5. Len(b) \in Nat
    BY LenProperties
  <2> QED BY <2>1, <2>3, <2>4, <2>5
<1> PICK u : u = SubSeq(b, H + 1, H + q)
  OBVIOUS
<1> PICK r : r = SubSeq(b, H + q + 1, Len(b))
  OBVIOUS
<1>2. /\ H + 1 \in 1 .. Len(b) + 1 /\ H + q \in (H + 1) - 1 .. Len(b) /\ (H + q) - (H + 1) + 1 = q
      /\ \A j \in 1 .. q : (H + 1) + j - 1 = H + j
      /\ H + q + 1 \in 1 .. Len(b) + 1 /\ Len(b) \in (H + q + 1) - 1 .. Len(b)
      /\ Len(b) - (H + q + 1) + 1 = Len(b) - (H + q)
      /\ \A at \in 1 .. Len(b) - (H + q) : (H + q + 1) + at - 1 = H + q + at
  BY ONLY <1>1, Len(b) >= H + q
<1>3. /\ u \in Seq(Cell) /\ Len(u) = (H + q) - (H + 1) + 1
      /\ \A j \in 1 .. (H + q) - (H + 1) + 1 : u[j] = b[(H + 1) + j - 1]
  <2> PICK c, d : c = H + 1 /\ d = H + q
    OBVIOUS
  <2>1. c \in 1 .. Len(b) + 1 /\ d \in c - 1 .. Len(b)
    BY <1>2, Zenon
  <2>2. /\ SubSeq(b, c, d) \in Seq(Cell) /\ Len(SubSeq(b, c, d)) = d - c + 1
        /\ \A j \in 1 .. d - c + 1 : SubSeq(b, c, d)[j] = b[c + j - 1]
    BY ONLY b \in Seq(Cell), <2>1, Part
  <2> QED BY <2>2, Zenon
<1>4. /\ r \in Seq(Cell) /\ Len(r) = Len(b) - (H + q + 1) + 1
      /\ \A at \in 1 .. Len(b) - (H + q + 1) + 1 : r[at] = b[(H + q + 1) + at - 1]
  <2> PICK c, d : c = H + q + 1 /\ d = Len(b)
    OBVIOUS
  <2>1. c \in 1 .. Len(b) + 1 /\ d \in c - 1 .. Len(b)
    BY <1>2, Zenon
  <2>2. /\ SubSeq(b, c, d) \in Seq(Cell) /\ Len(SubSeq(b, c, d)) = d - c + 1
        /\ \A j \in 1 .. d - c + 1 : SubSeq(b, c, d)[j] = b[c + j - 1]
    BY ONLY b \in Seq(Cell), <2>1, Part
  <2> QED BY <2>2, Zenon
<1>5. Len(u) = q /\ \A j \in 1 .. q : u[j] = <<n, f + j>>
  <2>1. Len(u) = q
    BY <1>2, <1>3, Zenon
  <2>2. ASSUME NEW j \in 1 .. q PROVE u[j] = <<n, f + j>>
    <3>1. j \in 1 .. (H + q) - (H + 1) + 1 /\ (H + 1) + j - 1 = H + j
      BY ONLY <1>2, j \in 1 .. q
    <3>2. u[j] = b[(H + 1) + j - 1]
      BY <1>3, <3>1, Zenon
    <3>3. b[H + j] = <<k.n, k.from + j>>
      OBVIOUS
    <3> QED BY ONLY <3>1, <3>2, <3>3, n = k.n, f = k.from
  <2> QED BY <2>1, <2>2
<1>6. u \in Seq(Nat \X Nat)
  <2>1. \A j \in 1 .. q : u[j] \in Nat \X Nat
    <3> TAKE j \in 1 .. q
    <3>1. n \in Nat /\ f + j \in Nat
      BY ONLY n \in Nat, f \in Nat, j \in 1 .. q, <1>1
    <3>2. u[j] = <<n, f + j>>
      BY <1>5, Zenon
    <3> QED BY ONLY <3>1, <3>2
  <2>2. u = [j \in 1 .. q |-> u[j]]
    <3>1. u \in Seq(Cell) /\ Len(u) = q
      BY <1>3, <1>5, Zenon
    <3> QED BY ONLY <3>1
  <2> QED BY ONLY <1>1, <2>1, <2>2
<1>7. Len(r) = Len(b) - (H + q) /\ \A at \in 1 .. Len(r) : r[at] = b[H + q + at]
  <2>1. Len(r) = Len(b) - (H + q)
    BY <1>2, <1>4, Zenon
  <2>2. ASSUME NEW at \in 1 .. Len(r) PROVE r[at] = b[H + q + at]
    <3>1. at \in 1 .. Len(b) - (H + q + 1) + 1 /\ (H + q + 1) + at - 1 = H + q + at
      BY ONLY <1>2, <2>1, at \in 1 .. Len(r)
    <3>2. r[at] = b[(H + q + 1) + at - 1]
      BY <1>4, <3>1, Zenon
    <3> QED BY ONLY <3>1, <3>2
  <2> QED BY <2>1, <2>2
<1> QED BY <1>4, <1>5, <1>6, <1>7, Zenon DEF Split

\* The first bytes of a message.
AreFirst(y, n, e) == y \in Seq(Nat \X Nat) /\ Len(y) = e /\ \A j \in 1 .. e : y[j] = <<n, j>>

LEMMA FirstBytes ==
  ASSUME NEW n \in Nat, NEW e \in Nat
  PROVE  AreFirst(C!Bytes(n, 0, e), n, e)
<1> PICK y : y = C!Bytes(n, 0, e)
  OBVIOUS
<1>1. e - 0 = e /\ \A j \in 1 .. e : 0 + j = j
  BY ONLY e \in Nat
<1>2. y = [j \in 1 .. e |-> <<n, j>>]
  BY ONLY <1>1, y = C!Bytes(n, 0, e) DEF C!Bytes
<1>3. \A j \in 1 .. e : <<n, j>> \in Nat \X Nat
  BY ONLY n \in Nat, e \in Nat
<1>4. y \in Seq(Nat \X Nat) /\ Len(y) = e /\ \A j \in 1 .. e : y[j] = <<n, j>>
  BY ONLY <1>2, <1>3, e \in Nat
<1> QED BY <1>4, Zenon DEF AreFirst

\* The message of the channel with the bytes of the chunk behind its own.
LEMMA EnlargedIs ==
  ASSUME NEW ms, NEW a, NEW k \in ChunkSent, NEW M, NEW b, IsDue(ms, a, k, M, b),
         NEW m, m = ms[k.n], ~IsLong(k.fmt, m),
         NEW e \in Nat, k.from <= e, NEW q, q = e - k.from,
         NEW r, Split(b, k, e, SubSeq(b, C!HEADER_LENGTH[k.fmt] + 1, C!HEADER_LENGTH[k.fmt] + q), r)
  PROVE  IsEnlarged(m, k, e, Enlarged(Due(m, M[k.ch]), b, k.fmt, q))
<1> PICK n \in Nat, f \in Nat : n = k.n /\ f = k.from
  BY DEF ChunkSent
<1> PICK D \in Message : D = Due(m, M[k.ch])
  BY Zenon DEF IsDue
<1>1. /\ D.buf = C!Bytes(n, 0, f) /\ Len(D.buf) = f /\ TimeOf(D, b, k.fmt) \in Nat
      /\ (~m.drifted => TimeOf(D, b, k.fmt) = m.kind.timestamp)
  BY Zenon DEF IsDue
<1>2. D.type = m.kind.type /\ D.len = m.kind.len /\ D.endpoint = m.kind.endpoint
  BY DEF Due
<1> PICK u : u = SubSeq(b, C!HEADER_LENGTH[k.fmt] + 1, C!HEADER_LENGTH[k.fmt] + q)
  OBVIOUS
<1>3. u \in Seq(Nat \X Nat) /\ Len(u) = e - f /\ \A j \in 1 .. e - f : u[j] = <<n, f + j>>
  BY Zenon DEF Split
<1> PICK v : v = C!Bytes(n, 0, f)
  OBVIOUS
<1>4. v \in Seq(Nat \X Nat) /\ Len(v) = f /\ \A j \in 1 .. f : v[j] = <<n, j>>
  <2>1. AreFirst(C!Bytes(n, 0, f), n, f)
    BY FirstBytes, Zenon
  <2> QED BY ONLY <2>1, v = C!Bytes(n, 0, f), Zenon DEF AreFirst
<1> PICK w : w = v \o u
  OBVIOUS
<1>5. /\ w \in Seq(Nat \X Nat) /\ Len(w) = Len(v) + Len(u)
      /\ (\A at \in 1 .. Len(v) : w[at] = v[at]) /\ \A at \in 1 .. Len(u) : w[Len(v) + at] = u[at]
  <2>1. w = v \o u /\ u \in Seq(Nat \X Nat) /\ v \in Seq(Nat \X Nat)
    BY <1>3, <1>4, Zenon
  <2>2. /\ w \in Seq(Nat \X Nat) /\ Len(v) \in Nat /\ Len(u) \in Nat /\ Len(w) = Len(v) + Len(u)
        /\ \A at \in 1 .. Len(v) : w[at] = v[at]
        /\ \A at \in 1 .. Len(u) : w[Len(v) + at] = u[at]
    BY ONLY <2>1, Joined, SMTT(30)
  <2> QED BY ONLY <2>2
<1> PICK y : y = C!Bytes(n, 0, e)
  OBVIOUS
<1>6. y \in Seq(Nat \X Nat) /\ Len(y) = e /\ \A j \in 1 .. e : y[j] = <<n, j>>
  <2>1. AreFirst(C!Bytes(n, 0, e), n, e)
    BY FirstBytes, Zenon
  <2> QED BY ONLY <2>1, y = C!Bytes(n, 0, e), Zenon DEF AreFirst
<1>7. w = y
  <2>1. Len(w) = e
    BY ONLY <1>3, <1>4, <1>5, f \in Nat, e \in Nat
  <2>2. ASSUME NEW at \in 1 .. e PROVE w[at] = <<n, at>>
    <3>1. CASE at <= f
      <4>1. at \in 1 .. Len(v) /\ at \in 1 .. f
        BY ONLY <1>4, <3>1, f \in Nat, at \in 1 .. e, e \in Nat
      <4> QED BY <1>4, <1>5, <4>1, Zenon
    <3>2. CASE at > f
      <4> PICK j : j = at - f
        OBVIOUS
      <4>1. j \in 1 .. Len(u) /\ j \in 1 .. e - f /\ Len(v) + j = at /\ f + j = at
        BY ONLY <1>3, <1>4, <3>2, j = at - f, f \in Nat, at \in 1 .. e, e \in Nat
      <4>2. w[Len(v) + j] = u[j]
        BY <1>5, <4>1, Zenon
      <4>3. u[j] = <<n, f + j>>
        BY <1>3, <4>1, Zenon
      <4> QED BY ONLY <4>1, <4>2, <4>3
    <3>3. at <= f \/ at > f
      BY ONLY f \in Nat, at \in 1 .. e, e \in Nat
    <3> QED BY <3>1, <3>2, <3>3, Zenon
  <2>3. w = [at \in 1 .. e |-> w[at]] /\ y = [at \in 1 .. e |-> y[at]]
    BY ONLY <1>5, <1>6, <2>1, e \in Nat
  <2>4. \A at \in 1 .. e : w[at] = y[at]
    BY <1>6, <2>2, Zenon
  <2> QED BY ONLY <2>3, <2>4
<1> PICK x : x = Enlarged(D, b, k.fmt, q)
  OBVIOUS
<1>8. /\ x.type = D.type /\ x.len = D.len /\ x.endpoint = D.endpoint /\ x.timestamp = TimeOf(D, b, k.fmt)
      /\ x.buf = D.buf \o u
  BY DEF Enlarged, TimeOf
<1>9. x.buf = y
  BY <1>1, <1>7, <1>8, Zenon
<1>10. x \in Message
  <2>1. /\ x.type \in {"media", "set chunk"} /\ x.len \in Nat /\ x.endpoint \in Nat /\ x.timestamp \in Nat
        /\ x.buf \in Seq(Nat \X Nat)
    BY <1>1, <1>6, <1>8, <1>9 DEF Message
  <2>2. x = [type |-> x.type, len |-> x.len, timestamp |-> x.timestamp, endpoint |-> x.endpoint, buf |-> x.buf]
    BY DEF Enlarged
  <2> QED BY ONLY <2>1, <2>2 DEF Message
<1>11. Len(x.buf) = e /\ (e > 0 => x.buf[1] = <<n, 1>>)
  <2> e > 0 => 1 \in 1 .. e
    OBVIOUS
  <2> QED BY <1>6, <1>9, Zenon
<1> QED BY <1>1, <1>2, <1>8, <1>9, <1>10, <1>11, Zenon DEF IsEnlarged
-----------------------------------------------------------------------------
\* The server between two chunks, and what a round does.

\* A message for which the server closes the connection.
SomeRefused(ms) == \E n \in 1 .. Len(ms) : C!IsRefused(ms[n])

\* m is message n of the peer, and was handled.
Whole(ms, m, n) ==
  LET k == ms[n].kind IN
  /\ n \in 1 .. Len(ms) /\ m.type = k.type /\ m.endpoint = k.endpoint
  /\ m.buf = C!Bytes(n, 0, k.len) /\ k.len > 0 /\ m.len = k.len
  /\ ~ms[n].drifted => m.timestamp = k.timestamp

\* What was handled are the messages that were spoken, in their order.
Delivered(ms, sp, h) ==
  /\ h \in Seq(Message) /\ Len(h) <= Len(sp)
  /\ \A j \in 1 .. Len(h) : Whole(ms, h[j], sp[j])

\* The server has taken the chunks before r, and perhaps the header of chunk r; w is
\* what is still on the wire.
Synced(ms, log, cs, w, b, xs, l, h, r, M) ==
  /\ M \in [Channels -> Message] /\ r \in 1 .. Len(log) /\ Knows(ms, log[r], M)
  /\ OnWire(ms, log, cs, r, b \o w) /\ l = log[r].speak /\ Len(h) = log[r].count
  /\ \/ xs = M
     \/ r \in 1 .. Len(cs) /\ xs = [M EXCEPT ![cs[r].ch] = Due(ms[cs[r].n], M[cs[r].ch])]

\* The chunk at the head of b.
Ahead(ms, sp, log, cs, w, b, r, k, m, g) ==
  LET H == C!HEADER_LENGTH[k.fmt]
      x == SegOf(ms, log, cs, r)
  IN  /\ IsFirst(ms, sp, log, cs, r, b \o w, g) /\ k = cs[r] /\ m = ms[k.n]
      /\ IsSeg(x, m, log[r], k) /\ H \in 1 .. 5 /\ g >= H /\ g = Len(x)
      /\ w = <<>> => Len(b) >= g
      /\ b # <<>> => b[1] = <<"flags", k.fmt, k.ch>>
      /\ Len(b) >= H => HeaderSays(b, k.fmt, k.ch, m)
      /\ \A j \in 1 .. g : j <= Len(b) => b[j] = x[j]

\* What stands in the buffer and on the wire before a chunk is read.
LEMMA AheadIs ==
  ASSUME C!ChunksAssumption, NEW ms \in Seq(Said), NEW sp, NEW log, NEW cs, Log(ms, sp, log, cs),
         NEW r \in 1 .. Len(cs), NEW b \in Seq(Cell), NEW w \in Seq(Cell), OnWire(ms, log, cs, r, b \o w)
  PROVE  Ahead(ms, sp, log, cs, w, b, r, cs[r], ms[cs[r].n], Len(SegOf(ms, log, cs, r)))
<1> PICK k : k = cs[r]
  OBVIOUS
<1> PICK m : m = ms[k.n]
  OBVIOUS
<1> PICK x : x = SegOf(ms, log, cs, r)
  OBVIOUS
<1> PICK g : g = Len(x)
  OBVIOUS
<1> PICK s : s = b \o w
  OBVIOUS
<1>1. IsFirst(ms, sp, log, cs, r, s, g)
  BY FirstIs, Zenon
<1>2. IsSeg(x, m, log[r], k) /\ k \in ChunkSent /\ g \in Nat /\ g <= Len(s) /\ \A j \in 1 .. g : s[j] = x[j]
  BY <1>1, Zenon DEF IsFirst
<1>3. /\ s \in Seq(Cell) /\ Len(b) \in Nat /\ Len(w) \in Nat /\ Len(s) = Len(b) + Len(w)
      /\ (\A at \in 1 .. Len(b) : s[at] = b[at]) /\ \A at \in 1 .. Len(w) : s[Len(b) + at] = w[at]
  <2>1. s = b \o w /\ b \in Seq(Cell) /\ w \in Seq(Cell)
    OBVIOUS
  <2> QED BY ONLY <2>1, Joined
<1> PICK t \in 0 .. 3, ch \in Channels : t = k.fmt /\ ch = k.ch
  BY <1>2 DEF ChunkSent
<1> PICK H \in 1 .. 5 : H = C!HEADER_LENGTH[t]
  BY HeaderLengths
<1>4. /\ End(m, log[r], k) \in Nat /\ k.from <= End(m, log[r], k)
      /\ g = H + (IF IsLong(t, m) THEN 1 ELSE 0) + (End(m, log[r], k) - k.from)
      /\ HeaderSays(x, t, ch, m)
  BY <1>2, Zenon DEF IsSeg
<1>5. g >= H
  <2> PICK e \in Nat : e = End(m, log[r], k)
    BY <1>4
  <2> PICK f \in Nat : f = k.from
    BY <1>2 DEF ChunkSent
  <2> PICK y \in 0 .. 1 : y = IF IsLong(t, m) THEN 1 ELSE 0
    OBVIOUS
  <2>1. f <= e /\ g = H + y + (e - f)
    BY <1>4, Zenon
  <2> QED BY ONLY <2>1, e \in Nat, f \in Nat, y \in 0 .. 1, H \in 1 .. 5
<1>6. w = <<>> => Len(b) >= g
  BY <1>2, <1>3
<1>7. \A j \in 1 .. g : j <= Len(b) => b[j] = x[j]
  <2> SUFFICES ASSUME NEW j \in 1 .. g, j <= Len(b) PROVE b[j] = x[j]
    OBVIOUS
  <2>1. j \in 1 .. Len(b)
    BY ONLY j \in 1 .. g, j <= Len(b), <1>2, <1>3
  <2> QED BY <1>2, <1>3, <2>1, Zenon
<1>8. ASSUME b # <<>> PROVE b[1] = <<"flags", t, ch>>
  <2>1. Len(b) # 0
    BY <1>8, EmptySeq
  <2>2. 1 \in 1 .. g /\ 1 <= Len(b)
    BY ONLY <1>2, <1>3, <1>5, <2>1, H \in 1 .. 5
  <2> QED BY <1>4, <1>7, <2>2, Zenon DEF HeaderSays
<1>9. ASSUME Len(b) >= H PROVE HeaderSays(b, t, ch, m)
  <2>1. (t = 0 => H = 5) /\ (t = 1 => H = 4) /\ (t = 2 => H = 2) /\ (t = 3 => H = 1)
    BY HeaderLengths
  <2>2. /\ 1 \in 1 .. H /\ (t <= 2 => 2 \in 1 .. H) /\ (t <= 1 => 3 \in 1 .. H /\ 4 \in 1 .. H)
        /\ (t = 0 => 5 \in 1 .. H)
    BY ONLY <2>1, t \in 0 .. 3
  <2>3. \A j \in 1 .. H : b[j] = x[j]
    <3> TAKE j \in 1 .. H
    <3>1. j \in 1 .. g /\ j <= Len(b)
      BY ONLY j \in 1 .. H, H \in 1 .. 5, <1>5, <1>9, <1>2, <1>3
    <3> QED BY <1>7, <3>1, Zenon
  <2>4. /\ b[1] = x[1] /\ (t <= 2 => b[2] = x[2]) /\ (t <= 1 => b[3] = x[3] /\ b[4] = x[4])
        /\ (t = 0 => b[5] = x[5])
    BY <2>2, <2>3, Zenon
  <2> QED BY <1>4, <2>4, Zenon DEF HeaderSays
<1> QED BY <1>1, <1>2, <1>5, <1>6, <1>7, <1>8, <1>9, Zenon DEF Ahead

\* What a round is on a buffer with a whole header of chunk k.
TakesChunk(ms, a, b, xs, l, h, M, k, m) ==
  /\ IsDue(ms, a, k, M, b)
  /\ C!Round(Parsing(b, xs, l, TRUE, h))
       = Rounded(b, [M EXCEPT ![k.ch] = Due(m, M[k.ch])], l, h, k.fmt, k.ch, Due(m, M[k.ch]),
                 C!Least(m.kind.len - k.from, l))

\* The same round whether the header was taken before or not.
LEMMA RoundOfChunk ==
  ASSUME C!ChunksAssumption, NEW ms \in Seq(Said), NEW sp, NEW log, NEW cs, Log(ms, sp, log, cs),
         NEW w \in Seq(Cell), NEW b \in Seq(Cell), NEW xs, NEW l \in Nat, NEW h, NEW r \in 1 .. Len(cs), NEW M,
         Synced(ms, log, cs, w, b, xs, l, h, r, M),
         NEW k, NEW m, NEW g, Ahead(ms, sp, log, cs, w, b, r, k, m, g),
         b # <<>>, Len(b) >= C!HEADER_LENGTH[k.fmt]
  PROVE  TakesChunk(ms, log[r], b, xs, l, h, M, k, m)
<1>1. /\ M \in [Channels -> Message] /\ r \in 1 .. Len(log) /\ Knows(ms, log[r], M)
      /\ (xs = M \/ xs = [M EXCEPT ![cs[r].ch] = Due(ms[cs[r].n], M[cs[r].ch])])
  BY Zenon DEF Synced
<1>2. /\ IsFirst(ms, sp, log, cs, r, b \o w, g) /\ k = cs[r] /\ m = ms[k.n]
      /\ b[1] = <<"flags", k.fmt, k.ch>> /\ HeaderSays(b, k.fmt, k.ch, m)
  BY Zenon DEF Ahead
<1>3. k \in ChunkSent /\ log[r] \in State /\ m \in Said /\ Step(ms, sp, log[r], k, log[r + 1])
  BY <1>2, Zenon DEF IsFirst
<1> PICK t \in 0 .. 3, ch \in Channels : t = k.fmt /\ ch = k.ch
  BY <1>3 DEF ChunkSent
<1> PICK D : D = Due(m, M[ch])
  OBVIOUS
<1>4. IsDue(ms, log[r], k, M, b)
  BY <1>1, <1>2, <1>3, DueIs, Zenon
<1>5. /\ D \in Message /\ Len(D.buf) = k.from /\ Taken(M[ch], b, t) = D /\ Taken(D, b, t) = D
  BY <1>2, <1>4, Zenon DEF IsDue
<1>6. D.len = m.kind.len
  BY DEF Due
<1>7. D.len >= Len(D.buf)
  <2>1. IsSeg(SegOf(ms, log, cs, r), m, log[r], k)
    BY Zenon DEF Ahead
  <2>2. k.from <= End(m, log[r], k) /\ End(m, log[r], k) <= m.kind.len /\ End(m, log[r], k) \in Nat
    BY <2>1, Zenon DEF IsSeg
  <2> PICK e \in Nat : e = End(m, log[r], k)
    BY <2>2
  <2> PICK f \in Nat : f = k.from
    BY <1>3 DEF ChunkSent
  <2> PICK n \in Nat : n = m.kind.len
    BY <1>3 DEF Said, Kind
  <2>3. D.len = n /\ Len(D.buf) = f /\ f <= e /\ e <= n
    BY <1>5, <1>6, <2>2, Zenon
  <2> QED BY ONLY <2>3, e \in Nat, f \in Nat, n \in Nat
<1> PICK q : q = C!Least(D.len - Len(D.buf), l)
  OBVIOUS
<1>8. q = C!Least(m.kind.len - k.from, l)
  BY <1>5, <1>6, Zenon
<1> PICK ns : ns = [M EXCEPT ![ch] = D]
  OBVIOUS
<1>9. ns \in [Channels -> Message] /\ ns[ch] = D /\ [ns EXCEPT ![ch] = D] = ns
  <2>1. ns \in [Channels -> Message] /\ ns[ch] = D
    BY <1>1, <1>5
  <2> QED BY <2>1
<1>10. Len(b) \in Nat
  BY LenProperties
<1>11. /\ xs \in [Channels -> Message] /\ Taken(xs[ch], b, t) = D
       /\ [xs EXCEPT ![ch] = D] = ns
  <2>1. CASE xs = M
    BY <1>1, <1>5, <2>1, Zenon
  <2>2. CASE xs # M
    <3> xs = ns
      BY <1>1, <1>2, <2>2, Zenon
    <3> QED BY <1>5, <1>9, Zenon
  <2> QED BY <2>1, <2>2
<1>12. C!Round(Parsing(b, xs, l, TRUE, h)) = Rounded(b, [xs EXCEPT ![ch] = D], l, h, t, ch, D, q)
  <2>1. b[1] = <<"flags", t, ch>> /\ Len(b) >= C!HEADER_LENGTH[t] /\ D = Taken(xs[ch], b, t)
    BY <1>2, <1>11, Zenon
  <2>2. RoundIs(b, xs, l, h, t, ch, D, q)
    BY <1>5, <1>7, <1>10, <1>11, <2>1, RoundOf, Zenon
  <2> QED BY <2>2, Zenon DEF RoundIs
<1> QED BY <1>4, <1>8, <1>11, <1>12, Zenon DEF TakesChunk

\* The server in a round: nothing lost, nothing left over when it ends and all has come,
\* and closed only for a message that is refused.
HeldAs(ms, sp, log, cs, w, b, xs, l, o, h, fin) ==
  /\ Delivered(ms, sp, h) /\ (~o => SomeRefused(ms))
  /\ fin => C!Round(Parsing(b, xs, l, o, h)) = Parsing(b, xs, l, o, h)
  /\ o => \E r, M : Synced(ms, log, cs, w, b, xs, l, h, r, M) /\ (fin /\ w = <<>> => r = Len(log))

\* The parser holds such a client, with at most n cells.
Held(ms, sp, log, cs, w, p, n, fin) ==
  \E b \in Seq(Cell), l \in Nat \ {0}, o \in BOOLEAN : \E xs, h :
    p = Parsing(b, xs, l, o, h) /\ Len(b) <= n /\ HeldAs(ms, sp, log, cs, w, b, xs, l, o, h, fin)

\* A client that is closed stays as it is.
LEMMA ClosedHeld ==
  ASSUME NEW ms, NEW sp, NEW log, NEW cs, NEW w, NEW b \in Seq(Cell), NEW xs, NEW l \in Nat \ {0}, NEW h, NEW n,
         Len(b) <= n, Delivered(ms, sp, h), SomeRefused(ms)
  PROVE  Held(ms, sp, log, cs, w, Parsing(b, xs, l, FALSE, h), n, TRUE)
<1>1. C!Round(Parsing(b, xs, l, FALSE, h)) = Parsing(b, xs, l, FALSE, h)
  <2> ~FALSE
    OBVIOUS
  <2> Stays(Parsing(b, xs, l, FALSE, h))
    BY RoundEnds, Zenon
  <2> QED BY Zenon DEF Stays
<1>2. HeldAs(ms, sp, log, cs, w, b, xs, l, FALSE, h, TRUE)
  BY <1>1, Zenon DEF HeldAs
<1>3. FALSE \in BOOLEAN
  OBVIOUS
<1> QED BY <1>2, <1>3, Zenon DEF Held

\* An open client that agrees with the log at an entry.
LEMMA OpenHeld ==
  ASSUME NEW ms, NEW sp, NEW log, NEW cs, NEW w, NEW b \in Seq(Cell), NEW xs, NEW l \in Nat \ {0}, NEW h, NEW n,
         Len(b) <= n, Delivered(ms, sp, h), NEW r, NEW M, Synced(ms, log, cs, w, b, xs, l, h, r, M)
  PROVE  Held(ms, sp, log, cs, w, Parsing(b, xs, l, TRUE, h), n, FALSE)
<1>1. TRUE \in BOOLEAN
  OBVIOUS
<1>2. HeldAs(ms, sp, log, cs, w, b, xs, l, TRUE, h, FALSE)
  BY Zenon DEF HeldAs
<1> QED BY <1>1, <1>2, Zenon DEF Held

\* Nothing happens until more comes.
LEMMA EndHeld ==
  ASSUME NEW ms, NEW sp, NEW log, NEW cs, NEW w, NEW b \in Seq(Cell), NEW xs, NEW l \in Nat \ {0}, NEW h, NEW n,
         Len(b) <= n, Delivered(ms, sp, h), NEW r, NEW M, Synced(ms, log, cs, w, b, xs, l, h, r, M),
         C!Round(Parsing(b, xs, l, TRUE, h)) = Parsing(b, xs, l, TRUE, h), w = <<>> => r = Len(log)
  PROVE  Held(ms, sp, log, cs, w, Parsing(b, xs, l, TRUE, h), n, TRUE)
<1>1. TRUE \in BOOLEAN
  OBVIOUS
<1>2. HeldAs(ms, sp, log, cs, w, b, xs, l, TRUE, h, TRUE)
  BY Zenon DEF HeldAs
<1> QED BY <1>1, <1>2, Zenon DEF Held

\* What is left of the buffer is what is on the wire from the next chunk on.
LEMMA NextSynced ==
  ASSUME NEW ms, NEW sp, NEW log, NEW cs, Log(ms, sp, log, cs),
         NEW w \in Seq(Cell), NEW b \in Seq(Cell), NEW r \in 1 .. Len(cs), OnWire(ms, log, cs, r, b \o w),
         NEW g \in Nat, IsFirst(ms, sp, log, cs, r, b \o w, g),
         g <= Len(b), NEW c, Behind(c, b, g)
  PROVE  OnWire(ms, log, cs, r + 1, c \o w)
<1> PICK s : s = b \o w
  OBVIOUS
<1> PICK t : t = c \o w
  OBVIOUS
<1>0. c \in Seq(Cell) /\ Len(c) = Len(b) - g /\ \A at \in 1 .. Len(c) : c[at] = b[g + at]
  BY Zenon DEF Behind
<1>1. /\ s \in Seq(Cell) /\ Len(b) \in Nat /\ Len(w) \in Nat /\ Len(s) = Len(b) + Len(w)
      /\ (\A at \in 1 .. Len(b) : s[at] = b[at]) /\ \A at \in 1 .. Len(w) : s[Len(b) + at] = w[at]
  <2>1. s = b \o w /\ b \in Seq(Cell) /\ w \in Seq(Cell)
    OBVIOUS
  <2> QED BY ONLY <2>1, Joined
<1>2. /\ t \in Seq(Cell) /\ Len(c) \in Nat /\ Len(t) = Len(c) + Len(w)
      /\ (\A at \in 1 .. Len(c) : t[at] = c[at]) /\ \A at \in 1 .. Len(w) : t[Len(c) + at] = w[at]
  <2>1. t = c \o w /\ c \in Seq(Cell) /\ w \in Seq(Cell)
    BY <1>0
  <2> QED BY ONLY <2>1, Joined
<1>3. Len(c) = Len(b) - g /\ g \in Nat
  BY <1>0
<1>4. Len(t) = Len(s) - g
  BY ONLY <1>1, <1>2, <1>3
<1>5. ASSUME NEW at \in 1 .. Len(t) PROVE t[at] = s[g + at]
  <2>1. CASE at <= Len(c)
    <3>1. at \in 1 .. Len(c) /\ g + at \in 1 .. Len(b)
      BY ONLY <1>1, <1>2, <1>3, <2>1, at \in 1 .. Len(t)
    <3>2. t[at] = c[at] /\ s[g + at] = b[g + at] /\ c[at] = b[g + at]
      BY <1>0, <1>1, <1>2, <3>1, Zenon
    <3> QED BY <3>2, Zenon
  <2>2. CASE at > Len(c)
    <3> PICK j : j = at - Len(c)
      OBVIOUS
    <3>0. at \in Nat /\ at <= Len(t) /\ j = at - Len(c) /\ j \in Int
      BY ONLY <1>1, <1>2, at \in 1 .. Len(t), j = at - Len(c)
    <3>00. /\ Len(b) \in Nat /\ Len(w) \in Nat /\ Len(c) \in Nat /\ g \in Nat
           /\ Len(c) = Len(b) - g /\ Len(t) = Len(c) + Len(w)
      BY <1>1, <1>2, <1>3, Zenon
    <3>1. j \in 1 .. Len(w) /\ Len(c) + j = at /\ Len(b) + j = g + at
      BY ONLY <2>2, <3>0, <3>00
    <3>2. t[Len(c) + j] = w[j] /\ s[Len(b) + j] = w[j]
      BY <1>1, <1>2, <3>1, Zenon
    <3> QED BY <3>1, <3>2, Zenon
  <2>3. at <= Len(c) \/ at > Len(c)
    BY ONLY <1>1, <1>2, at \in 1 .. Len(t)
  <2> QED BY <2>1, <2>2, <2>3, Zenon
<1>6. Behind(t, s, g)
  BY <1>2, <1>4, <1>5, Zenon DEF Behind
<1>7. OnWire(ms, log, cs, r + 1, t)
  BY <1>6, Advanced, Zenon
<1> QED BY <1>7, Zenon

\* A round that found a whole header.
Onward(ms, sp, log, cs, w, p, n) ==
  Held(ms, sp, log, cs, w, p, n, TRUE) \/ (n > 0 /\ Held(ms, sp, log, cs, w, p, n - 1, FALSE))

\* The two ways on.
LEMMA OnwardIs ==
  ASSUME NEW ms, NEW sp, NEW log, NEW cs, NEW w, NEW p, NEW n
  PROVE  /\ Held(ms, sp, log, cs, w, p, n, TRUE) => Onward(ms, sp, log, cs, w, p, n)
         /\ n > 0 /\ Held(ms, sp, log, cs, w, p, n - 1, FALSE) => Onward(ms, sp, log, cs, w, p, n)
  BY DEF Onward

\* What was handled, with one message more.
DeliveredOne(ms, sp, h, u) == Delivered(ms, sp, u) /\ Len(u) = Len(h) + 1

\* A message that is handled is the one that was spoken then.
LEMMA Handled ==
  ASSUME NEW ms, NEW sp, NEW h, Delivered(ms, sp, h), NEW x \in Message, NEW n,
         Len(h) + 1 \in 1 .. Len(sp), sp[Len(h) + 1] = n, Whole(ms, x, n)
  PROVE  DeliveredOne(ms, sp, h, Append(h, x))
<1>1. h \in Seq(Message) /\ \A j \in 1 .. Len(h) : Whole(ms, h[j], sp[j])
  BY Zenon DEF Delivered
<1> PICK u : u = Append(h, x)
  OBVIOUS
<1>2. /\ u \in Seq(Message) /\ Len(u) = Len(h) + 1 /\ Len(h) \in Nat /\ u[Len(h) + 1] = x
      /\ \A j \in 1 .. Len(h) : u[j] = h[j]
  BY <1>1, AppendProperties, LenProperties
<1>3. ASSUME NEW j \in 1 .. Len(u) PROVE Whole(ms, u[j], sp[j])
  <2>1. CASE j \in 1 .. Len(h)
    BY <1>1, <1>2, <2>1, Zenon
  <2>2. CASE j = Len(h) + 1
    BY <1>2, <2>2, Zenon
  <2>3. j \in 1 .. Len(h) \/ j = Len(h) + 1
    BY ONLY <1>2, j \in 1 .. Len(u)
  <2> QED BY <2>1, <2>2, <2>3, Zenon
<1>4. Len(u) <= Len(sp)
  BY <1>2
<1>5. Delivered(ms, sp, u)
  BY <1>2, <1>3, <1>4, Zenon DEF Delivered
<1> QED BY <1>2, <1>5, Zenon DEF DeliveredOne

\* How much of the message the chunk holds.
IsChunkLen(m, a, k) == C!Least(m.kind.len - k.from, a.speak) = End(m, a, k) - k.from

\* It is as long for the server as for the peer.
LEMMA ChunkLen ==
  ASSUME NEW m \in Said, NEW a \in State, NEW k \in ChunkSent, k.from <= End(m, a, k)
  PROVE  IsChunkLen(m, a, k)
<1> PICK f \in Nat : f = k.from
  BY DEF ChunkSent
<1> PICK e : e = End(m, a, k)
  OBVIOUS
<1> PICK q : q = C!Least(m.kind.len - k.from, a.speak)
  OBVIOUS
<1> PICK n \in Nat : n = m.kind.len
  BY DEF Said, Kind
<1> PICK s \in Nat : s = a.speak
  BY DEF State
<1>1. q = C!Least(n - f, s) /\ e = C!Least(n, f + s)
  BY Zenon DEF End
<1>2. f <= e
  OBVIOUS
<1>3. q = e - f
  BY ONLY <1>1, <1>2, n \in Nat, s \in Nat, f \in Nat DEF C!Least
<1> QED BY <1>3, Zenon DEF IsChunkLen

\* A round that finds a whole chunk takes it.
LEMMA RoundTakes ==
  ASSUME C!ChunksAssumption, NEW ms \in Seq(Said), ms = said, NEW sp, NEW log, NEW cs, Log(ms, sp, log, cs),
         NEW w \in Seq(Cell), NEW b \in Seq(Cell), NEW xs, NEW l \in Nat \ {0}, NEW h, NEW r \in 1 .. Len(cs), NEW M,
         Synced(ms, log, cs, w, b, xs, l, h, r, M), Delivered(ms, sp, h),
         NEW k, NEW m, NEW g, Ahead(ms, sp, log, cs, w, b, r, k, m, g),
         b # <<>>, Len(b) >= C!HEADER_LENGTH[k.fmt], NEW n \in Nat, Len(b) <= n
  PROVE  Onward(ms, sp, log, cs, w, C!Round(Parsing(b, xs, l, TRUE, h)), n)
<1>1. /\ M \in [Channels -> Message] /\ r \in 1 .. Len(log) /\ Knows(ms, log[r], M)
      /\ OnWire(ms, log, cs, r, b \o w) /\ l = log[r].speak /\ Len(h) = log[r].count
  BY Zenon DEF Synced
<1> PICK x : x = SegOf(ms, log, cs, r)
  OBVIOUS
<1> PICK a : a = log[r]
  OBVIOUS
<1> PICK z : z = log[r + 1]
  OBVIOUS
<1>2. /\ IsFirst(ms, sp, log, cs, r, b \o w, g) /\ k = cs[r] /\ m = ms[k.n] /\ IsSeg(x, m, a, k)
      /\ (w = <<>> => Len(b) >= g) /\ g = Len(x) /\ \A j \in 1 .. g : j <= Len(b) => b[j] = x[j]
  BY Zenon DEF Ahead
<1>3. k \in ChunkSent /\ a \in State /\ z \in State /\ m \in Said /\ Step(ms, sp, a, k, z) /\ g \in Nat
  BY <1>2, Zenon DEF IsFirst
<1> PICK t \in 0 .. 3, ch \in Channels, f \in Nat : t = k.fmt /\ ch = k.ch /\ f = k.from
  BY <1>3 DEF ChunkSent
<1> PICK H \in 1 .. 5 : H = C!HEADER_LENGTH[t]
  BY HeaderLengths
<1> PICK D : D = Due(m, M[ch])
  OBVIOUS
<1> PICK ns : ns = [M EXCEPT ![ch] = D]
  OBVIOUS
<1> PICK q : q = C!Least(m.kind.len - k.from, l)
  OBVIOUS
<1>4. /\ IsDue(ms, a, k, M, b)
      /\ C!Round(Parsing(b, xs, l, TRUE, h)) = Rounded(b, ns, l, h, t, ch, D, q)
  <2> TakesChunk(ms, log[r], b, xs, l, h, M, k, m)
    BY RoundOfChunk, l \in Nat, Zenon
  <2> QED BY Zenon DEF TakesChunk
<1>5. /\ End(m, a, k) \in Nat /\ k.from <= End(m, a, k) /\ End(m, a, k) <= m.kind.len
      /\ g = C!HEADER_LENGTH[k.fmt] + (IF IsLong(k.fmt, m) THEN 1 ELSE 0) + (End(m, a, k) - k.from)
      /\ (~IsLong(k.fmt, m) => \A j \in 1 .. End(m, a, k) - k.from :
            x[C!HEADER_LENGTH[k.fmt] + j] = <<k.n, k.from + j>>)
  BY <1>2, Zenon DEF IsSeg
<1> PICK e \in Nat : e = End(m, a, k)
  BY <1>5
<1> PICK y \in 0 .. 1 : y = IF IsLong(t, m) THEN 1 ELSE 0
  OBVIOUS
<1> PICK N \in Nat : N = m.kind.len
  BY <1>3 DEF Said, Kind
<1>6. f <= e /\ e <= N /\ g = H + y + (e - f)
  BY <1>5, Zenon
<1>7. q = e - f
  <2>1. IsChunkLen(m, a, k)
    BY <1>3, <1>5, ChunkLen, Zenon
  <2> QED BY <1>1, <2>1, Zenon DEF IsChunkLen
<1>8. q \in Nat /\ Len(b) \in Nat
  <2>1. q \in Nat
    BY ONLY <1>6, <1>7, e \in Nat, f \in Nat
  <2> QED BY <2>1, LenProperties
<1>9. D.len = N /\ D.type = m.kind.type
  BY DEF Due
<1>10. k.n \in 1 .. Len(ms) /\ (Proceeds(m, a, k) \/ Opens(ms, m, a, k))
  BY <1>2, <1>3, Zenon DEF Step
<1> PICK X : X = Enlarged(D, b, t, q)
  OBVIOUS
<1> PICK rest : rest = SubSeq(b, H + q + 1, Len(b))
  OBVIOUS
<1> PICK p : p = C!Round(Parsing(b, xs, l, TRUE, h))
  OBVIOUS
<1>11. p = IF D.len = 0 THEN Parsing(b, ns, l, FALSE, h)
           ELSE IF Len(b) < H + q THEN Parsing(b, ns, l, TRUE, h)
           ELSE IF t <= 2 /\ b[2][2] = EXT THEN Parsing(b, ns, l, FALSE, h)
           ELSE IF Len(X.buf) < X.len THEN Parsing(rest, [ns EXCEPT ![ch] = X], l, TRUE, h)
           ELSE IF X.type = "set chunk" /\ X.len < SIZE_LEN THEN Parsing(rest, [ns EXCEPT ![ch] = X], l, FALSE, h)
           ELSE Parsing(rest, [ns EXCEPT ![ch] = Emptied(X)],
                        IF X.type = "set chunk" THEN C!Announced(X) ELSE l, TRUE, Append(h, X))
  BY <1>4, Zenon DEF Rounded
<1> SUFFICES Onward(ms, sp, log, cs, w, p, n)
  OBVIOUS
\* A message without bytes.
<1>12. CASE D.len = 0
  <2>1. C!IsRefused(m)
    BY <1>9, <1>12, Zenon DEF C!IsRefused
  <2>2. SomeRefused(ms)
    BY <1>2, <1>10, <2>1, Zenon DEF SomeRefused
  <2>3. p = Parsing(b, ns, l, FALSE, h)
    BY <1>11, <1>12, Zenon
  <2>4. Held(ms, sp, log, cs, w, Parsing(b, ns, l, FALSE, h), n, TRUE)
    BY <2>2, ClosedHeld, Zenon
  <2>5. Held(ms, sp, log, cs, w, p, n, TRUE)
    BY <2>3, <2>4, Zenon
  <2> QED BY <2>5, OnwardIs, Zenon
\* A chunk that is not there yet.
<1>13. CASE D.len # 0 /\ Len(b) < H + q
  <2>1. p = Parsing(b, ns, l, TRUE, h)
    BY <1>11, <1>13, Zenon
  <2>2. Synced(ms, log, cs, w, b, ns, l, h, r, M)
    BY <1>1, <1>2, Zenon DEF Synced
  <2>3. C!Round(Parsing(b, ns, l, TRUE, h)) = Rounded(b, ns, l, h, t, ch, D, q)
    <3> TakesChunk(ms, log[r], b, ns, l, h, M, k, m)
      BY <2>2, RoundOfChunk, l \in Nat, Zenon
    <3> QED BY Zenon DEF TakesChunk
  <2>4. C!Round(p) = p
    BY <1>4, <2>1, <2>3, Zenon
  <2>5. w # <<>>
    <3>1. ~(Len(b) >= g)
      BY ONLY <1>6, <1>7, <1>8, <1>13, y \in 0 .. 1, H \in 1 .. 5, e \in Nat, f \in Nat
    <3> QED BY <1>2, <3>1, Zenon
  <2>6. Held(ms, sp, log, cs, w, Parsing(b, ns, l, TRUE, h), n, TRUE)
    <3> C!Round(Parsing(b, ns, l, TRUE, h)) = Parsing(b, ns, l, TRUE, h)
      BY <2>1, <2>4, Zenon
    <3> QED BY <2>2, <2>5, EndHeld, Zenon
  <2>7. Held(ms, sp, log, cs, w, p, n, TRUE)
    BY <2>1, <2>6, Zenon
  <2> QED BY <2>7, OnwardIs, Zenon
\* A time that does not fit.
<1>14. CASE D.len # 0 /\ ~(Len(b) < H + q) /\ t <= 2 /\ b[2][2] = EXT
  <2>1. IsLong(t, m)
    BY <1>2, <1>4, <1>14, Zenon DEF IsDue
  <2>2. t = 0 /\ m.kind.timestamp >= EXT
    BY <2>1, Zenon DEF IsLong
  <2>3. m.fmt = 0
    <3>1. 0 # 3
      OBVIOUS
    <3> QED BY <1>10, <2>2, <3>1, Zenon DEF Proceeds, Opens
  <2>4. SomeRefused(ms)
    BY <1>2, <1>10, <2>2, <2>3, Zenon DEF SomeRefused, C!IsRefused
  <2>5. p = Parsing(b, ns, l, FALSE, h)
    BY <1>11, <1>14, Zenon
  <2>6. Held(ms, sp, log, cs, w, Parsing(b, ns, l, FALSE, h), n, TRUE)
    BY <2>4, ClosedHeld, Zenon
  <2>7. Held(ms, sp, log, cs, w, p, n, TRUE)
    BY <2>5, <2>6, Zenon
  <2> QED BY <2>7, OnwardIs, Zenon
\* The chunk is taken.
<1>15. CASE D.len # 0 /\ ~(Len(b) < H + q) /\ ~(t <= 2 /\ b[2][2] = EXT)
  <2>1. ~IsLong(t, m)
    <3>1. t <= 2 => ~IsLong(t, m)
      BY <1>2, <1>4, <1>15, Zenon DEF IsDue
    <3>2. t > 2 => t # 0
      OBVIOUS
    <3>3. t <= 2 \/ t > 2
      OBVIOUS
    <3> QED BY <3>1, <3>2, <3>3, Zenon DEF IsLong
  <2>2. y = 0
    BY <2>1, Zenon
  <2>3. g = H + q /\ Len(b) >= g /\ Len(b) >= H + q /\ g > 0
    BY ONLY <1>6, <1>7, <1>8, <1>15, <2>2, H \in 1 .. 5, e \in Nat, f \in Nat
  <2>4. \A j \in 1 .. q : b[H + j] = <<k.n, k.from + j>>
    <3> TAKE j \in 1 .. q
    <3>1. H + j \in 1 .. g /\ H + j <= Len(b)
      BY ONLY <1>8, <2>3, H \in 1 .. 5, j \in 1 .. q
    <3>2. b[H + j] = x[H + j]
      BY <1>2, <3>1, Zenon
    <3>3. \A at \in 1 .. q : x[H + at] = <<k.n, k.from + at>>
      <4> q = End(m, a, k) - k.from
        BY <1>7, Zenon
      <4> QED BY <1>5, <2>1, Zenon
    <3> QED BY <3>2, <3>3, Zenon
  <2>5. Split(b, k, e, SubSeq(b, H + 1, H + q), rest)
    <3>1. q = e - k.from /\ k.from <= e /\ H = C!HEADER_LENGTH[k.fmt]
      BY <1>6, <1>7, Zenon
    <3> QED BY <1>3, <2>3, <2>4, <3>1, SplitIs, Zenon
  <2>6. IsEnlarged(m, k, e, X)
    <3>1. q = e - k.from /\ k.from <= e /\ ~IsLong(k.fmt, m)
      BY <1>6, <1>7, <2>1, Zenon
    <3>2. Split(b, k, e, SubSeq(b, C!HEADER_LENGTH[k.fmt] + 1, C!HEADER_LENGTH[k.fmt] + q), rest)
      BY <2>5, Zenon
    <3>3. IsEnlarged(m, k, e, Enlarged(Due(m, M[k.ch]), b, k.fmt, q))
      BY <1>2, <1>3, <1>4, <3>1, <3>2, EnlargedIs, Zenon
    <3> QED BY <3>3, Zenon
  <2>7. /\ X \in Message /\ X.type = m.kind.type /\ X.len = N /\ X.endpoint = m.kind.endpoint
        /\ X.buf = C!Bytes(k.n, 0, e) /\ Len(X.buf) = e /\ (e > 0 => X.buf[1] = <<k.n, 1>>)
        /\ (~m.drifted => X.timestamp = m.kind.timestamp)
    BY <2>6, Zenon DEF IsEnlarged
  <2>8. /\ rest \in Seq(Cell) /\ Len(rest) = Len(b) - g /\ \A at \in 1 .. Len(rest) : rest[at] = b[g + at]
    <3>1. /\ rest \in Seq(Cell) /\ Len(rest) = Len(b) - (H + (e - f))
          /\ \A at \in 1 .. Len(rest) : rest[at] = b[H + (e - f) + at]
      BY <2>5, Zenon DEF Split
    <3>2. g = H + (e - f)
      BY <1>7, <2>3, Zenon
    <3> QED BY <3>1, <3>2, Zenon
  <2>9. OnWire(ms, log, cs, r + 1, rest \o w)
    <3> Behind(rest, b, g)
      BY <2>8, Zenon DEF Behind
    <3> QED BY <1>1, <1>2, <1>3, <2>3, NextSynced, Zenon
  <2>10. Len(rest) <= n - 1 /\ Len(rest) <= n /\ n > 0
    BY ONLY <1>8, <2>3, <2>8, <1>3, Len(b) <= n, n \in Nat
  <2>11. \A v : [ns EXCEPT ![ch] = v] = [M EXCEPT ![ch] = v]
    BY <1>1
  <2>12. r + 1 \in 1 .. Len(log)
    BY LogEntries
  <2>13. p = IF Len(X.buf) < X.len THEN Parsing(rest, [ns EXCEPT ![ch] = X], l, TRUE, h)
             ELSE IF X.type = "set chunk" /\ X.len < SIZE_LEN THEN Parsing(rest, [ns EXCEPT ![ch] = X], l, FALSE, h)
             ELSE Parsing(rest, [ns EXCEPT ![ch] = Emptied(X)],
                          IF X.type = "set chunk" THEN C!Announced(X) ELSE l, TRUE, Append(h, X))
    BY <1>11, <1>15, Zenon
  <2>14. /\ z.speak = (IF e = N /\ m.kind.type = "set chunk" THEN m.kind.size ELSE a.speak)
         /\ z.count = (IF e = N THEN a.count + 1 ELSE a.count)
         /\ (e = N => z.count \in 1 .. Len(sp) /\ sp[z.count] = k.n)
    BY <1>2, <1>3, Zenon DEF Step
  \* The message grows.
  <2>15. CASE e < N
    <3>0. e # N
      BY <2>15
    <3> PICK R : R = [M EXCEPT ![ch] = X]
      OBVIOUS
    <3>1. p = Parsing(rest, R, l, TRUE, h)
      BY <2>7, <2>11, <2>13, <2>15, Zenon
    <3>2. R \in [Channels -> Message] /\ Knows(ms, z, R)
      <4>1. IsNext(m, k, e, X)
        BY <1>6, <2>7, <3>0, Zenon DEF IsNext
      <4>2. KnowsAfter(ms, z, [M EXCEPT ![k.ch] = X])
        BY <1>1, <1>2, <1>3, <4>1, KnowsNext, Zenon
      <4> QED BY <4>2, Zenon DEF KnowsAfter
    <3>3. l = z.speak /\ Len(h) = z.count
      BY <1>1, <2>14, <3>0, Zenon
    <3>4. Synced(ms, log, cs, w, rest, R, l, h, r + 1, R)
      BY <2>9, <2>12, <3>2, <3>3, Zenon DEF Synced
    <3>5. Held(ms, sp, log, cs, w, p, n - 1, FALSE)
      <4> Held(ms, sp, log, cs, w, Parsing(rest, R, l, TRUE, h), n - 1, FALSE)
        BY <2>8, <2>10, <3>4, OpenHeld, Zenon
      <4> QED BY <3>1, Zenon
    <3> QED BY <2>10, <3>5, OnwardIs, Zenon
  \* An announcement that is too short.
  <2>16. CASE ~(e < N) /\ X.type = "set chunk" /\ X.len < SIZE_LEN
    <3>1. p = Parsing(rest, [ns EXCEPT ![ch] = X], l, FALSE, h)
      BY <2>7, <2>13, <2>16, Zenon
    <3>2. SomeRefused(ms)
      <4>1. m.kind.type = "set chunk" /\ m.kind.len < SIZE_LEN
        BY <2>7, <2>16, Zenon
      <4>2. C!IsRefused(m)
        BY <4>1, Zenon DEF C!IsRefused
      <4> QED BY <1>2, <1>10, <4>2, Zenon DEF SomeRefused
    <3> PICK R : R = [ns EXCEPT ![ch] = X]
      OBVIOUS
    <3>3. Held(ms, sp, log, cs, w, Parsing(rest, R, l, FALSE, h), n, TRUE)
      BY ONLY <2>8, <2>10, <3>2, l \in Nat \ {0}, Delivered(ms, sp, h), ClosedHeld, Zenon
    <3>4. Held(ms, sp, log, cs, w, p, n, TRUE)
      BY <3>1, <3>3, Zenon
    <3> QED BY <3>4, OnwardIs, Zenon
  \* The message is handled.
  <2>17. CASE ~(e < N) /\ ~(X.type = "set chunk" /\ X.len < SIZE_LEN)
    <3>0. e = N /\ e > 0
      <4>1. e <= N /\ N # 0 /\ ~(e < N)
        BY <1>6, <1>9, <1>15, <2>17, Zenon
      <4> QED BY ONLY <4>1, e \in Nat, N \in Nat
    <3> PICK E : E = Emptied(X)
      OBVIOUS
    <3> PICK R : R = [M EXCEPT ![ch] = E]
      OBVIOUS
    <3> PICK v : v = IF X.type = "set chunk" THEN C!Announced(X) ELSE l
      OBVIOUS
    <3>1. p = Parsing(rest, R, v, TRUE, Append(h, X))
      <4>1. ~(Len(X.buf) < X.len) /\ ~(X.type = "set chunk" /\ X.len < SIZE_LEN)
        BY <2>7, <2>17, Zenon
      <4>2. p = Parsing(rest, [ns EXCEPT ![ch] = E], v, TRUE, Append(h, X))
        BY ONLY <2>13, <4>1, E = Emptied(X), v = IF X.type = "set chunk" THEN C!Announced(X) ELSE l, Zenon
      <4> QED BY <2>11, <4>2, Zenon
    <3>2. /\ E.type = X.type /\ E.len = X.len /\ E.timestamp = X.timestamp /\ E.endpoint = X.endpoint
          /\ E.buf = <<>>
      BY DEF Emptied
    <3>3. E \in Message
      <4>1. /\ X.type \in {"media", "set chunk"} /\ X.len \in Nat /\ X.endpoint \in Nat /\ X.timestamp \in Nat
        BY <2>7 DEF Message
      <4>2. <<>> \in Seq(Nat \X Nat)
        BY EmptySeq, Zenon
      <4>3. E = [type |-> X.type, len |-> X.len, timestamp |-> X.timestamp, endpoint |-> X.endpoint, buf |-> <<>>]
        BY Zenon DEF Emptied
      <4> QED BY ONLY <4>1, <4>2, <4>3 DEF Message
    <3>4. R \in [Channels -> Message] /\ Knows(ms, z, R)
      <4>1. IsNext(m, k, e, E)
        BY <1>6, <2>7, <3>0, <3>2, <3>3, Zenon DEF IsNext
      <4>2. KnowsAfter(ms, z, [M EXCEPT ![k.ch] = E])
        BY <1>1, <1>2, <1>3, <4>1, KnowsNext, Zenon
      <4> QED BY <4>2, Zenon DEF KnowsAfter
    <3>5. v = z.speak
      <4>1. C!Announced(X) = m.kind.size
        <5>1. X.buf[1] = <<k.n, 1>>
          BY <2>7, <3>0, Zenon
        <5>2. X.buf[1][1] = k.n
          BY ONLY <5>1
        <5>3. said[k.n] = m
          BY <1>2, Zenon
        <5> QED BY <5>2, <5>3, Zenon DEF C!Announced
      <4> QED BY <1>1, <2>7, <2>14, <3>0, <4>1, Zenon
    <3>6. v \in Nat \ {0}
      <4> z.speak \in Nat \ {0}
        BY <1>3 DEF State
      <4> QED BY <3>5, Zenon
    <3>7. Len(h) + 1 = z.count /\ Len(h) + 1 \in 1 .. Len(sp) /\ sp[Len(h) + 1] = k.n
      BY <1>1, <2>14, <3>0, Zenon
    <3>8. Whole(ms, X, k.n)
      <4>1. m.kind.len = e /\ e > 0 /\ m = ms[k.n]
        BY <1>2, <3>0, Zenon
      <4> QED BY <1>10, <2>7, <4>1, Zenon DEF Whole
    <3>9. Delivered(ms, sp, Append(h, X)) /\ Len(Append(h, X)) = Len(h) + 1
      <4> DeliveredOne(ms, sp, h, Append(h, X))
        BY <2>7, <3>7, <3>8, Handled, Zenon
      <4> QED BY Zenon DEF DeliveredOne
    <3>10. Synced(ms, log, cs, w, rest, R, v, Append(h, X), r + 1, R)
      BY <2>9, <2>12, <3>4, <3>5, <3>7, <3>9, Zenon DEF Synced
    <3>11. Held(ms, sp, log, cs, w, p, n - 1, FALSE)
      <4> PICK u : u = Append(h, X)
        OBVIOUS
      <4>1. Delivered(ms, sp, u) /\ Synced(ms, log, cs, w, rest, R, v, u, r + 1, R)
        BY <3>9, <3>10, Zenon
      <4>2. Held(ms, sp, log, cs, w, Parsing(rest, R, v, TRUE, u), n - 1, FALSE)
        BY ONLY <2>8, <2>10, <3>6, <4>1, w \in Seq(Cell), OpenHeld, Zenon
      <4> QED BY <3>1, <4>2, Zenon
    <3> QED BY <2>10, <3>11, OnwardIs, Zenon
  <2> QED BY <2>15, <2>16, <2>17, Zenon
<1> QED BY <1>12, <1>13, <1>14, <1>15, Zenon

\* One round more: the loop has ended, or a round took something from the buffer.
LEMMA RoundKeeps ==
  ASSUME C!ChunksAssumption, NEW ms \in Seq(Said), ms = said, NEW sp, NEW log, NEW cs, Log(ms, sp, log, cs),
         NEW w \in Seq(Cell), NEW p, NEW n \in Nat, Held(ms, sp, log, cs, w, p, n, FALSE)
  PROVE  \/ C!Round(p) = p /\ Held(ms, sp, log, cs, w, p, n, TRUE)
         \/ n > 0 /\ Onward(ms, sp, log, cs, w, C!Round(p), n)
<1> PICK b \in Seq(Cell), l \in Nat \ {0}, o \in BOOLEAN : \E xs, h :
           p = Parsing(b, xs, l, o, h) /\ Len(b) <= n /\ HeldAs(ms, sp, log, cs, w, b, xs, l, o, h, FALSE)
  BY Zenon DEF Held
<1> PICK xs, h : p = Parsing(b, xs, l, o, h) /\ Len(b) <= n /\ HeldAs(ms, sp, log, cs, w, b, xs, l, o, h, FALSE)
  OBVIOUS
<1> PICK c : c = Client(b, xs, l, o)
  OBVIOUS
<1>1. /\ Delivered(ms, sp, h) /\ (~o => SomeRefused(ms))
      /\ o => \E r, M : Synced(ms, log, cs, w, b, xs, l, h, r, M)
  BY Zenon DEF HeldAs
<1>2. Len(b) \in Nat /\ Len(w) \in Nat /\ Len(b \o w) = Len(b) + Len(w)
  <2> PICK u : u = b \o w
    OBVIOUS
  <2>1. u = b \o w /\ b \in Seq(Cell) /\ w \in Seq(Cell)
    OBVIOUS
  <2>2. Len(b) \in Nat /\ Len(w) \in Nat /\ Len(u) = Len(b) + Len(w)
    BY ONLY <2>1, Joined
  <2> QED BY <2>2, Zenon
\* Closed.
<1>3. CASE ~o
  <2>1. o = FALSE
    BY <1>3
  <2>2. p = Parsing(b, xs, l, FALSE, h)
    BY <2>1, Zenon
  <2>3. C!Round(Parsing(b, xs, l, o, h)) = Parsing(b, xs, l, o, h)
    <3> Stays(Parsing(b, xs, l, o, h))
      BY <1>3, RoundEnds, Zenon
    <3> QED BY Zenon DEF Stays
  <2>4. Held(ms, sp, log, cs, w, Parsing(b, xs, l, FALSE, h), n, TRUE)
    BY <1>1, <1>3, ClosedHeld, Zenon
  <2> QED BY <2>2, <2>3, <2>4, Zenon
<1>4. CASE o
  <2>0. o = TRUE
    BY <1>4
  <2>1. p = Parsing(b, xs, l, TRUE, h)
    BY <2>0, Zenon
  <2> PICK r, M : Synced(ms, log, cs, w, b, xs, l, h, r, M)
    BY <1>1, <1>4
  <2>2. r \in 1 .. Len(log) /\ OnWire(ms, log, cs, r, b \o w)
    BY Zenon DEF Synced
  <2>3. r # Len(log) => r \in 1 .. Len(cs)
    BY <2>2, LogEntries
  <2> PICK k : k = cs[r]
    OBVIOUS
  <2> PICK m : m = ms[k.n]
    OBVIOUS
  <2> PICK g : g = Len(SegOf(ms, log, cs, r))
    OBVIOUS
  <2>4. ASSUME r # Len(log)
        PROVE  Ahead(ms, sp, log, cs, w, b, r, k, m, g)
    <3> Ahead(ms, sp, log, cs, w, b, r, cs[r], ms[cs[r].n], Len(SegOf(ms, log, cs, r)))
      BY <2>2, <2>3, <2>4, AheadIs, Zenon
    <3> QED BY Zenon
  <2>5. ASSUME r = Len(log) PROVE b = <<>>
    <3> PICK s \in Nat : s = log[r].place
      BY <2>2, LogEntries
    <3>1. Len(b \o w) = s - s
      BY <2>2, <2>5, Zenon DEF OnWire
    <3>2. Len(b) = 0
      BY ONLY <1>2, <3>1, s \in Nat
    <3> QED BY ONLY <3>2, b \in Seq(Cell), EmptySeq
  <2>6. ASSUME b # <<>>, r # Len(log) PROVE C!HeaderLen(c) = C!HEADER_LENGTH[k.fmt]
    <3>1. b[1] = <<"flags", k.fmt, k.ch>>
      BY <2>4, <2>6, Zenon DEF Ahead
    <3>2. c.buf = b
      BY DEF Client
    <3>3. C!Fmt(c) = k.fmt
      <4> PICK u : u = b[1]
        OBVIOUS
      <4>1. u[2] = k.fmt
        BY ONLY u = b[1], <3>1
      <4> QED BY <3>2, <4>1, Zenon DEF C!Fmt
    <3> QED BY <3>3, Zenon DEF C!HeaderLen
  \* Nothing there, or no whole header.
  <2>7. CASE b = <<>> \/ Len(b) < C!HeaderLen(c)
    <3>1. C!Round(Parsing(b, xs, l, TRUE, h)) = Parsing(b, xs, l, TRUE, h)
      <4>1. C!Round(Parsing(b, xs, l, o, h)) = Parsing(b, xs, l, o, h)
        <5> b = <<>> \/ Len(b) < C!HeaderLen(Client(b, xs, l, o))
          BY <2>7, Zenon
        <5>1. Stays(Parsing(b, xs, l, o, h))
          BY RoundEnds, Zenon
        <5> QED BY <5>1, Zenon DEF Stays
      <4> QED BY <2>0, <4>1, Zenon
    <3>2. ASSUME w = <<>> PROVE r = Len(log)
      <4> SUFFICES ASSUME r # Len(log) PROVE FALSE
        OBVIOUS
      <4> PICK H \in 1 .. 5 : H = C!HEADER_LENGTH[k.fmt] /\ g >= H /\ Len(b) >= g
        BY <2>4, <3>2, Zenon DEF Ahead
      <4>1. g \in Nat
        BY <2>4, Zenon DEF Ahead, IsFirst
      <4>2. Len(b) # 0 /\ ~(Len(b) < H)
        BY ONLY <1>2, <4>1, H \in 1 .. 5, g >= H, Len(b) >= g
      <4>3. b # <<>>
        BY ONLY <4>2, EmptySeq
      <4> QED BY <2>6, <2>7, <4>2, <4>3, Zenon
    <3>3. Held(ms, sp, log, cs, w, Parsing(b, xs, l, TRUE, h), n, TRUE)
      BY <1>1, <3>1, <3>2, EndHeld, Zenon
    <3> QED BY <2>1, <3>1, <3>3, Zenon
  \* A whole header.
  <2>8. CASE b # <<>> /\ ~(Len(b) < C!HeaderLen(c))
    <3>1. r # Len(log) /\ r \in 1 .. Len(cs)
      BY <2>3, <2>5, <2>8, Zenon
    <3> PICK H \in 1 .. 5 : H = C!HEADER_LENGTH[k.fmt]
      BY <2>4, <3>1, Zenon DEF Ahead
    <3>2. ~(Len(b) < H)
      BY <2>6, <2>8, <3>1, Zenon
    <3>3. Len(b) >= H
      BY ONLY <1>2, <3>2, H \in 1 .. 5
    <3>4. Len(b) >= C!HEADER_LENGTH[k.fmt]
      BY <3>3, Zenon
    <3>5. Onward(ms, sp, log, cs, w, C!Round(Parsing(b, xs, l, TRUE, h)), n)
      BY <1>1, <2>4, <2>8, <3>1, <3>4, RoundTakes, Zenon
    <3>6. n > 0
      BY ONLY <1>2, <3>3, H \in 1 .. 5, Len(b) <= n, n \in Nat
    <3> QED BY <2>1, <3>5, <3>6, Zenon
  <2> QED BY <2>7, <2>8
<1> QED BY <1>3, <1>4

\* The rounds from p on.
Rounds(p, n, f) == f = [j \in 0 .. n |-> IF j = 0 THEN p ELSE C!Round(f[j - 1])]

\* There are such rounds: the least number of them for which there were none would have
\* rounds before it.
LEMMA RoundsAre ==
  ASSUME NEW p, NEW n \in Nat
  PROVE  \E f : Rounds(p, n, f)
<1> DEFINE Has(m) == \E f : Rounds(p, m, f)
           I == {m \in 0 .. n : ~Has(m)}
<1>1. Has(0)
  <2> DEFINE g == [j \in 0 .. 0 |-> p]
  <2>1. g = [j \in 0 .. 0 |-> IF j = 0 THEN p ELSE C!Round(g[j - 1])]
    <3>1. \A j \in 0 .. 0 : j = 0
      OBVIOUS
    <3> QED BY <3>1, Zenon
  <2> QED BY <2>1, Zenon DEF Rounds
<1>2. ASSUME NEW m \in 1 .. n, Has(m - 1) PROVE Has(m)
  <2> PICK f : Rounds(p, m - 1, f)
    BY <1>2
  <2> DEFINE g == [j \in 0 .. m |-> IF j = m THEN C!Round(f[m - 1]) ELSE f[j]]
             h == [j \in 0 .. m |-> IF j = 0 THEN p ELSE C!Round(g[j - 1])]
  <2>1. \A j \in 0 .. m - 1 : f[j] = IF j = 0 THEN p ELSE C!Round(f[j - 1])
    BY DEF Rounds
  <2>2. ASSUME NEW j \in 0 .. m PROVE g[j] = h[j]
    <3>1. CASE j = m
      <4>1. m - 1 \in 0 .. m /\ m - 1 # m /\ m # 0 /\ j # 0
        BY <3>1
      <4>2. g[j - 1] = f[m - 1] /\ h[j] = C!Round(g[j - 1])
        BY <3>1, <4>1, Zenon
      <4>3. g[j] = C!Round(f[m - 1])
        BY <3>1, Zenon
      <4> QED BY <4>2, <4>3, Zenon
    <3>2. CASE j # m /\ j = 0
      <4>1. j \in 0 .. m - 1
        BY <3>2
      <4> QED BY <2>1, <3>2, <4>1, Zenon
    <3>3. CASE j # m /\ j # 0
      <4>1. j \in 0 .. m - 1 /\ j - 1 \in 0 .. m /\ j - 1 # m
        BY <3>3
      <4>2. g[j - 1] = f[j - 1] /\ h[j] = C!Round(g[j - 1])
        BY <3>3, <4>1, Zenon
      <4>3. g[j] = C!Round(f[j - 1])
        BY <2>1, <3>3, <4>1, Zenon
      <4> QED BY <4>2, <4>3, Zenon
    <3> QED BY <3>1, <3>2, <3>3, Zenon
  <2>3. g = h
    BY <2>2, Zenon
  <2> QED BY <2>3, Zenon DEF Rounds
<1> HIDE DEF Has
<1>3. ASSUME I # {} PROVE FALSE
  <2>0. I \in SUBSET Nat
    OBVIOUS
  <2>1. Min(I) \in I /\ \A y \in I : Min(I) <= y
    <3> HIDE DEF I
    <3> QED BY <1>3, <2>0, Least
  <2> PICK m \in I : \A y \in I : m <= y
    BY <2>1
  <2>2. m # 0 /\ m \in 1 .. n
    BY <1>1
  <2>3. Has(m - 1)
    <3> m - 1 \in 0 .. n /\ ~(m <= m - 1)
      BY <2>2
    <3> QED OBVIOUS
  <2> QED BY <1>2, <2>2, <2>3
<1>4. Has(n)
  BY <1>3
<1> QED BY <1>4 DEF Has

\* The loop of recv_from_client.
LEMMA ParseKeeps ==
  ASSUME C!ChunksAssumption, NEW ms \in Seq(Said), ms = said, NEW sp, NEW log, NEW cs, Log(ms, sp, log, cs),
         NEW w \in Seq(Cell), NEW p, Len(p.c.buf) \in Nat,
         Held(ms, sp, log, cs, w, p, Len(p.c.buf), FALSE)
  PROVE  \E n \in Nat : Held(ms, sp, log, cs, w, C!Parse(p), n, TRUE)
<1> PICK n \in Nat : n = Len(p.c.buf)
  OBVIOUS
<1> DEFINE rounds == CHOOSE f : Rounds(p, n, f)
<1> PICK f : f = rounds
  OBVIOUS
<1>1. C!Parse(p) = f[n]
  BY Zenon DEF C!Parse, Rounds
<1>2. Rounds(p, n, f)
  BY RoundsAre, Zenon
<1>3. \A j \in 0 .. n : f[j] = IF j = 0 THEN p ELSE C!Round(f[j - 1])
  BY <1>2 DEF Rounds
<1> HIDE DEF rounds
<1> DEFINE Open(j) == Held(ms, sp, log, cs, w, f[j], n - j, FALSE)
           Over(j) == \E k \in Nat : C!Round(f[j]) = f[j] /\ Held(ms, sp, log, cs, w, f[j], k, TRUE)
           Good(j) == Open(j) \/ Over(j)
           I == {j \in 0 .. n : ~Good(j)}
<1>4. Good(0)
  <2>1. f[0] = p /\ n - 0 = n
    BY <1>3
  <2> QED BY <2>1, Zenon
<1>5. ASSUME NEW j \in 1 .. n, Good(j - 1) PROVE Good(j)
  <2>1. j \in 0 .. n /\ j # 0 /\ j - 1 \in 0 .. n /\ n - (j - 1) \in Nat /\ (n - (j - 1)) - 1 = n - j
    OBVIOUS
  <2>2. f[j] = C!Round(f[j - 1])
    BY <1>3, <2>1, Zenon
  <2>3. CASE Over(j - 1)
    BY <2>2, <2>3, Zenon
  <2>4. CASE Open(j - 1)
    <3> PICK q : q = f[j - 1]
      OBVIOUS
    <3> PICK v \in Nat : v = n - (j - 1)
      BY <2>1
    <3>1. Held(ms, sp, log, cs, w, q, v, FALSE)
      BY <2>4, Zenon
    <3>2. \/ C!Round(q) = q /\ Held(ms, sp, log, cs, w, q, v, TRUE)
          \/ v > 0 /\ Onward(ms, sp, log, cs, w, C!Round(q), v)
      BY <3>1, RoundKeeps, Zenon
    <3>3. CASE C!Round(q) = q /\ Held(ms, sp, log, cs, w, q, v, TRUE)
      BY <2>2, <3>3, Zenon
    <3>4. CASE Onward(ms, sp, log, cs, w, C!Round(q), v)
      <4>1. CASE Held(ms, sp, log, cs, w, C!Round(q), v, TRUE)
        <5>1. C!Round(C!Round(q)) = C!Round(q)
          BY <4>1, Zenon DEF Held, HeldAs
        <5> QED BY <2>2, <4>1, <5>1, Zenon
      <4>2. CASE Held(ms, sp, log, cs, w, C!Round(q), v - 1, FALSE)
        BY <2>1, <2>2, <4>2, Zenon
      <4> QED BY <3>4, <4>1, <4>2 DEF Onward
    <3> QED BY <3>2, <3>3, <3>4
  <2> QED BY <1>5, <2>3, <2>4
<1> HIDE DEF Open, Over
<1>6. ASSUME I # {} PROVE FALSE
  <2>0. I \in SUBSET Nat
    OBVIOUS
  <2>1. Min(I) \in I /\ \A y \in I : Min(I) <= y
    <3> HIDE DEF I
    <3> QED BY <1>6, <2>0, Least
  <2> PICK m \in I : \A y \in I : m <= y
    BY <2>1
  <2>2. m # 0 /\ m \in 1 .. n
    BY <1>4
  <2>3. Good(m - 1)
    <3> m - 1 \in 0 .. n /\ ~(m <= m - 1)
      BY <2>2
    <3> QED OBVIOUS
  <2> QED BY <1>5, <2>2, <2>3
<1>7. Good(n)
  BY <1>6
<1>8. CASE Over(n)
  BY <1>1, <1>8, Zenon DEF Over
<1>9. CASE Open(n)
  <2>1. Held(ms, sp, log, cs, w, f[n], 0, FALSE)
    <3> n - n = 0
      OBVIOUS
    <3> QED BY <1>9, Zenon DEF Open
  <2> PICK q : q = f[n]
    OBVIOUS
  <2>2. Held(ms, sp, log, cs, w, q, 0, TRUE)
    <3>1. 0 \in Nat /\ ~(0 > 0)
      OBVIOUS
    <3>2. Held(ms, sp, log, cs, w, q, 0, FALSE)
      BY <2>1, Zenon
    <3>3. \/ C!Round(q) = q /\ Held(ms, sp, log, cs, w, q, 0, TRUE)
          \/ 0 > 0 /\ Onward(ms, sp, log, cs, w, C!Round(q), 0)
      BY <3>1, <3>2, RoundKeeps, Zenon
    <3> QED BY <3>1, <3>3, Zenon
  <2>3. 0 \in Nat
    OBVIOUS
  <2> QED BY <1>1, <2>2, <2>3, Zenon
<1> QED BY <1>7, <1>8, <1>9
-----------------------------------------------------------------------------
\* The log grows.

\* t begins with s.
Longer(s, t) == Len(s) <= Len(t) /\ \A j \in 1 .. Len(s) : t[j] = s[j]

\* An entry of s is one of t.
LEMMA LongerEntry ==
  ASSUME NEW s, NEW t, Len(s) \in Nat, Len(t) \in Nat, Longer(s, t), NEW n \in 1 .. Len(s)
  PROVE  n \in 1 .. Len(t) /\ t[n] = s[n]
<1>1. Len(s) <= Len(t) /\ t[n] = s[n]
  BY Zenon DEF Longer
<1> QED BY <1>1

\* Nothing, or one thing more.
LEMMA LongerIs ==
  ASSUME NEW T, NEW s \in Seq(T), NEW x \in T
  PROVE  /\ Longer(s, s) /\ Longer(s, Append(s, x))
         /\ Append(s, x) \in Seq(T) /\ Len(Append(s, x)) = Len(s) + 1 /\ Append(s, x)[Len(s) + 1] = x
         /\ Len(s) \in Nat
<1> PICK u : u = Append(s, x)
  OBVIOUS
<1>1. /\ u \in Seq(T) /\ Len(u) = Len(s) + 1 /\ Len(s) \in Nat /\ u[Len(s) + 1] = x
      /\ \A j \in 1 .. Len(s) : u[j] = s[j]
  BY AppendProperties, LenProperties
<1>2. Longer(s, s) /\ Longer(s, u)
  BY <1>1 DEF Longer
<1> QED BY <1>1, <1>2, Zenon

\* What was said, sent and taken stays true when the peer says more.
LEMMA StepStable ==
  ASSUME NEW ms, NEW ns, NEW sp, NEW tp, Len(ms) \in Nat, Len(ns) \in Nat, Len(sp) \in Nat, Len(tp) \in Nat,
         Longer(ms, ns), Longer(sp, tp), NEW a, NEW k, NEW b, Step(ms, sp, a, k, b)
  PROVE  Step(ns, tp, a, k, b)
<1> PICK m : m = ms[k.n]
  OBVIOUS
<1> PICK to : to = End(m, a, k)
  OBVIOUS
<1>1. /\ k.n \in 1 .. Len(ms) /\ (Proceeds(m, a, k) \/ Opens(ms, m, a, k))
      /\ b.under = [a.under EXCEPT ![k.ch] = [msg |-> k.n, pos |-> to]]
      /\ b.speak = (IF to = m.kind.len /\ m.kind.type = "set chunk" THEN m.kind.size ELSE a.speak)
      /\ b.count = (IF to = m.kind.len THEN a.count + 1 ELSE a.count)
      /\ (to = m.kind.len => b.count \in 1 .. Len(sp) /\ sp[b.count] = k.n)
      /\ b.place = a.place + Len(Seg(m, a, k))
  BY Zenon DEF Step
<1>2. k.n \in 1 .. Len(ns) /\ m = ns[k.n]
  <2> PICK n \in 1 .. Len(ms) : n = k.n
    BY <1>1
  <2>1. n \in 1 .. Len(ns) /\ ns[n] = ms[n]
    BY LongerEntry, Zenon
  <2> QED BY <2>1, Zenon
<1>3. to = m.kind.len => b.count \in 1 .. Len(tp) /\ tp[b.count] = k.n
  <2> SUFFICES ASSUME to = m.kind.len PROVE b.count \in 1 .. Len(tp) /\ tp[b.count] = k.n
    OBVIOUS
  <2>1. b.count \in 1 .. Len(sp) /\ sp[b.count] = k.n
    BY <1>1, Zenon
  <2>2. b.count \in 1 .. Len(tp) /\ tp[b.count] = sp[b.count]
    BY <2>1, LongerEntry, Zenon
  <2> QED BY <2>1, <2>2, Zenon
<1>4. Opens(ms, m, a, k) => Opens(ns, m, a, k)
  <2> SUFFICES ASSUME Opens(ms, m, a, k) PROVE Opens(ns, m, a, k)
    OBVIOUS
  <2> PICK u : u = a.under[k.ch]
    OBVIOUS
  <2>1. /\ k.from = 0 /\ m.fmt = k.fmt
        /\ \/ u.msg = 0 /\ k.fmt = 0
           \/ /\ u.msg \in 1 .. Len(ms) /\ u.pos = ms[u.msg].kind.len
              /\ k.fmt # 0 => Succeeds(m, ms[u.msg])
    BY Zenon DEF Opens
  <2>2. u.msg \in 1 .. Len(ms) => u.msg \in 1 .. Len(ns) /\ ns[u.msg] = ms[u.msg]
    BY LongerEntry, Zenon
  <2>3. /\ k.from = 0 /\ m.fmt = k.fmt
        /\ \/ u.msg = 0 /\ k.fmt = 0
           \/ /\ u.msg \in 1 .. Len(ns) /\ u.pos = ns[u.msg].kind.len
              /\ k.fmt # 0 => Succeeds(m, ns[u.msg])
    BY <2>1, <2>2, Zenon
  <2> QED BY <2>3, Zenon DEF Opens
<1> QED BY <1>1, <1>2, <1>3, <1>4, Zenon DEF Step

\* What the server knows stays true when the peer says more.
LEMMA KnowsStable ==
  ASSUME NEW ms, NEW ns, Len(ms) \in Nat, Len(ns) \in Nat, Longer(ms, ns), NEW a, NEW M, Knows(ms, a, M)
  PROVE  Knows(ns, a, M)
<1>1. ASSUME NEW u, NEW y, KnowsOf(ms, u, y) PROVE KnowsOf(ns, u, y)
  <2>1. CASE u.msg = 0
    BY <1>1, <2>1, Zenon DEF KnowsOf
  <2>2. CASE u.msg # 0
    <3>1. u.msg \in 1 .. Len(ms)
      BY <1>1, <2>2, Zenon DEF KnowsOf
    <3> PICK n \in 1 .. Len(ms) : n = u.msg
      BY <3>1
    <3>2. n \in 1 .. Len(ns) /\ ns[n] = ms[n]
      BY LongerEntry, Zenon
    <3>3. u.msg \in 1 .. Len(ns) /\ ns[u.msg] = ms[u.msg]
      BY <3>2, Zenon
    <3> QED BY <1>1, <2>2, <3>3, Zenon DEF KnowsOf
  <2> QED BY <2>1, <2>2
<1> QED BY <1>1, Zenon DEF Knows

\* So does what was handled.
LEMMA DeliveredStable ==
  ASSUME NEW ms, NEW ns, NEW sp, NEW tp, Len(ms) \in Nat, Len(ns) \in Nat, Len(sp) \in Nat, Len(tp) \in Nat,
         Longer(ms, ns), Longer(sp, tp), NEW h, Delivered(ms, sp, h)
  PROVE  Delivered(ns, tp, h)
<1>1. /\ h \in Seq(Message) /\ Len(h) <= Len(sp) /\ \A j \in 1 .. Len(h) : Whole(ms, h[j], sp[j])
  BY Zenon DEF Delivered
<1>2. Len(h) <= Len(tp) /\ Len(h) \in Nat
  <2>1. Len(sp) <= Len(tp)
    BY Zenon DEF Longer
  <2>2. Len(h) \in Nat
    BY ONLY <1>1, LenProperties
  <2> QED BY ONLY <1>1, <2>1, <2>2, Len(sp) \in Nat, Len(tp) \in Nat
<1>3. ASSUME NEW j \in 1 .. Len(h) PROVE Whole(ns, h[j], tp[j])
  <2>1. j \in 1 .. Len(sp)
    BY ONLY <1>1, <1>2, j \in 1 .. Len(h), Len(sp) \in Nat
  <2>2. tp[j] = sp[j]
    BY ONLY Longer(sp, tp), <2>1, Zenon DEF Longer
  <2> PICK n : n = sp[j]
    OBVIOUS
  <2>3. Whole(ms, h[j], n)
    BY <1>1, Zenon
  <2>4. n \in 1 .. Len(ms)
    BY <2>3, Zenon DEF Whole
  <2>5. n \in 1 .. Len(ns) /\ ns[n] = ms[n]
    BY <2>4, LongerEntry, Zenon
  <2>6. Whole(ns, h[j], n)
    BY <2>3, <2>5, Zenon DEF Whole
  <2> QED BY <2>2, <2>6, Zenon
<1> QED BY <1>1, <1>2, <1>3, Zenon DEF Delivered

\* A message that is refused stays one.
LEMMA RefusedStable ==
  ASSUME NEW ms, NEW ns, Len(ms) \in Nat, Len(ns) \in Nat, Longer(ms, ns), SomeRefused(ms)
  PROVE  SomeRefused(ns)
<1> PICK n \in 1 .. Len(ms) : C!IsRefused(ms[n])
  BY Zenon DEF SomeRefused
<1>1. n \in 1 .. Len(ns) /\ ns[n] = ms[n]
  BY LongerEntry, Zenon
<1> QED BY <1>1, Zenon DEF SomeRefused

\* One more chunk, and the state after it.
LEMMA LogGrows ==
  ASSUME NEW ms, NEW ns, NEW sp, NEW tp, Len(ms) \in Nat, Len(ns) \in Nat, Len(sp) \in Nat, Len(tp) \in Nat,
         Longer(ms, ns), Longer(sp, tp), NEW log, NEW cs, Log(ms, sp, log, cs),
         NEW k \in ChunkSent, NEW z \in State, Step(ns, tp, log[Len(log)], k, z),
         z.count <= Len(tp), log[Len(log)].place <= z.place
  PROVE  Log(ns, tp, Append(log, z), Append(cs, k))
<1>1. /\ log \in Seq(State) /\ cs \in Seq(ChunkSent) /\ Len(log) = Len(cs) + 1
      /\ (\A j \in 1 .. Len(cs) : Step(ms, sp, log[j], cs[j], log[j + 1]))
      /\ (\A j, n \in 1 .. Len(log) : j <= n => log[j].place <= log[n].place)
      /\ \A j \in 1 .. Len(log) : log[j].count <= Len(sp)
  BY Zenon DEF Log
<1> PICK N \in Nat : N = Len(cs)
  BY <1>1, LenProperties
<1> PICK lg : lg = Append(log, z)
  OBVIOUS
<1> PICK ks : ks = Append(cs, k)
  OBVIOUS
<1>2. /\ lg \in Seq(State) /\ Len(log) = N + 1 /\ Len(lg) = N + 2 /\ lg[N + 2] = z
      /\ \A j \in 1 .. N + 1 : lg[j] = log[j]
  BY <1>1, AppendProperties, LenProperties
<1>3. ks \in Seq(ChunkSent) /\ Len(ks) = N + 1 /\ ks[N + 1] = k /\ \A j \in 1 .. N : ks[j] = cs[j]
  BY <1>1, AppendProperties, LenProperties
<1>4. ASSUME NEW j \in 1 .. Len(ks) PROVE Step(ns, tp, lg[j], ks[j], lg[j + 1])
  <2>1. CASE j \in 1 .. N
    <3>1. j \in 1 .. Len(cs) /\ j \in 1 .. N + 1 /\ j + 1 \in 1 .. N + 1
      BY <2>1
    <3>2. lg[j] = log[j] /\ ks[j] = cs[j] /\ lg[j + 1] = log[j + 1]
      BY <1>2, <1>3, <2>1, <3>1, Zenon
    <3>3. Step(ms, sp, log[j], cs[j], log[j + 1])
      BY <1>1, <3>1, Zenon
    <3>4. Step(ns, tp, log[j], cs[j], log[j + 1])
      <4>1. Step(ms, sp, log[j], cs[j], log[j + 1]) => Step(ns, tp, log[j], cs[j], log[j + 1])
        BY StepStable
      <4> QED BY <3>3, <4>1, Zenon
    <3> QED BY <3>2, <3>4, Zenon
  <2>2. CASE j = N + 1
    <3>1. N + 1 \in 1 .. N + 1 /\ (N + 1) + 1 = N + 2
      OBVIOUS
    <3>2. lg[j] = log[Len(log)] /\ ks[j] = k /\ lg[j + 1] = z
      BY <1>2, <1>3, <2>2, <3>1, Zenon
    <3> QED BY <3>2, Zenon
  <2>3. j \in 1 .. N \/ j = N + 1
    BY ONLY <1>3, N \in Nat, j \in 1 .. Len(ks)
  <2> QED BY <2>1, <2>2, <2>3, Zenon
<1>5. ASSUME NEW j \in 1 .. Len(lg), NEW n \in 1 .. Len(lg), j <= n PROVE lg[j].place <= lg[n].place
  <2>0. N + 1 \in 1 .. Len(log) /\ N + 1 \in 1 .. N + 1 /\ Len(log) = N + 1
    BY <1>2
  <2>1. CASE n \in 1 .. N + 1
    <3>1. j \in 1 .. N + 1 /\ j \in 1 .. Len(log) /\ n \in 1 .. Len(log)
      BY <1>2, <1>5, <2>1
    <3> QED BY <1>1, <1>2, <1>5, <2>1, <3>1, Zenon
  <2>2. CASE n = N + 2 /\ j \in 1 .. N + 1
    <3>1. j \in 1 .. Len(log) /\ j <= N + 1
      BY <1>2, <2>2
    <3>2. log[j].place <= log[N + 1].place
      BY <1>1, <2>0, <3>1, Zenon
    <3>3. log[j].place \in Nat /\ log[N + 1].place \in Nat /\ z.place \in Nat
      <4> z.place \in Nat
        BY DEF State
      <4> QED BY <2>0, <3>1, LogEntries
    <3>4. log[N + 1].place <= z.place
      BY <1>2, Zenon
    <3>5. log[j].place <= z.place
      BY ONLY <3>2, <3>3, <3>4
    <3> QED BY <1>2, <2>2, <3>5, Zenon
  <2>3. CASE n = N + 2 /\ j = N + 2
    <3> z.place \in Nat
      BY DEF State
    <3>1. z.place <= z.place
      OBVIOUS
    <3> QED BY <1>2, <2>3, <3>1, Zenon
  <2> QED BY <1>2, <2>1, <2>2, <2>3
<1>6. ASSUME NEW j \in 1 .. Len(lg) PROVE lg[j].count <= Len(tp)
  <2>1. CASE j \in 1 .. N + 1
    <3>1. j \in 1 .. Len(log) /\ lg[j] = log[j]
      BY <1>2, <2>1
    <3>2. lg[j].count <= Len(sp) /\ lg[j].count \in Nat
      BY <1>1, <3>1, LogEntries
    <3>3. Len(sp) <= Len(tp)
      BY DEF Longer
    <3> QED BY <3>2, <3>3
  <2>2. CASE j = N + 2
    BY <1>2, <2>2, Zenon
  <2> QED BY <1>2, <2>1, <2>2
<1>7. Len(lg) = Len(ks) + 1
  BY <1>2, <1>3
<1>8. Log(ns, tp, lg, ks)
  BY <1>2, <1>3, <1>4, <1>5, <1>6, <1>7, Zenon DEF Log
<1> QED BY <1>8, Zenon

\* Its cells go behind the others.
LEMMA WireGrows ==
  ASSUME NEW ms, NEW ns, NEW sp, Len(ms) \in Nat, Len(ns) \in Nat, Longer(ms, ns),
         NEW log, NEW cs, Log(ms, sp, log, cs),
         NEW k \in ChunkSent, NEW z \in State, NEW x \in Seq(Cell), x = Seg(ns[k.n], log[Len(log)], k),
         z.place = log[Len(log)].place + Len(x),
         NEW r, NEW s, OnWire(ms, log, cs, r, s)
  PROVE  OnWire(ns, Append(log, z), Append(cs, k), r, s \o x)
<1>1. /\ log \in Seq(State) /\ cs \in Seq(ChunkSent) /\ Len(log) = Len(cs) + 1
      /\ (\A j \in 1 .. Len(cs) : Step(ms, sp, log[j], cs[j], log[j + 1]))
      /\ (\A j, n \in 1 .. Len(log) : j <= n => log[j].place <= log[n].place)
  BY Zenon DEF Log
<1> PICK N \in Nat : N = Len(cs)
  BY <1>1, LenProperties
<1> PICK lg : lg = Append(log, z)
  OBVIOUS
<1> PICK ks : ks = Append(cs, k)
  OBVIOUS
<1>2. /\ lg \in Seq(State) /\ Len(log) = N + 1 /\ Len(lg) = N + 2 /\ lg[N + 2] = z
      /\ \A j \in 1 .. N + 1 : lg[j] = log[j]
  BY <1>1, AppendProperties, LenProperties
<1>3. ks \in Seq(ChunkSent) /\ Len(ks) = N + 1 /\ ks[N + 1] = k /\ \A j \in 1 .. N : ks[j] = cs[j]
  BY <1>1, AppendProperties, LenProperties
<1>4. /\ s \in Seq(Cell) /\ r \in 1 .. Len(log) /\ Len(s) = log[Len(log)].place - log[r].place
      /\ \A j \in r .. Len(cs) : \A n \in 1 .. Len(SegOf(ms, log, cs, j)) :
           s[(log[j].place - log[r].place) + n] = SegOf(ms, log, cs, j)[n]
  BY Zenon DEF OnWire
<1>5. r \in 1 .. N + 1 /\ r \in 1 .. N + 2 /\ N + 1 \in 1 .. N + 1 /\ N + 1 \in 1 .. Len(log)
  BY <1>2, <1>4
<1> PICK p \in Nat : p = log[r].place
  BY <1>4, LogEntries
<1> PICK e \in Nat : e = log[N + 1].place
  BY <1>5, LogEntries
<1>6. lg[r].place = p /\ lg[N + 1].place = e /\ lg[N + 2].place = z.place
  BY <1>2, <1>5, Zenon
<1> PICK u : u = s \o x
  OBVIOUS
<1>7. /\ u \in Seq(Cell) /\ Len(s) \in Nat /\ Len(x) \in Nat /\ Len(u) = Len(s) + Len(x)
      /\ (\A j \in 1 .. Len(s) : u[j] = s[j]) /\ \A j \in 1 .. Len(x) : u[Len(s) + j] = x[j]
  <2>1. u = s \o x /\ s \in Seq(Cell) /\ x \in Seq(Cell)
    BY <1>4
  <2> QED BY ONLY <2>1, Joined
<1>8. Len(s) = e - p /\ z.place = e + Len(x)
  BY <1>2, <1>4, Zenon
<1>9. Len(u) = lg[Len(lg)].place - lg[r].place
  <2>1. Len(u) = z.place - p
    BY ONLY <1>7, <1>8, e \in Nat, p \in Nat
  <2> QED BY <1>2, <1>6, <2>1, Zenon
<1>10. ASSUME NEW j \in r .. N, NEW n \in 1 .. Len(SegOf(ns, lg, ks, j))
       PROVE  u[(lg[j].place - lg[r].place) + n] = SegOf(ns, lg, ks, j)[n]
  <2>1. j \in 1 .. N /\ j \in 1 .. N + 1 /\ j + 1 \in 1 .. N + 1 /\ j \in r .. Len(cs) /\ r <= j /\ j + 1 <= N + 1
        /\ j \in 1 .. Len(cs) /\ j \in 1 .. Len(log) /\ j + 1 \in 1 .. Len(log)
    BY <1>2, <1>5
  <2>2. lg[j] = log[j] /\ ks[j] = cs[j]
    BY <1>2, <1>3, <2>1, Zenon
  <2>3. Step(ms, sp, log[j], cs[j], log[j + 1])
    BY <1>1, <2>1, Zenon
  <2> PICK i1 : i1 = cs[j].n
    OBVIOUS
  <2>4. i1 \in 1 .. Len(ms)
    BY <2>3, Zenon DEF Step
  <2>5. ns[i1] = ms[i1]
    BY <2>4, LongerEntry, Zenon
  <2> PICK y : y = SegOf(ms, log, cs, j)
    OBVIOUS
  <2>6. SegOf(ns, lg, ks, j) = y
    BY <2>2, <2>5, Zenon DEF SegOf
  <2> PICK q \in Nat : q = log[j].place
    BY <2>1, LogEntries
  <2> PICK v \in Nat : v = log[j + 1].place
    BY <2>1, LogEntries
  <2>7. v = q + Len(y)
    BY <2>3, Zenon DEF Step, SegOf
  <2>8. p <= q /\ v <= e
    BY <1>1, <1>5, <2>1, Zenon
  <2>9. n \in 1 .. Len(y)
    BY <2>6, Zenon
  <2>10. (q - p) + n \in 1 .. Len(s)
    BY ONLY <1>8, <2>7, <2>8, <2>9, p \in Nat, q \in Nat, v \in Nat, e \in Nat
  <2>11. s[(q - p) + n] = y[n]
    BY <1>4, <2>1, <2>9, Zenon
  <2>12. u[(q - p) + n] = y[n]
    BY <1>7, <2>10, <2>11, Zenon
  <2> QED BY <1>6, <2>2, <2>6, <2>12, Zenon
<1>11. ASSUME NEW n \in 1 .. Len(SegOf(ns, lg, ks, N + 1))
       PROVE  u[(lg[N + 1].place - lg[r].place) + n] = SegOf(ns, lg, ks, N + 1)[n]
  <2>1. SegOf(ns, lg, ks, N + 1) = x
    BY <1>2, <1>3, <1>5, Zenon DEF SegOf
  <2>2. n \in 1 .. Len(x)
    BY <2>1, Zenon
  <2>3. u[Len(s) + n] = x[n]
    BY <1>7, <2>2, Zenon
  <2> QED BY <1>6, <1>8, <2>1, <2>3, Zenon
<1>12. ASSUME NEW j \in r .. Len(ks), NEW n \in 1 .. Len(SegOf(ns, lg, ks, j))
       PROVE  u[(lg[j].place - lg[r].place) + n] = SegOf(ns, lg, ks, j)[n]
  <2>1. CASE j \in r .. N
    BY <1>10, <2>1, Zenon
  <2>2. CASE j = N + 1
    BY <1>11, <2>2, Zenon
  <2>3. j \in r .. N \/ j = N + 1
    BY <1>3, <1>5
  <2> QED BY <2>1, <2>2, <2>3, Zenon
<1>13. r \in 1 .. Len(lg)
  BY <1>2, <1>5
<1>14. OnWire(ns, lg, ks, r, u)
  BY <1>7, <1>9, <1>12, <1>13, Zenon DEF OnWire
<1> QED BY <1>14, Zenon

\* The server sees nothing of it before it arrives.
LEMMA SyncedStable ==
  ASSUME NEW ms, NEW ns, NEW sp, Len(ms) \in Nat, Len(ns) \in Nat, Longer(ms, ns),
         NEW log, NEW cs, Log(ms, sp, log, cs),
         NEW k \in ChunkSent, NEW z \in State, NEW x \in Seq(Cell), x = Seg(ns[k.n], log[Len(log)], k),
         z.place = log[Len(log)].place + Len(x),
         NEW w \in Seq(Cell), NEW b \in Seq(Cell), NEW xs, NEW l, NEW h, NEW r, NEW M,
         Synced(ms, log, cs, w, b, xs, l, h, r, M)
  PROVE  Synced(ns, Append(log, z), Append(cs, k), w \o x, b, xs, l, h, r, M)
<1>1. /\ M \in [Channels -> Message] /\ r \in 1 .. Len(log) /\ Knows(ms, log[r], M)
      /\ OnWire(ms, log, cs, r, b \o w) /\ l = log[r].speak /\ Len(h) = log[r].count
      /\ \/ xs = M
         \/ r \in 1 .. Len(cs) /\ xs = [M EXCEPT ![cs[r].ch] = Due(ms[cs[r].n], M[cs[r].ch])]
  BY Zenon DEF Synced
<1>2. /\ log \in Seq(State) /\ cs \in Seq(ChunkSent)
      /\ \A j \in 1 .. Len(cs) : Step(ms, sp, log[j], cs[j], log[j + 1])
  BY Zenon DEF Log
<1> PICK lg : lg = Append(log, z)
  OBVIOUS
<1> PICK ks : ks = Append(cs, k)
  OBVIOUS
<1>3. Len(lg) = Len(log) + 1 /\ Len(log) \in Nat /\ \A j \in 1 .. Len(log) : lg[j] = log[j]
  BY <1>2, AppendProperties, LenProperties
<1>4. Len(ks) = Len(cs) + 1 /\ Len(cs) \in Nat /\ \A j \in 1 .. Len(cs) : ks[j] = cs[j]
  BY <1>2, AppendProperties, LenProperties
<1>5. r \in 1 .. Len(lg) /\ lg[r] = log[r]
  BY <1>1, <1>3
<1>6. OnWire(ns, lg, ks, r, (b \o w) \o x)
  BY <1>1, WireGrows, Zenon
<1>7. (b \o w) \o x = b \o (w \o x)
  BY ONLY b \in Seq(Cell), w \in Seq(Cell), x \in Seq(Cell), ConcatAssociative
<1>8. Knows(ns, log[r], M)
  BY <1>1, KnowsStable, Zenon
<1>9. ASSUME r \in 1 .. Len(cs) PROVE r \in 1 .. Len(ks) /\ ks[r] = cs[r] /\ ns[cs[r].n] = ms[cs[r].n]
  <2> PICK i1 : i1 = cs[r].n
    OBVIOUS
  <2>1. i1 \in 1 .. Len(ms)
    BY <1>2, <1>9, Zenon DEF Step
  <2>2. ns[i1] = ms[i1]
    BY <2>1, LongerEntry, Zenon
  <2>3. r \in 1 .. Len(ks) /\ ks[r] = cs[r]
    BY <1>4, <1>9
  <2> QED BY <2>2, <2>3, Zenon
<1>10. OnWire(ns, lg, ks, r, b \o (w \o x))
  BY <1>6, <1>7, Zenon
<1>11. \/ xs = M
       \/ r \in 1 .. Len(ks) /\ xs = [M EXCEPT ![ks[r].ch] = Due(ns[ks[r].n], M[ks[r].ch])]
  BY <1>1, <1>9, Zenon
<1>12. Synced(ns, lg, ks, w \o x, b, xs, l, h, r, M)
  BY <1>1, <1>5, <1>8, <1>10, <1>11, Zenon DEF Synced
<1> QED BY <1>12, Zenon

\* What the peer sent, and its state now; what the server made of it so far.
PeerAt(ms, sp, un, spk, log, cs) ==
  LET a == log[Len(log)] IN
  Log(ms, sp, log, cs) /\ a.under = un /\ a.speak = spk /\ a.count = Len(sp)

\* The server between two chunks of it.
ServerAt(ms, sp, w, pd, h, log, cs) ==
  \E b \in Seq(Cell), l \in Nat \ {0}, o \in BOOLEAN : \E xs :
    /\ pd = Client(b, xs, l, o) /\ Delivered(ms, sp, h) /\ (~o => SomeRefused(ms))
    /\ o => \E r, M : Synced(ms, log, cs, w, b, xs, l, h, r, M) /\ (w = <<>> => r = Len(log))

\* The peer's places in its channels.
Unders == [Channels -> [msg : Nat, pos : Nat]]

UnderOk(ms, un) ==
  \A ch \in Channels :
    un[ch].msg \in 0 .. Len(ms) /\ (un[ch].msg # 0 => un[ch].pos <= ms[un[ch].msg].kind.len)

\* There is a log that ends where the peer is and that has an entry where the server is.
InvOf(ms, un, spk, w, pd, sp, h) ==
  /\ ms \in Seq(Said) /\ sp \in Seq(Nat) /\ w \in Seq(Cell) /\ un \in Unders /\ spk \in Nat \ {0}
  /\ UnderOk(ms, un)
  /\ \E log, cs : PeerAt(ms, sp, un, spk, log, cs) /\ ServerAt(ms, sp, w, pd, h, log, cs)

\* The peer's side of a chunk.
Sends(ms, ns, n, pos, fmt, ch, un, un1, spk, spk1, sp, sp1, w, w1) ==
  LET m   == ns[n]
      end == C!Least(m.kind.len, pos + spk)
  IN  /\ w1 = w \o (C!Header(fmt, ch, m) \o C!Bytes(n, pos, end))
      /\ un1 = [un EXCEPT ![ch] = [msg |-> n, pos |-> end]]
      /\ sp1 = IF end = m.kind.len THEN Append(sp, n) ELSE sp
      /\ spk1 = IF end = m.kind.len /\ m.kind.type = "set chunk" THEN m.kind.size ELSE spk

\* The chunk that is sent.
TheChunk(n, pos, fmt, ch) == [n |-> n, from |-> pos, fmt |-> fmt, ch |-> ch]

\* A chunk more on the wire.
LEMMA SendKeeps ==
  ASSUME C!ChunksAssumption,
         NEW ms, NEW un, NEW spk, NEW w, NEW pd, NEW sp, NEW h, InvOf(ms, un, spk, w, pd, sp, h),
         NEW ns \in Seq(Said), Longer(ms, ns), NEW n \in 1 .. Len(ns), NEW pos \in Nat,
         NEW fmt \in 0 .. 3, NEW ch \in Channels, pos <= ns[n].kind.len,
         NEW un1, NEW spk1, NEW sp1, NEW w1,
         Sends(ms, ns, n, pos, fmt, ch, un, un1, spk, spk1, sp, sp1, w, w1),
         NEW k, k = TheChunk(n, pos, fmt, ch),
         \A a : a.under = un => Proceeds(ns[n], a, k) \/ Opens(ns, ns[n], a, k)
  PROVE  InvOf(ns, un1, spk1, w1, pd, sp1, h)
<1>1. /\ ms \in Seq(Said) /\ sp \in Seq(Nat) /\ w \in Seq(Cell) /\ un \in Unders /\ spk \in Nat \ {0}
      /\ UnderOk(ms, un)
  BY Zenon DEF InvOf
<1> PICK log, cs : PeerAt(ms, sp, un, spk, log, cs) /\ ServerAt(ms, sp, w, pd, h, log, cs)
  BY Zenon DEF InvOf
<1> PICK m \in Said : m = ns[n]
  BY ElementOfSeq
<1>2. Log(ms, sp, log, cs)
  BY Zenon DEF PeerAt
<1>3. Len(log) \in 1 .. Len(log) /\ Len(ms) \in Nat /\ Len(ns) \in Nat /\ Len(sp) \in Nat /\ n \in Nat
  BY <1>1, <1>2, LogEntries, LenProperties
<1> PICK a \in State : a = log[Len(log)]
  BY <1>2, <1>3, LogEntries
<1>4. a.under = un /\ a.speak = spk /\ a.count = Len(sp) /\ a.place \in Nat
  BY Zenon DEF PeerAt, State
<1>5. k.n = n /\ k.from = pos /\ k.fmt = fmt /\ k.ch = ch /\ k \in ChunkSent
  BY <1>3 DEF TheChunk, ChunkSent
<1> PICK x : x = Seg(m, a, k)
  OBVIOUS
<1>6. IsSeg(x, m, a, k)
  BY <1>5, SegIs, Zenon
<1> PICK e \in Nat : e = End(m, a, k)
  BY <1>6 DEF IsSeg
<1>7. x \in Seq(Cell) /\ Len(x) \in Nat /\ Len(x) > 0 /\ e <= m.kind.len
  <2>1. /\ x \in Seq(Cell) /\ k.from <= e /\ e <= m.kind.len
        /\ Len(x) = C!HEADER_LENGTH[k.fmt] + (IF IsLong(k.fmt, m) THEN 1 ELSE 0) + (e - k.from)
    BY <1>6, Zenon DEF IsSeg
  <2> PICK H \in 1 .. 5 : H = C!HEADER_LENGTH[k.fmt]
    BY <1>5, HeaderLengths
  <2> PICK y \in 0 .. 1 : y = IF IsLong(k.fmt, m) THEN 1 ELSE 0
    OBVIOUS
  <2>2. Len(x) = H + y + (e - pos) /\ pos <= e
    BY <1>5, <2>1, Zenon
  <2>3. Len(x) > 0 /\ Len(x) \in Nat
    BY ONLY <2>2, H \in 1 .. 5, y \in 0 .. 1, e \in Nat, pos \in Nat
  <2> QED BY <2>1, <2>3
<1>8. e = C!Least(m.kind.len, pos + spk)
  BY <1>4, <1>5, Zenon DEF End
<1>9. /\ w1 = w \o x
      /\ un1 = [un EXCEPT ![ch] = [msg |-> n, pos |-> e]]
      /\ sp1 = (IF e = m.kind.len THEN Append(sp, n) ELSE sp)
      /\ spk1 = (IF e = m.kind.len /\ m.kind.type = "set chunk" THEN m.kind.size ELSE spk)
  <2>1. /\ w1 = w \o (C!Header(fmt, ch, m) \o C!Bytes(n, pos, e))
        /\ un1 = [un EXCEPT ![ch] = [msg |-> n, pos |-> e]]
        /\ sp1 = (IF e = m.kind.len THEN Append(sp, n) ELSE sp)
        /\ spk1 = (IF e = m.kind.len /\ m.kind.type = "set chunk" THEN m.kind.size ELSE spk)
    BY <1>8, Zenon DEF Sends
  <2>2. x = C!Header(fmt, ch, m) \o C!Bytes(n, pos, e)
    BY <1>5, Zenon DEF Seg
  <2> QED BY <2>1, <2>2, Zenon
<1>10. /\ sp1 \in Seq(Nat) /\ Longer(sp, sp1) /\ Len(sp1) \in Nat
       /\ Len(sp1) = (IF e = m.kind.len THEN Len(sp) + 1 ELSE Len(sp))
       /\ (e = m.kind.len => sp1[Len(sp1)] = n)
  <2>1. CASE e = m.kind.len
    <3>1. sp1 = Append(sp, n)
      BY <1>9, <2>1
    <3>2. /\ Longer(sp, sp1) /\ sp1 \in Seq(Nat) /\ Len(sp1) = Len(sp) + 1 /\ sp1[Len(sp) + 1] = n
      BY <1>1, <1>3, <3>1, LongerIs
    <3> QED BY <1>3, <2>1, <3>2
  <2>2. CASE e # m.kind.len
    <3>1. sp1 = sp
      BY <1>9, <2>2
    <3>2. Longer(sp, sp)
      BY <1>3 DEF Longer
    <3> QED BY <1>1, <1>3, <2>2, <3>1, <3>2
  <2> QED BY <2>1, <2>2
<1>11. spk1 \in Nat \ {0}
  <2>1. m.kind.size \in Nat \ {0}
    BY DEF Said, Kind
  <2> QED BY <1>1, <1>9, <2>1
<1>12. un1 \in Unders
  <2> [msg |-> n, pos |-> e] \in [msg : Nat, pos : Nat]
    BY <1>3
  <2> QED BY <1>1, <1>9 DEF Unders
<1> PICK pl \in Nat : pl = a.place + Len(x)
  BY <1>4, <1>7
<1> PICK ct \in Nat : ct = Len(sp1)
  BY <1>10
<1> PICK z : z = [under |-> un1, speak |-> spk1, count |-> ct, place |-> pl]
  OBVIOUS
<1>13. /\ z \in State /\ z.under = un1 /\ z.speak = spk1 /\ z.count = ct /\ z.place = pl
  BY <1>11, <1>12 DEF State, Unders
<1>14. Step(ns, sp1, a, k, z)
  <2>1. k.n \in 1 .. Len(ns) /\ m = ns[k.n] /\ (Proceeds(m, a, k) \/ Opens(ns, m, a, k))
    BY <1>4, <1>5, Zenon
  <2>2. z.under = [a.under EXCEPT ![k.ch] = [msg |-> k.n, pos |-> e]]
    BY <1>4, <1>5, <1>9, <1>13, Zenon
  <2>3. z.speak = (IF e = m.kind.len /\ m.kind.type = "set chunk" THEN m.kind.size ELSE a.speak)
    BY <1>4, <1>9, <1>13, Zenon
  <2>4. z.count = (IF e = m.kind.len THEN a.count + 1 ELSE a.count)
    BY <1>4, <1>10, <1>13, Zenon
  <2>5. e = m.kind.len => z.count \in 1 .. Len(sp1) /\ sp1[z.count] = k.n
    <3> SUFFICES ASSUME e = m.kind.len PROVE z.count \in 1 .. Len(sp1) /\ sp1[z.count] = k.n
      OBVIOUS
    <3>1. Len(sp1) = Len(sp) + 1 /\ sp1[Len(sp1)] = n
      BY <1>10
    <3>2. Len(sp1) \in 1 .. Len(sp1)
      BY <1>3, <3>1
    <3> QED BY <1>5, <1>13, <3>1, <3>2, Zenon
  <2>6. z.place = a.place + Len(Seg(m, a, k))
    BY <1>13, Zenon
  <2> QED BY ONLY <2>1, <2>2, <2>3, <2>4, <2>5, <2>6, e = End(m, a, k), Zenon DEF Step
<1>15. z.count <= Len(sp1) /\ a.place <= z.place
  BY <1>4, <1>7, <1>10, <1>13
<1> PICK lg : lg = Append(log, z)
  OBVIOUS
<1> PICK ks : ks = Append(cs, k)
  OBVIOUS
<1>16. Log(ns, sp1, lg, ks)
  BY <1>2, <1>3, <1>5, <1>10, <1>13, <1>14, <1>15, LogGrows, Zenon
<1>17. PeerAt(ns, sp1, un1, spk1, lg, ks)
  <2>1. log \in Seq(State)
    BY <1>2, Zenon DEF Log
  <2>2. Len(lg) = Len(log) + 1 /\ lg[Len(log) + 1] = z
    BY <1>13, <2>1, AppendProperties
  <2> QED BY <1>13, <1>16, <2>2, Zenon DEF PeerAt
<1>18. ServerAt(ns, sp1, w1, pd, h, lg, ks)
  <2> PICK b \in Seq(Cell), l \in Nat \ {0}, o \in BOOLEAN : \E xs :
        /\ pd = Client(b, xs, l, o) /\ Delivered(ms, sp, h) /\ (~o => SomeRefused(ms))
        /\ o => \E r, M : Synced(ms, log, cs, w, b, xs, l, h, r, M) /\ (w = <<>> => r = Len(log))
    BY Zenon DEF ServerAt
  <2> PICK xs : /\ pd = Client(b, xs, l, o) /\ Delivered(ms, sp, h) /\ (~o => SomeRefused(ms))
                /\ o => \E r, M : Synced(ms, log, cs, w, b, xs, l, h, r, M) /\ (w = <<>> => r = Len(log))
    OBVIOUS
  <2>1. Delivered(ns, sp1, h)
    BY <1>3, <1>10, DeliveredStable, Zenon
  <2>2. ~o => SomeRefused(ns)
    BY <1>3, RefusedStable, Zenon
  <2>3. w1 # <<>>
    <3>1. w1 = w \o x /\ w \in Seq(Cell) /\ x \in Seq(Cell)
      BY <1>1, <1>7, <1>9, Zenon
    <3>2. Len(w) \in Nat /\ Len(w1) = Len(w) + Len(x)
      BY ONLY <3>1, Joined
    <3>3. Len(w1) # 0
      BY ONLY <1>7, <3>2
    <3> QED BY ONLY <3>3, EmptySeq
  <2>4. ASSUME NEW r, NEW M, Synced(ms, log, cs, w, b, xs, l, h, r, M)
        PROVE  Synced(ns, lg, ks, w1, b, xs, l, h, r, M)
    <3>1. x = Seg(ns[k.n], log[Len(log)], k) /\ z.place = log[Len(log)].place + Len(x)
      BY <1>5, <1>13, Zenon
    <3>2. Synced(ns, lg, ks, w \o x, b, xs, l, h, r, M)
      BY <1>1, <1>2, <1>3, <1>5, <1>7, <1>13, <2>4, <3>1, SyncedStable, Zenon
    <3> QED BY <1>9, <3>2, Zenon
  <2>5. o => \E r, M : Synced(ns, lg, ks, w1, b, xs, l, h, r, M) /\ (w1 = <<>> => r = Len(lg))
    BY <2>3, <2>4, Zenon
  <2> QED BY <2>1, <2>2, <2>5, Zenon DEF ServerAt
<1>19. w1 \in Seq(Cell)
  <2>1. w1 = w \o x /\ w \in Seq(Cell) /\ x \in Seq(Cell)
    BY <1>1, <1>7, <1>9, Zenon
  <2> QED BY ONLY <2>1, Joined
<1>20. UnderOk(ns, un1)
  <2> SUFFICES ASSUME NEW c \in Channels
               PROVE  un1[c].msg \in 0 .. Len(ns) /\ (un1[c].msg # 0 => un1[c].pos <= ns[un1[c].msg].kind.len)
    BY Zenon DEF UnderOk
  <2>1. CASE c = ch
    <3>1. un1[c].msg = n /\ un1[c].pos = e
      BY <1>1, <1>9, <2>1 DEF Unders
    <3>2. n \in 0 .. Len(ns)
      BY <1>3
    <3> QED BY <1>7, <3>1, <3>2, Zenon
  <2>2. CASE c # ch
    <3>1. un1[c] = un[c]
      BY <1>1, <1>9, <2>2 DEF Unders
    <3> PICK i1, i2 : i1 = un[c].msg /\ i2 = un[c].pos
      OBVIOUS
    <3>2. i1 \in 0 .. Len(ms) /\ (i1 # 0 => i2 <= ms[i1].kind.len)
      BY <1>1, Zenon DEF UnderOk
    <3>3. i1 \in 0 .. Len(ns)
      BY <1>3, <3>2 DEF Longer
    <3>4. i1 # 0 => ns[i1] = ms[i1]
      <4> i1 # 0 => i1 \in 1 .. Len(ms)
        BY <1>3, <3>2
      <4> QED BY <1>3, LongerEntry, Zenon
    <3> QED BY <3>1, <3>2, <3>3, <3>4, Zenon
  <2> QED BY <2>1, <2>2
<1> QED BY <1>10, <1>11, <1>12, <1>17, <1>18, <1>19, <1>20, Zenon DEF InvOf
-----------------------------------------------------------------------------
\* The invariant, and the actions.

\* The inductive invariant.
ChunkInv == InvOf(said, under, speak, wire, parsed, spoken, handled)

\* The peer sends a chunk.
LEMMA SendChunkKeeps ==
  ASSUME C!ChunksAssumption, ChunkInv,
         NEW ns \in Seq(Said), Longer(said, ns), NEW n \in 1 .. Len(ns), NEW pos \in Nat,
         NEW fmt \in 0 .. 3, NEW ch \in Channels, pos <= ns[n].kind.len,
         C!SendChunk(ns, n, pos, fmt, ch),
         \A a : a.under = under => \/ Proceeds(ns[n], a, TheChunk(n, pos, fmt, ch))
                                   \/ Opens(ns, ns[n], a, TheChunk(n, pos, fmt, ch))
  PROVE  ChunkInv'
<1> PICK un1, spk1, sp1, w1 : un1 = under' /\ spk1 = speak' /\ sp1 = spoken' /\ w1 = wire'
  OBVIOUS
<1>1. Sends(said, ns, n, pos, fmt, ch, under, un1, speak, spk1, spoken, sp1, wire, w1)
  BY Zenon DEF C!SendChunk, Sends
<1>2. said' = ns /\ parsed' = parsed /\ handled' = handled
  BY DEF C!SendChunk
<1>3. InvOf(said, under, speak, wire, parsed, spoken, handled)
  BY Zenon DEF ChunkInv
<1> PICK k : k = TheChunk(n, pos, fmt, ch)
  OBVIOUS
<1>4. \A a : a.under = under => Proceeds(ns[n], a, k) \/ Opens(ns, ns[n], a, k)
  BY Zenon
<1>5. InvOf(ns, un1, spk1, w1, parsed, sp1, handled)
  BY <1>1, <1>3, <1>4, SendKeeps, Zenon
<1> QED BY <1>2, <1>5, Zenon DEF ChunkInv

\* The next chunk of a message.
LEMMA ContinueKeeps ==
  ASSUME C!ChunksAssumption, ChunkInv, NEW ch \in Channels, C!Continue(ch)
  PROVE  ChunkInv'
<1>1. said \in Seq(Said) /\ under \in Unders /\ UnderOk(said, under)
  BY Zenon DEF ChunkInv, InvOf
<1> PICK n, pos : n = under[ch].msg /\ pos = under[ch].pos
  OBVIOUS
<1>2. n # 0 /\ pos < said[n].kind.len /\ C!SendChunk(said, n, pos, 3, ch)
  BY Zenon DEF C!Continue, C!Under
<1>3. n \in 0 .. Len(said) /\ pos \in Nat /\ Len(said) \in Nat
  BY <1>1, LenProperties DEF Unders, UnderOk
<1>4. n \in 1 .. Len(said)
  BY <1>2, <1>3
<1>5. Longer(said, said) /\ 3 \in 0 .. 3
  BY <1>3 DEF Longer
<1>6. pos <= said[n].kind.len
  <2> said[n].kind.len \in Nat
    <3> PICK m \in Said : m = said[n]
      BY <1>1, <1>4, ElementOfSeq
    <3>1. m.kind.len \in Nat
      BY DEF Said, Kind
    <3> QED BY <3>1, Zenon
  <2> QED BY <1>2, <1>3
<1> PICK k : k = TheChunk(n, pos, 3, ch)
  OBVIOUS
<1>7. k.n = n /\ k.from = pos /\ k.fmt = 3 /\ k.ch = ch
  BY DEF TheChunk
<1>8. \A a : a.under = under => Proceeds(said[n], a, k)
  BY <1>2, <1>7, Zenon DEF Proceeds
<1>9. \A a : a.under = under => \/ Proceeds(said[n], a, TheChunk(n, pos, 3, ch))
                                \/ Opens(said, said[n], a, TheChunk(n, pos, 3, ch))
  BY <1>8, Zenon
<1> QED BY <1>1, <1>2, <1>3, <1>4, <1>5, <1>6, <1>9, SendChunkKeeps, Zenon

\* The peer begins message m.
LEMMA SayKeeps ==
  ASSUME C!ChunksAssumption, ChunkInv, NEW ch \in Channels, ~C!Under(ch), NEW m \in Said,
         \/ under[ch].msg = 0 /\ m.fmt = 0
         \/ under[ch].msg # 0 /\ (m.fmt # 0 => Succeeds(m, said[under[ch].msg])),
         C!SendChunk(Append(said, m), Len(said) + 1, 0, m.fmt, ch)
  PROVE  ChunkInv'
<1>1. said \in Seq(Said) /\ under \in Unders /\ UnderOk(said, under)
  BY Zenon DEF ChunkInv, InvOf
<1> PICK n : n = Len(said) + 1
  OBVIOUS
<1> PICK ns : ns = Append(said, m)
  OBVIOUS
<1>2. ns \in Seq(Said) /\ Longer(said, ns) /\ Len(ns) = n /\ ns[n] = m /\ Len(said) \in Nat
  BY <1>1, LongerIs
<1>3. n \in 1 .. Len(ns) /\ 0 \in Nat /\ m.fmt \in 0 .. 3 /\ 0 <= m.kind.len
  <2> m.fmt \in 0 .. 3 /\ m.kind.len \in Nat
    BY DEF Said, Kind
  <2> QED BY <1>2
<1> PICK u : u = under[ch]
  OBVIOUS
<1>4. u.msg \in 0 .. Len(said) /\ u.pos \in Nat /\ (u.msg # 0 => u.pos <= said[u.msg].kind.len)
  BY <1>1, Zenon DEF UnderOk, Unders
<1> PICK k : k = TheChunk(n, 0, m.fmt, ch)
  OBVIOUS
<1>5. k.n = n /\ k.from = 0 /\ k.fmt = m.fmt /\ k.ch = ch
  BY DEF TheChunk
<1>6. u.msg # 0 => u.msg \in 1 .. Len(ns) /\ ns[u.msg] = said[u.msg] /\ u.pos = said[u.msg].kind.len
  <2> SUFFICES ASSUME u.msg # 0
               PROVE  u.msg \in 1 .. Len(ns) /\ ns[u.msg] = said[u.msg] /\ u.pos = said[u.msg].kind.len
    OBVIOUS
  <2> PICK i1 : i1 = u.msg
    OBVIOUS
  <2>1. i1 \in 1 .. Len(said)
    BY <1>2, <1>4
  <2>2. i1 \in 1 .. Len(ns) /\ ns[i1] = said[i1]
    <3> Len(ns) \in Nat
      BY <1>2
    <3> QED BY <1>2, <2>1, LongerEntry
  <2> PICK old \in Said : old = said[i1]
    BY <1>1, <2>1, ElementOfSeq
  <2> PICK N \in Nat : N = old.kind.len
    BY DEF Said, Kind
  <2> PICK P1 \in Nat : P1 = u.pos
    BY <1>4
  <2>3. ~(P1 < N) /\ P1 <= N
    BY <1>4, Zenon DEF C!Under
  <2>4. P1 = N
    BY ONLY <2>3, P1 \in Nat, N \in Nat
  <2> QED BY <2>2, <2>4, Zenon
<1>7. \A a : a.under = under => Opens(ns, m, a, k)
  <2> TAKE a
  <2> SUFFICES ASSUME a.under = under PROVE Opens(ns, m, a, k)
    OBVIOUS
  <2>1. a.under[k.ch] = u
    BY <1>5, Zenon
  <2>2. \/ u.msg = 0 /\ k.fmt = 0
        \/ /\ u.msg \in 1 .. Len(ns) /\ u.pos = ns[u.msg].kind.len
           /\ k.fmt # 0 => Succeeds(m, ns[u.msg])
    BY <1>5, <1>6, Zenon
  <2> QED BY <1>5, <2>1, <2>2, Zenon DEF Opens
<1>8. \A a : a.under = under => \/ Proceeds(ns[n], a, TheChunk(n, 0, m.fmt, ch))
                                \/ Opens(ns, ns[n], a, TheChunk(n, 0, m.fmt, ch))
  BY <1>2, <1>7, Zenon
<1>9. C!SendChunk(ns, n, 0, m.fmt, ch)
  BY Zenon
<1>10. 0 <= ns[n].kind.len
  BY <1>2, <1>3, Zenon
<1> QED BY <1>2, <1>3, <1>8, <1>9, <1>10, SendChunkKeeps, Zenon

\* What a header that is not a full one leaves as it was.
IsAfter(r, k, x, y) ==
  /\ r \in Kind /\ r.type = k.type /\ r.len = k.len /\ r.endpoint = x /\ r.timestamp = y

\* What is then left of the kind.
LEMMA AfterIs ==
  ASSUME NEW k \in Kind, NEW x \in Nat, NEW y \in Nat
  PROVE  IsAfter([k EXCEPT !.endpoint = x, !.timestamp = y], k, x, y)
<1> PICK r : r = [k EXCEPT !.endpoint = x]
  OBVIOUS
<1>1. r \in Kind /\ r.type = k.type /\ r.len = k.len /\ r.endpoint = x
  BY DEF Kind
<1> PICK z : z = [r EXCEPT !.timestamp = y]
  OBVIOUS
<1>2. z \in Kind /\ z.type = r.type /\ z.len = r.len /\ z.endpoint = r.endpoint /\ z.timestamp = y
  BY <1>1 DEF Kind
<1>3. [k EXCEPT !.endpoint = x, !.timestamp = y] = [[k EXCEPT !.endpoint = x] EXCEPT !.timestamp = y]
  OBVIOUS
<1>4. [k EXCEPT !.endpoint = x, !.timestamp = y] = z
  BY <1>3, Zenon
<1>5. IsAfter(z, k, x, y)
  BY <1>1, <1>2, Zenon DEF IsAfter
<1> QED BY <1>4, <1>5, Zenon

\* A message as Say writes it.
Saying(kind, fmt, delta, drifted) == [kind |-> kind, fmt |-> fmt, delta |-> delta, drifted |-> drifted]

\* The first chunk of a message.
LEMMA BeginKeeps ==
  ASSUME C!ChunksAssumption, ChunkInv, NEW ch \in Channels, C!Begin(ch)
  PROVE  ChunkInv'
<1>1. said \in Seq(Said) /\ under \in Unders /\ UnderOk(said, under)
  BY Zenon DEF ChunkInv, InvOf
<1> PICK u : u = under[ch]
  OBVIOUS
<1> PICK old : old = said[u.msg]
  OBVIOUS
<1> DEFINE Say(fmt, kind, delta, drifted) ==
             C!SendChunk(Append(said, Saying(kind, fmt, delta, drifted)), Len(said) + 1, 0, fmt, ch)
           After(kind, delta) ==
             [kind EXCEPT !.endpoint = old.kind.endpoint, !.timestamp = old.kind.timestamp + delta]
<1>2. /\ ~C!Under(ch)
      /\ \/ \E k \in Kinds : Say(0, k, 0, FALSE)
         \/ /\ u.msg # 0
            /\ \/ \E k \in Kinds : Say(1, After(k, 1), 1, old.drifted)
               \/ Say(2, After(old.kind, 1), 1, old.drifted)
               \/ Say(3, After(old.kind, old.delta), old.delta, old.drifted \/ old.delta # 0)
  BY Zenon DEF C!Begin, Saying
<1>3. Kinds \subseteq Kind /\ EXT \in Nat /\ 1 < EXT /\ 0 < EXT
  <2>1. EXT \in Nat \ {0, 1} /\ Kinds \subseteq Kind
    BY DEF C!ChunksAssumption, Kind
  <2> QED BY <2>1
<1>4. u.msg # 0 => old \in Said
  <2> u.msg # 0 => u.msg \in 1 .. Len(said)
    BY <1>1, LenProperties DEF UnderOk, Unders
  <2> QED BY <1>1, ElementOfSeq
<1>5. ASSUME u.msg # 0
      PROVE  /\ old.kind \in Kind /\ old.kind.endpoint \in Nat /\ old.kind.timestamp \in Nat
             /\ old.delta \in Nat /\ old.drifted \in BOOLEAN /\ (old.drifted \/ old.delta # 0) \in BOOLEAN
  BY <1>4, <1>5 DEF Said, Kind
<1>6. ASSUME NEW kind \in Kind, NEW fmt \in 0 .. 3, NEW delta \in Nat, NEW drifted \in BOOLEAN
      PROVE  /\ Saying(kind, fmt, delta, drifted) \in Said
             /\ Saying(kind, fmt, delta, drifted).kind = kind /\ Saying(kind, fmt, delta, drifted).fmt = fmt
             /\ Saying(kind, fmt, delta, drifted).delta = delta
             /\ Saying(kind, fmt, delta, drifted).drifted = drifted
  BY DEF Said, Saying
<1> HIDE DEF After
<1>7. ASSUME u.msg # 0, NEW kind \in Kind, NEW delta \in Nat
      PROVE  IsAfter(After(kind, delta), kind, old.kind.endpoint, old.kind.timestamp + delta)
  <2>1. old.kind.endpoint \in Nat /\ old.kind.timestamp + delta \in Nat
    BY <1>5, <1>7
  <2> QED BY <2>1, AfterIs, Zenon DEF After
\* A full header.
<1>8. ASSUME NEW kind \in Kinds, Say(0, kind, 0, FALSE) PROVE ChunkInv'
  <2> PICK m : m = Saying(kind, 0, 0, FALSE)
    OBVIOUS
  <2> PICK no \in BOOLEAN : no = FALSE
    OBVIOUS
  <2>1. m \in Said /\ m.fmt = 0
    <3>1. kind \in Kind /\ 0 \in 0 .. 3 /\ 0 \in Nat
      BY <1>3
    <3>2. m = Saying(kind, 0, 0, no)
      BY Zenon
    <3>3. Saying(kind, 0, 0, no) \in Said /\ Saying(kind, 0, 0, no).fmt = 0
      BY <1>6, <3>1
    <3> QED BY <3>2, <3>3, Zenon
  <2>2. C!SendChunk(Append(said, m), Len(said) + 1, 0, m.fmt, ch)
    BY <1>8, <2>1, Zenon
  <2>3. \/ under[ch].msg = 0 /\ m.fmt = 0
        \/ under[ch].msg # 0 /\ (m.fmt # 0 => Succeeds(m, said[under[ch].msg]))
    BY <2>1
  <2> QED BY <1>2, <2>1, <2>2, <2>3, SayKeeps, Zenon
\* A short one.
<1>9. ASSUME u.msg # 0, NEW kind \in Kind, NEW fmt \in 1 .. 3, NEW delta \in Nat, NEW drifted \in BOOLEAN,
             Say(fmt, After(kind, delta), delta, drifted),
             fmt >= 2 => kind = old.kind, fmt # 3 => delta < EXT,
             ~drifted => ~old.drifted /\ (fmt = 3 => delta = 0)
      PROVE  ChunkInv'
  <2> PICK kd : kd = After(kind, delta)
    OBVIOUS
  <2> PICK m : m = Saying(kd, fmt, delta, drifted)
    OBVIOUS
  <2>1. /\ kd \in Kind /\ kd.type = kind.type /\ kd.len = kind.len /\ kd.endpoint = old.kind.endpoint
        /\ kd.timestamp = old.kind.timestamp + delta
    <3> IsAfter(kd, kind, old.kind.endpoint, old.kind.timestamp + delta)
      BY <1>7, <1>9, Zenon
    <3> QED BY Zenon DEF IsAfter
  <2>2. m \in Said /\ m.fmt = fmt /\ m.kind = kd /\ m.delta = delta /\ m.drifted = drifted
    <3> fmt \in 0 .. 3
      OBVIOUS
    <3> QED BY <1>6, <2>1
  <2>3. m.kind.endpoint = old.kind.endpoint
    BY <2>1, <2>2, Zenon
  <2>4. m.fmt >= 2 => m.kind.type = old.kind.type /\ m.kind.len = old.kind.len
    BY <1>9, <2>1, <2>2, Zenon
  <2>5. m.fmt # 3 => m.delta < EXT
    BY <1>9, <2>2, Zenon
  <2>6. ASSUME ~m.drifted
        PROVE  /\ ~old.drifted
               /\ m.kind.timestamp = old.kind.timestamp + (IF m.fmt = 3 THEN 0 ELSE m.delta)
    <3>1. ~old.drifted /\ (fmt = 3 => delta = 0)
      BY <1>9, <2>2, <2>6, Zenon
    <3>2. m.kind.timestamp = old.kind.timestamp + (IF m.fmt = 3 THEN 0 ELSE m.delta)
      <4>1. CASE fmt = 3
        BY <2>1, <2>2, <3>1, <4>1, Zenon
      <4>2. CASE fmt # 3
        BY <2>1, <2>2, <4>2, Zenon
      <4> QED BY <4>1, <4>2
    <3> QED BY <3>1, <3>2
  <2>7. Succeeds(m, old)
    BY <2>3, <2>4, <2>5, <2>6, Zenon DEF Succeeds
  <2>8. C!SendChunk(Append(said, m), Len(said) + 1, 0, m.fmt, ch)
    BY <1>9, <2>2, Zenon
  <2>9. \/ under[ch].msg = 0 /\ m.fmt = 0
        \/ under[ch].msg # 0 /\ (m.fmt # 0 => Succeeds(m, said[under[ch].msg]))
    BY <1>9, <2>7, Zenon
  <2> QED BY <1>2, <2>2, <2>8, <2>9, SayKeeps, Zenon
<1> HIDE DEF Say
<1>10. ASSUME u.msg # 0, NEW kind \in Kinds, Say(1, After(kind, 1), 1, old.drifted) PROVE ChunkInv'
  <2> 1 \in 1 .. 3 /\ 1 \in Nat /\ ~(1 >= 2) /\ 1 < EXT /\ 1 # 3
    BY <1>3
  <2> kind \in Kind /\ old.drifted \in BOOLEAN
    BY <1>3, <1>5, <1>10
  <2> QED BY <1>9, <1>10, Zenon
<1>11. ASSUME u.msg # 0, Say(2, After(old.kind, 1), 1, old.drifted) PROVE ChunkInv'
  <2> 2 \in 1 .. 3 /\ 1 \in Nat /\ 1 < EXT /\ 2 # 3
    BY <1>3
  <2> old.kind \in Kind /\ old.drifted \in BOOLEAN
    BY <1>5, <1>11
  <2> QED BY <1>9, <1>11, Zenon
<1>12. ASSUME u.msg # 0, Say(3, After(old.kind, old.delta), old.delta, old.drifted \/ old.delta # 0)
       PROVE  ChunkInv'
  <2> PICK dr \in BOOLEAN : dr = (old.drifted \/ old.delta # 0)
    BY <1>5, <1>12
  <2>1. 3 \in 1 .. 3
    OBVIOUS
  <2>2. old.kind \in Kind /\ old.delta \in Nat
    BY <1>5, <1>12
  <2>3. Say(3, After(old.kind, old.delta), old.delta, dr)
    BY <1>12
  <2>4. ~dr => ~old.drifted /\ old.delta = 0
    OBVIOUS
  <2> QED BY <1>9, <1>12, <2>1, <2>2, <2>3, <2>4, Zenon
<1> QED BY <1>2, <1>8, <1>10, <1>11, <1>12, Zenon DEF Say

\* The first cells of the wire come behind the buffer.
IsMoved(c, v, b, w) == c \in Seq(Cell) /\ v \in Seq(Cell) /\ c \o v = b \o w

\* The parser's input is the same before and after.
LEMMA Moved ==
  ASSUME NEW b \in Seq(Cell), NEW w \in Seq(Cell), NEW n \in 1 .. Len(w), NEW u, u = SubSeq(w, 1, n),
         NEW v, v = SubSeq(w, n + 1, Len(w)), NEW c, c = b \o u
  PROVE  IsMoved(c, v, b, w)
<1> PICK N \in Nat : N = Len(w)
  BY LenProperties
<1>1. n \in Nat /\ 1 \in 1 .. N + 1 /\ n \in 1 - 1 .. N /\ n + 1 \in 1 .. N + 1 /\ N \in (n + 1) - 1 .. N
  OBVIOUS
<1>2. u \in Seq(Cell) /\ Len(u) = n /\ \A j \in 1 .. n : u[j] = w[j]
  <2>1. u \in Seq(Cell) /\ Len(u) = n - 1 + 1 /\ \A j \in 1 .. Len(u) : u[j] = w[1 + j - 1]
    BY ONLY <1>1, u = SubSeq(w, 1, n), w \in Seq(Cell), N = Len(w), Part
  <2>2. n - 1 + 1 = n /\ \A j \in Nat : 1 + j - 1 = j
    BY <1>1
  <2>3. Len(u) = n
    BY <2>1, <2>2, Zenon
  <2>4. ASSUME NEW j \in 1 .. n PROVE u[j] = w[j]
    BY <2>1, <2>2, <2>3
  <2> QED BY <2>1, <2>3, <2>4
<1>3. v \in Seq(Cell) /\ Len(v) = N - n /\ \A j \in 1 .. N - n : v[j] = w[n + j]
  <2>1. v \in Seq(Cell) /\ Len(v) = N - (n + 1) + 1 /\ \A j \in 1 .. Len(v) : v[j] = w[(n + 1) + j - 1]
    BY ONLY <1>1, v = SubSeq(w, n + 1, N), w \in Seq(Cell), N = Len(w), Part
  <2>2. N - (n + 1) + 1 = N - n /\ \A j \in Nat : (n + 1) + j - 1 = n + j
    BY <1>1
  <2>3. Len(v) = N - n
    BY <2>1, <2>2, Zenon
  <2>4. ASSUME NEW j \in 1 .. N - n PROVE v[j] = w[n + j]
    BY <2>1, <2>2, <2>3
  <2> QED BY <2>1, <2>3, <2>4
<1>4. /\ c \in Seq(Cell) /\ Len(b) \in Nat /\ Len(c) = Len(b) + Len(u)
      /\ (\A j \in 1 .. Len(b) : c[j] = b[j]) /\ \A j \in 1 .. Len(u) : c[Len(b) + j] = u[j]
  <2>1. c = b \o u /\ b \in Seq(Cell) /\ u \in Seq(Cell)
    BY <1>2
  <2> QED BY ONLY <2>1, Joined
<1> PICK x : x = c \o v
  OBVIOUS
<1>5. /\ x \in Seq(Cell) /\ Len(c) \in Nat /\ Len(x) = Len(c) + Len(v)
      /\ (\A j \in 1 .. Len(c) : x[j] = c[j]) /\ \A j \in 1 .. Len(v) : x[Len(c) + j] = v[j]
  <2>1. x = c \o v /\ c \in Seq(Cell) /\ v \in Seq(Cell)
    BY <1>3, <1>4
  <2> QED BY ONLY <2>1, Joined
<1> PICK y : y = b \o w
  OBVIOUS
<1>6. /\ y \in Seq(Cell) /\ Len(y) = Len(b) + Len(w)
      /\ (\A j \in 1 .. Len(b) : y[j] = b[j]) /\ \A j \in 1 .. Len(w) : y[Len(b) + j] = w[j]
  <2>1. y = b \o w /\ b \in Seq(Cell) /\ w \in Seq(Cell)
    OBVIOUS
  <2> QED BY ONLY <2>1, Joined
<1> PICK B \in Nat : B = Len(b)
  BY <1>4
<1>7. Len(c) = B + n /\ Len(x) = B + N /\ Len(y) = B + N
  <2> Len(u) = n /\ Len(v) = N - n /\ Len(c) = B + Len(u) /\ Len(x) = Len(c) + Len(v) /\ Len(y) = B + Len(w)
    BY <1>2, <1>3, <1>4, <1>5, <1>6, Zenon
  <2> QED BY ONLY Len(u) = n, Len(v) = N - n, Len(c) = B + Len(u), Len(x) = Len(c) + Len(v),
                  Len(y) = B + Len(w), N = Len(w), <1>1, N \in Nat, B \in Nat
<1>8. ASSUME NEW j \in 1 .. B + N PROVE x[j] = y[j]
  <2>1. CASE j <= B
    <3>1. j \in 1 .. B /\ j \in 1 .. B + n
      BY ONLY <1>1, <2>1, j \in 1 .. B + N, B \in Nat, N \in Nat
    <3> QED BY <1>4, <1>5, <1>6, <1>7, <3>1, Zenon
  <2>2. CASE j > B /\ j <= B + n
    <3> PICK d \in 1 .. n : j = B + d
      <4>1. j - B \in 1 .. n /\ j = B + (j - B)
        BY ONLY <1>1, <2>2, j \in 1 .. B + N, B \in Nat, N \in Nat
      <4> QED BY <4>1
    <3>1. d \in 1 .. N /\ j \in 1 .. B + n
      BY ONLY <1>1, <2>2, n \in 1 .. Len(w), N = Len(w), d \in 1 .. n, j \in 1 .. B + N, B \in Nat, N \in Nat
    <3>2. x[j] = c[j] /\ c[B + d] = u[d] /\ u[d] = w[d] /\ y[B + d] = w[d]
      BY <1>2, <1>4, <1>5, <1>6, <1>7, <3>1, Zenon
    <3> QED BY <3>2, Zenon
  <2>3. CASE j > B + n
    <3> PICK d \in 1 .. N - n : j = (B + n) + d
      <4>1. j - (B + n) \in 1 .. N - n /\ j = (B + n) + (j - (B + n))
        BY ONLY <1>1, <2>3, j \in 1 .. B + N, B \in Nat, N \in Nat
      <4> QED BY <4>1
    <3>1. n + d \in 1 .. N /\ (B + n) + d = B + (n + d)
      BY ONLY <1>1, n \in 1 .. Len(w), N = Len(w), d \in 1 .. N - n, B \in Nat, N \in Nat
    <3>2. x[(B + n) + d] = v[d] /\ v[d] = w[n + d] /\ y[B + (n + d)] = w[n + d]
      BY <1>3, <1>5, <1>6, <1>7, <3>1, Zenon
    <3> QED BY <3>1, <3>2, Zenon
  <2>4. j <= B \/ (j > B /\ j <= B + n) \/ j > B + n
    BY ONLY <1>1, j \in 1 .. B + N, B \in Nat, N \in Nat
  <2> QED BY <2>1, <2>2, <2>3, <2>4, Zenon
<1>9. x = y
  BY ONLY <1>5, <1>6, <1>7, <1>8, x \in Seq(Cell), y \in Seq(Cell), B \in Nat, N \in Nat
<1> QED BY <1>3, <1>4, <1>9, Zenon DEF IsMoved

\* The server receives cells and parses what it has.
LEMMA RecvFromKeeps ==
  ASSUME C!ChunksAssumption, ChunkInv, C!recv_from_client
  PROVE  ChunkInv'
<1> PICK ms, sp, w, h : ms = said /\ sp = spoken /\ w = wire /\ h = handled
  OBVIOUS
<1>1. /\ ms \in Seq(Said) /\ sp \in Seq(Nat) /\ w \in Seq(Cell) /\ under \in Unders /\ speak \in Nat \ {0}
      /\ UnderOk(ms, under)
  BY Zenon DEF ChunkInv, InvOf
<1> PICK log, cs : PeerAt(ms, sp, under, speak, log, cs) /\ ServerAt(ms, sp, w, parsed, h, log, cs)
  BY Zenon DEF ChunkInv, InvOf
<1> PICK b \in Seq(Cell), l \in Nat \ {0}, o \in BOOLEAN : \E xs :
      /\ parsed = Client(b, xs, l, o) /\ Delivered(ms, sp, h) /\ (~o => SomeRefused(ms))
      /\ o => \E r, M : Synced(ms, log, cs, w, b, xs, l, h, r, M) /\ (w = <<>> => r = Len(log))
  BY Zenon DEF ServerAt
<1> PICK xs : /\ parsed = Client(b, xs, l, o) /\ Delivered(ms, sp, h) /\ (~o => SomeRefused(ms))
              /\ o => \E r, M : Synced(ms, log, cs, w, b, xs, l, h, r, M) /\ (w = <<>> => r = Len(log))
  OBVIOUS
<1>2. o = TRUE
  <2>1. parsed.open /\ parsed.open = o
    BY Zenon DEF C!recv_from_client, Client
  <2> QED BY <2>1
<1> PICK r, M : Synced(ms, log, cs, w, b, xs, l, h, r, M)
  BY <1>2
<1> PICK n \in 1 .. Len(w) :
      LET p == C!Parse([c |-> [parsed EXCEPT !.buf = @ \o SubSeq(w, 1, n)], handled |-> h])
      IN  parsed' = p.c /\ handled' = p.handled /\ wire' = SubSeq(w, n + 1, Len(w))
  BY Zenon DEF C!recv_from_client
<1> PICK u : u = SubSeq(w, 1, n)
  OBVIOUS
<1> PICK v : v = SubSeq(w, n + 1, Len(w))
  OBVIOUS
<1> PICK c : c = b \o u
  OBVIOUS
<1>3. c \in Seq(Cell) /\ v \in Seq(Cell) /\ c \o v = b \o w
  <2>1. IsMoved(c, v, b, w)
    BY <1>1, Moved, Zenon
  <2> QED BY <2>1, Zenon DEF IsMoved
<1> PICK q : q = Parsing(c, xs, l, TRUE, h)
  OBVIOUS
<1>4. [c |-> [parsed EXCEPT !.buf = @ \o u], handled |-> h] = q
  <2>1. parsed.buf = b
    BY DEF Client
  <2>2. [Client(b, xs, l, o) EXCEPT !.buf = c] = Client(c, xs, l, o)
    BY ONLY o \in BOOLEAN DEF Client
  <2>3. [parsed EXCEPT !.buf = @ \o u] = Client(c, xs, l, TRUE)
    BY <1>2, <2>1, <2>2, Zenon
  <2> QED BY <2>3, Zenon DEF Parsing
<1>5. parsed' = C!Parse(q).c /\ handled' = C!Parse(q).handled /\ wire' = v
  BY <1>4, Zenon
<1>6. said' = ms /\ under' = under /\ speak' = speak /\ spoken' = sp
  BY DEF C!recv_from_client
<1>7. Synced(ms, log, cs, v, c, xs, l, h, r, M)
  BY <1>3, Zenon DEF Synced
<1>8. Len(c) \in Nat /\ q.c.buf = c
  <2>1. Len(c) \in Nat
    BY ONLY <1>3, LenProperties
  <2> QED BY <2>1, Zenon DEF Parsing, Client
<1>9. Held(ms, sp, log, cs, v, q, Len(c), FALSE)
  <2>1. Len(c) <= Len(c)
    BY <1>8
  <2>2. Held(ms, sp, log, cs, v, Parsing(c, xs, l, TRUE, h), Len(c), FALSE)
    BY <1>3, <1>7, <2>1, OpenHeld, Zenon
  <2> QED BY <2>2, Zenon
<1>10. Log(ms, sp, log, cs)
  BY Zenon DEF PeerAt
<1> PICK k \in Nat : Held(ms, sp, log, cs, v, C!Parse(q), k, TRUE)
  <2>1. Len(q.c.buf) \in Nat /\ Held(ms, sp, log, cs, v, q, Len(q.c.buf), FALSE)
    BY <1>8, <1>9, Zenon
  <2> QED BY <1>1, <1>3, <1>10, <2>1, ParseKeeps, Zenon
<1> PICK p : p = C!Parse(q)
  OBVIOUS
<1> PICK b1 \in Seq(Cell), l1 \in Nat \ {0}, o1 \in BOOLEAN : \E xs1, h1 :
      p = Parsing(b1, xs1, l1, o1, h1) /\ HeldAs(ms, sp, log, cs, v, b1, xs1, l1, o1, h1, TRUE)
  BY Zenon DEF Held
<1> PICK xs1, h1 :
      p = Parsing(b1, xs1, l1, o1, h1) /\ HeldAs(ms, sp, log, cs, v, b1, xs1, l1, o1, h1, TRUE)
  OBVIOUS
<1>11. parsed' = Client(b1, xs1, l1, o1) /\ handled' = h1
  <2>1. p.c = Client(b1, xs1, l1, o1) /\ p.handled = h1
    BY DEF Parsing
  <2> QED BY <1>5, <2>1, Zenon
<1>12. ServerAt(ms, sp, v, parsed', handled', log, cs)
  <2>1. /\ Delivered(ms, sp, h1) /\ (~o1 => SomeRefused(ms))
        /\ o1 => \E r1, M1 : Synced(ms, log, cs, v, b1, xs1, l1, h1, r1, M1) /\ (v = <<>> => r1 = Len(log))
    BY Zenon DEF HeldAs
  <2>2. ServerAt(ms, sp, v, Client(b1, xs1, l1, o1), h1, log, cs)
    BY <2>1, Zenon DEF ServerAt
  <2> QED BY <1>11, <2>2, Zenon
<1>13. InvOf(ms, under, speak, v, parsed', sp, handled')
  BY <1>1, <1>3, <1>12, Zenon DEF InvOf
<1> QED BY <1>5, <1>6, <1>13, Zenon DEF ChunkInv

\* At first nothing was sent.
LEMMA ChunksBegin == ASSUME C!ChunksAssumption, C!Init PROVE ChunkInv
<1>1. /\ said = <<>> /\ under = [ch \in Channels |-> [msg |-> 0, pos |-> 0]] /\ speak = CHUNK_LEN /\ wire = <<>>
      /\ spoken = <<>> /\ handled = <<>>
  BY DEF C!Init
<1> PICK xs : xs = [ch \in Channels |-> C!RTMP_Message]
  OBVIOUS
<1>2. parsed = Client(<<>>, xs, CHUNK_LEN, TRUE)
  BY Zenon DEF C!Init, Client
<1>3. CHUNK_LEN \in Nat \ {0}
  BY DEF C!ChunksAssumption
<1> PICK a : a = [under |-> under, speak |-> CHUNK_LEN, count |-> 0, place |-> 0]
  OBVIOUS
<1>4. under \in Unders /\ \A ch \in Channels : under[ch].msg = 0
  BY <1>1 DEF Unders
<1>5. a \in State /\ a.under = under /\ a.speak = CHUNK_LEN /\ a.count = 0 /\ a.place = 0
  BY <1>3, <1>4 DEF State, Unders
<1> PICK log : log = <<a>>
  OBVIOUS
<1>6. log \in Seq(State) /\ Len(log) = 1 /\ log[1] = a
  BY <1>5
<1> PICK cs \in Seq(ChunkSent) : cs = <<>>
  BY EmptySeq
<1>7. Len(cs) = 0
  OBVIOUS
<1>8. Log(<<>>, <<>>, log, cs)
  <2>1. /\ Len(log) = Len(cs) + 1 /\ (\A at \in 1 .. Len(cs) : FALSE)
        /\ (\A at \in 1 .. Len(log) : at = 1) /\ Len(<<>>) = 0 /\ 0 <= 0
    BY <1>6, <1>7
  <2>2. \A at, j \in 1 .. Len(log) : at <= j => log[at].place <= log[j].place
    BY <1>5, <1>6, <2>1, Zenon
  <2>3. \A at \in 1 .. Len(log) : log[at].count <= Len(<<>>)
    BY <1>5, <1>6, <2>1, Zenon
  <2> QED BY <1>6, <2>1, <2>2, <2>3, Zenon DEF Log
<1>9. PeerAt(<<>>, <<>>, under, speak, log, cs)
  <2> Len(<<>>) = 0
    OBVIOUS
  <2> QED BY <1>1, <1>5, <1>6, <1>8, Zenon DEF PeerAt
<1>10. xs \in [Channels -> Message]
  <2>1. C!RTMP_Message \in Message
    BY DEF C!RTMP_Message, Message
  <2> QED BY <2>1
<1>11. Knows(<<>>, a, xs)
  <2> SUFFICES ASSUME NEW ch \in Channels PROVE KnowsOf(<<>>, a.under[ch], xs[ch])
    BY Zenon DEF Knows
  <2>1. a.under[ch].msg = 0 /\ xs[ch] = C!RTMP_Message
    BY <1>4, <1>5
  <2> QED BY <2>1, Zenon DEF KnowsOf
<1>12. <<>> \in Seq(Cell) /\ <<>> \in Seq(Said) /\ <<>> \in Seq(Nat) /\ <<>> \in Seq(Message) /\ <<>> \o <<>> = <<>>
  OBVIOUS
<1>13. OnWire(<<>>, log, cs, 1, <<>> \o <<>>)
  <2>1. 1 \in 1 .. Len(log) /\ Len(<<>>) = 0 /\ 0 = 0 - 0 /\ \A at \in 1 .. Len(cs) : FALSE
    BY <1>6, <1>7
  <2>2. Len(<<>>) = log[Len(log)].place - log[1].place
    BY <1>5, <1>6, <2>1, Zenon
  <2>3. OnWire(<<>>, log, cs, 1, <<>>)
    BY <1>12, <2>1, <2>2, Zenon DEF OnWire
  <2> QED BY <1>12, <2>3, Zenon
<1>14. Synced(<<>>, log, cs, <<>>, <<>>, xs, CHUNK_LEN, <<>>, 1, xs)
  <2> Len(<<>>) = 0 /\ 1 \in 1 .. Len(log)
    BY <1>6
  <2> QED BY <1>5, <1>6, <1>10, <1>11, <1>13, Zenon DEF Synced
<1>15. Delivered(<<>>, <<>>, <<>>)
  <2> Len(<<>>) <= Len(<<>>) /\ \A j \in 1 .. Len(<<>>) : FALSE
    OBVIOUS
  <2> QED BY <1>12, Zenon DEF Delivered
<1>16. ServerAt(<<>>, <<>>, <<>>, parsed, <<>>, log, cs)
  <2>1. TRUE \in BOOLEAN /\ 1 = Len(log)
    BY <1>6
  <2> QED BY <1>2, <1>3, <1>12, <1>14, <1>15, <2>1, Zenon DEF ServerAt
<1>17. UnderOk(<<>>, under)
  <2> 0 \in 0 .. Len(<<>>)
    OBVIOUS
  <2> QED BY <1>4, Zenon DEF UnderOk
<1>18. InvOf(<<>>, under, speak, <<>>, parsed, <<>>, <<>>)
  BY <1>1, <1>3, <1>4, <1>9, <1>12, <1>16, <1>17, Zenon DEF InvOf
<1> QED BY <1>1, <1>18, Zenon DEF ChunkInv

\* What the invariant says of what was handled.
LEMMA Assembled == ASSUME ChunkInv PROVE C!ChunksAssembled
<1> PICK ms, sp, w, h : ms = said /\ sp = spoken /\ w = wire /\ h = handled
  OBVIOUS
<1> PICK log, cs : PeerAt(ms, sp, under, speak, log, cs) /\ ServerAt(ms, sp, w, parsed, h, log, cs)
  BY Zenon DEF ChunkInv, InvOf
<1> PICK b \in Seq(Cell), l \in Nat \ {0}, o \in BOOLEAN : \E xs :
      /\ parsed = Client(b, xs, l, o) /\ Delivered(ms, sp, h) /\ (~o => SomeRefused(ms))
      /\ o => \E r, M : Synced(ms, log, cs, w, b, xs, l, h, r, M) /\ (w = <<>> => r = Len(log))
  BY Zenon DEF ServerAt
<1> PICK xs : /\ parsed = Client(b, xs, l, o) /\ Delivered(ms, sp, h) /\ (~o => SomeRefused(ms))
              /\ o => \E r, M : Synced(ms, log, cs, w, b, xs, l, h, r, M) /\ (w = <<>> => r = Len(log))
  OBVIOUS
<1>1. parsed.open = o
  BY DEF Client
<1>2. Len(h) <= Len(sp) /\ \A j \in 1 .. Len(h) : Whole(ms, h[j], sp[j])
  BY Zenon DEF Delivered
<1>3. ASSUME NEW j \in 1 .. Len(handled) PROVE C!SameMessage(handled[j], spoken[j])
  <2>1. Whole(ms, h[j], sp[j])
    BY <1>2, Zenon
  <2> QED BY <2>1, Zenon DEF Whole, C!SameMessage
<1>4. ASSUME wire = <<>>, parsed.open PROVE Len(handled) = Len(spoken)
  <2> PICK r, M : Synced(ms, log, cs, w, b, xs, l, h, r, M) /\ r = Len(log)
    BY <1>1, <1>4
  <2>1. Len(h) = log[r].count
    BY Zenon DEF Synced
  <2>2. log[Len(log)].count = Len(sp)
    BY Zenon DEF PeerAt
  <2> QED BY <2>1, <2>2, Zenon
<1>5. ASSUME ~parsed.open PROVE \E n \in 1 .. Len(said) : C!IsRefused(said[n])
  BY <1>1, <1>5 DEF SomeRefused
<1>6. Len(handled) <= Len(spoken)
  BY <1>2, Zenon
<1> QED BY <1>3, <1>4, <1>5, <1>6, Zenon DEF C!ChunksAssembled
-----------------------------------------------------------------------------
\* What rtmp_send makes of a message, and what becomes of it.

\* The bytes that stand between the chunks: D of them for N bytes in chunks of L.
IsGaps(N, L, D) ==
  /\ D \in Nat /\ D * L \in Nat /\ D * L < N /\ N <= (D * L) + L
  /\ \A j \in Nat : j * L \in Nat /\ (j + 1) * L = (j * L) + L /\ (j <= D <=> j * L < N)
  /\ 0 * L = 0

\* There are so many.
LEMMA GapsAre ==
  ASSUME NEW N \in Nat \ {0}, NEW L \in Nat \ {0}, NEW D, D = (N - 1) \div L
  PROVE  IsGaps(N, L, D)
<1> PICK x \in Nat : x = N - 1
  OBVIOUS
<1> PICK s : s = x % L
  OBVIOUS
<1>1. D \in Nat /\ s \in 0 .. L - 1 /\ x = (D * L) + s
  BY Divided
<1>2. /\ 0 * L = 0
      /\ \A m \in Nat : m * L \in Nat /\ (m + 1) * L = (m * L) + L
      /\ \A m, n \in Nat : m <= n => m * L <= n * L
  BY Multiples
<1> PICK A \in Nat : A = D * L
  BY <1>1, <1>2
<1>3. A < N /\ N <= A + L
  BY <1>1
<1>4. ASSUME NEW j \in Nat PROVE j <= D <=> j * L < N
  <2> PICK J \in Nat : J = j * L
    BY <1>2
  <2>1. j <= D => J <= A
    BY <1>1, <1>2
  <2>2. D + 1 <= j => A + L <= J
    <3> D + 1 \in Nat /\ (D + 1) * L = A + L
      BY <1>1, <1>2
    <3> QED BY <1>2
  <2> QED BY ONLY <1>1, <1>3, <2>1, <2>2, J = j * L, J \in Nat, A \in Nat, L \in Nat \ {0}, N \in Nat \ {0}, j \in Nat
<1> QED BY <1>1, <1>2, <1>3, <1>4, Zenon DEF IsGaps

\* What rtmp_send makes of the N bytes of message n.
IsCut(cut, n, N, L, D, ch) ==
  /\ cut \in Seq(Cell) /\ Len(cut) = N + D
  /\ \A j \in 1 .. D : cut[(j * L) + j] = <<"flags", 3, ch>>
  /\ \A j \in 0 .. D : \A x \in 1 .. L : (j * L) + x <= N => cut[(j * L) + j + x] = <<n, (j * L) + x>>

\* C!Cut makes that of them.
LEMMA CutIs ==
  ASSUME NEW n \in Nat, NEW N \in Nat \ {0}, NEW L \in Nat \ {0}, NEW ch \in Channels,
         NEW buf, buf = C!Bytes(n, 0, N), NEW D, D = (N - 1) \div L
  PROVE  IsCut(C!Cut(ch, buf, L), n, N, L, D, ch)
<1>1. /\ D \in Nat /\ D * L \in Nat /\ D * L < N /\ N <= (D * L) + L
      /\ \A j \in Nat : j * L \in Nat /\ (j + 1) * L = (j * L) + L /\ (j <= D <=> j * L < N)
      /\ 0 * L = 0
  <2>1. IsGaps(N, L, D)
    BY GapsAre, Zenon
  <2> QED BY <2>1, Zenon DEF IsGaps
<1>2. buf \in Seq(Nat \X Nat) /\ Len(buf) = N /\ \A at \in 1 .. N : buf[at] = <<n, at>>
  <2> N \in Nat
    OBVIOUS
  <2>1. AreFirst(C!Bytes(n, 0, N), n, N)
    BY FirstBytes, Zenon
  <2> QED BY ONLY <2>1, buf = C!Bytes(n, 0, N), Zenon DEF AreFirst
<1> PICK T \in Nat : T = N + D
  BY <1>1
<1> PICK K \in Nat \ {0} : K = L + 1
  OBVIOUS
<1> DEFINE at(y) == IF y % K = 0 THEN <<"flags", 3, ch>> ELSE buf[y - (y \div K)]
<1> PICK f : f = [y \in 1 .. T |-> at(y)]
  OBVIOUS
<1>3. C!Cut(ch, buf, L) = f
  BY <1>2, Zenon DEF C!Cut, C!Spaced
\* Cell x of the part behind the j-th byte between.
<1>4. ASSUME NEW j \in Nat, NEW x \in 0 .. L, NEW y, y = (j * L) + j + x
      PROVE  y \in Nat /\ y \div K = j /\ y % K = x
  <2> PICK J \in Nat : J = j * L
    BY <1>1
  <2>1. j * K = J + j
    <3> j * (L + 1) = (j * L) + j
      OBVIOUS
    <3> QED OBVIOUS
  <2>2. y = (j * K) + x
    BY <1>4, <2>1
  <2>3. x \in Nat /\ x < K
    OBVIOUS
  <2>4. ((j * K) + x) \div K = j /\ ((j * K) + x) % K = x
    BY ONLY <2>3, Quotient, j \in Nat, K \in Nat \ {0}
  <2>5. y \in Nat
    BY <1>4
  <2> QED BY <2>2, <2>4, <2>5, Zenon
<1>5. ASSUME NEW j \in 1 .. D PROVE f[(j * L) + j] = <<"flags", 3, ch>>
  <2> PICK J \in Nat : J = j * L
    BY <1>1
  <2> PICK y : y = J + j + 0
    OBVIOUS
  <2>1. j \in Nat /\ 0 \in 0 .. L
    OBVIOUS
  <2>2. y % K = 0
    BY <1>4, <2>1
  <2>3. J < N
    <3> j \in Nat /\ j <= D
      BY <1>1
    <3> QED BY <1>1, Zenon
  <2>4. y \in 1 .. T /\ y = J + j
    BY ONLY <1>1, <2>3, j \in 1 .. D, J \in Nat, T = N + D, N \in Nat \ {0}, y = J + j + 0
  <2> QED BY <2>2, <2>4
<1>6. ASSUME NEW j \in 0 .. D, NEW x \in 1 .. L, (j * L) + x <= N
      PROVE  f[(j * L) + j + x] = <<n, (j * L) + x>>
  <2> PICK J \in Nat : J = j * L
    BY <1>1
  <2> PICK y : y = J + j + x
    OBVIOUS
  <2>1. j \in Nat /\ x \in 0 .. L
    OBVIOUS
  <2>2. y \div K = j /\ y % K = x
    BY <1>4, <2>1
  <2>3. y \in 1 .. T /\ y - j = J + x /\ J + x \in 1 .. N /\ x # 0
    BY ONLY <1>1, <1>6, j \in 0 .. D, x \in 1 .. L, J = j * L, J \in Nat, T = N + D, N \in Nat \ {0},
            L \in Nat \ {0}, y = J + j + x
  <2>4. f[y] = buf[J + x]
    BY <2>2, <2>3
  <2>5. f[y] = <<n, J + x>>
    BY <1>2, <2>3, <2>4, Zenon
  <2> QED BY <2>5, Zenon
<1>7. ASSUME NEW y \in 1 .. T PROVE at(y) \in Cell
  <2> PICK a : a = y \div K
    OBVIOUS
  <2> PICK x : x = y % K
    OBVIOUS
  <2>1. a \in Nat /\ x \in 0 .. K - 1 /\ y = (a * K) + x
    <3> y \in Nat
      OBVIOUS
    <3> QED BY Divided
  <2>2. CASE x = 0
    <3>1. <<"flags", 3, ch>> \in Cell
      <4> 3 \in 0 .. 3
        OBVIOUS
      <4> QED BY DEF Cell
    <3> QED BY <2>2, <3>1
  <2>3. CASE x # 0
    <3> PICK J \in Nat : J = a * L
      BY <1>1, <2>1
    <3>1. a * K = J + a
      <4> a * (L + 1) = (a * L) + a
        BY ONLY a \in Nat, L \in Nat \ {0}
      <4> QED OBVIOUS
    <3>2. ~(a <= D) => N <= J
      <4> ~(a <= D) => ~(J < N)
        BY <1>1, <2>1, Zenon
      <4> QED OBVIOUS
    <3>3. a < D => J + L < N
      <4> SUFFICES ASSUME a < D PROVE J + L < N
        OBVIOUS
      <4> a + 1 \in Nat /\ a + 1 <= D
        BY <1>1, <2>1
      <4>1. (a + 1) * L < N /\ (a + 1) * L = (a * L) + L
        BY <1>1, <2>1
      <4> QED BY <4>1
    <3>4. x \in 1 .. L /\ y = J + a + x
      BY ONLY <2>1, <2>3, <3>1, K = L + 1, L \in Nat \ {0}, J \in Nat
    <3>5. a <= D
      BY ONLY <1>1, <2>1, <3>2, <3>4, y \in 1 .. T, T = N + D, N \in Nat \ {0}, J \in Nat, L \in Nat \ {0}
    <3>6. y - a \in 1 .. N
      BY ONLY <1>1, <2>1, <3>3, <3>4, <3>5, y \in 1 .. T, T = N + D, N \in Nat \ {0}, J \in Nat, L \in Nat \ {0}
    <3>7. at(y) = <<n, y - a>>
      <4> PICK z \in 1 .. N : z = y - a
        BY <3>6
      <4>1. at(y) = buf[z]
        BY <2>3, Zenon
      <4> QED BY <1>2, <4>1, Zenon
    <3>8. <<n, y - a>> \in Cell
      <4> PICK z \in Nat : z = y - a
        BY ONLY <3>6, N \in Nat \ {0}
      <4>1. <<n, z>> \in Nat \X Nat
        OBVIOUS
      <4> QED BY <4>1, Zenon DEF Cell
    <3> QED BY <3>7, <3>8, Zenon
  <2> QED BY <2>2, <2>3
<1>8. f \in Seq(Cell) /\ Len(f) = T
  <2> HIDE DEF at
  <2> QED BY ONLY <1>7, f = [y \in 1 .. T |-> at(y)], T \in Nat
<1>9. IsCut(f, n, N, L, D, ch)
  BY <1>5, <1>6, <1>8, Zenon DEF IsCut
<1> QED BY <1>3, <1>9, Zenon

\* A round that takes a chunk of a media message, whoever sent it.
Reads(p, k, m, e, b, M, l, x, rest) ==
  /\ IsEnlarged(m, k, e, x)
  /\ rest \in Seq(Cell) /\ Len(rest) = Len(b) - (C!HEADER_LENGTH[k.fmt] + (e - k.from))
  /\ \A at \in 1 .. Len(rest) : rest[at] = b[C!HEADER_LENGTH[k.fmt] + (e - k.from) + at]
  /\ e < m.kind.len => p = Parsing(rest, [M EXCEPT ![k.ch] = x], l, TRUE, <<>>)
  /\ e = m.kind.len => \E R : p = Parsing(rest, R, l, TRUE, <<x>>)

\* The round of RoundOf is one of these.
LEMMA RoundReads ==
  ASSUME C!ChunksAssumption, NEW ms, NEW a, NEW k \in ChunkSent, NEW m \in Said, m = ms[k.n],
         m.kind.type = "media", ~IsLong(k.fmt, m), NEW M \in [Channels -> Message], NEW l \in Nat \ {0},
         NEW b \in Seq(Cell), b[1] = <<"flags", k.fmt, k.ch>>, IsDue(ms, a, k, M, b),
         NEW e \in Nat, k.from < m.kind.len, e = C!Least(m.kind.len, k.from + l),
         Len(b) >= C!HEADER_LENGTH[k.fmt] + (e - k.from),
         \A j \in 1 .. e - k.from : b[C!HEADER_LENGTH[k.fmt] + j] = <<k.n, k.from + j>>
  PROVE  \E x, rest : Reads(C!Round(Parsing(b, M, l, TRUE, <<>>)), k, m, e, b, M, l, x, rest)
<1> PICK t \in 0 .. 3, ch \in Channels, f \in Nat : t = k.fmt /\ ch = k.ch /\ f = k.from
  BY DEF ChunkSent
<1> PICK N \in Nat : N = m.kind.len
  BY DEF Said, Kind
<1> PICK H \in 1 .. 5 : H = C!HEADER_LENGTH[t]
  BY HeaderLengths
<1> PICK D \in Message : D = Due(m, M[ch])
  BY Zenon DEF IsDue
<1> PICK q : q = e - f
  OBVIOUS
<1>1. e <= N /\ f < e /\ q \in Nat /\ q = C!Least(N - f, l) /\ f <= e
  <2>1. f < N /\ e = IF N < f + l THEN N ELSE f + l
    BY Zenon DEF C!Least
  <2>2. e <= N /\ f < e /\ q \in Nat /\ f <= e /\ q = IF N - f < l THEN N - f ELSE l
    BY ONLY <2>1, q = e - f, N \in Nat, f \in Nat, l \in Nat \ {0}, e \in Nat
  <2> QED BY <2>2, Zenon DEF C!Least
<1>2. /\ D.len = N /\ D.type = "media" /\ Len(D.buf) = f /\ Taken(M[ch], b, t) = D
      /\ (t <= 2 => (b[2][2] = EXT <=> IsLong(t, m)))
  BY Zenon DEF IsDue, Due
<1> PICK u : u = SubSeq(b, H + 1, H + q)
  OBVIOUS
<1> PICK rest : rest = SubSeq(b, H + q + 1, Len(b))
  OBVIOUS
<1>3. Split(b, k, e, u, rest)
  <2>1. Len(b) >= H + q /\ \A j \in 1 .. q : b[H + j] = <<k.n, k.from + j>>
    BY Zenon
  <2> QED BY <1>1, <2>1, SplitIs, Zenon
<1> PICK x : x = Enlarged(D, b, t, q)
  OBVIOUS
<1>4. IsEnlarged(m, k, e, x)
  <2>1. Split(b, k, e, SubSeq(b, C!HEADER_LENGTH[k.fmt] + 1, C!HEADER_LENGTH[k.fmt] + q), rest)
    BY <1>3, Zenon
  <2>2. IsEnlarged(m, k, e, Enlarged(Due(m, M[k.ch]), b, k.fmt, q))
    BY <1>1, <2>1, EnlargedIs, Zenon
  <2> QED BY <2>2, Zenon
<1>5. x.len = N /\ x.type = "media" /\ Len(x.buf) = e
  BY <1>4, Zenon DEF IsEnlarged
<1> PICK ns : ns = [M EXCEPT ![ch] = D]
  OBVIOUS
<1> PICK p : p = C!Round(Parsing(b, M, l, TRUE, <<>>))
  OBVIOUS
<1>6. Len(b) \in Nat
  BY LenProperties
<1>7. Len(b) >= H /\ ~(Len(b) < H + q) /\ b # <<>> /\ N # 0 /\ N >= f
  <2>1. Len(b) >= H + q
    BY Zenon
  <2>2. Len(b) >= H /\ ~(Len(b) < H + q) /\ Len(b) # 0 /\ N # 0 /\ N >= f
    BY ONLY <1>1, <1>6, <2>1, H \in 1 .. 5, N \in Nat, f \in Nat, e \in Nat
  <2> QED BY <2>2, EmptySeq
<1>8. p = Rounded(b, ns, l, <<>>, t, ch, D, q)
  <2>1. RoundIs(b, M, l, <<>>, t, ch, D, q)
    <3>1. b[1] = <<"flags", t, ch>> /\ Len(b) >= C!HEADER_LENGTH[t] /\ D.len >= Len(D.buf)
          /\ q = C!Least(D.len - Len(D.buf), l)
      BY <1>1, <1>2, <1>7, Zenon
    <3> QED BY <1>2, <1>6, <1>7, <3>1, RoundOf, Zenon
  <2> QED BY <2>1, Zenon DEF RoundIs
<1>9. [ns EXCEPT ![ch] = x] = [M EXCEPT ![ch] = x]
  OBVIOUS
<1>10. ~(t <= 2 /\ b[2][2] = EXT)
  BY <1>2, Zenon
<1>11. p = IF e < N THEN Parsing(rest, [M EXCEPT ![ch] = x], l, TRUE, <<>>)
           ELSE Parsing(rest, [ns EXCEPT ![ch] = Emptied(x)], l, TRUE, Append(<<>>, x))
  <2> "media" # "set chunk"
    OBVIOUS
  <2> QED BY <1>2, <1>5, <1>7, <1>8, <1>9, <1>10, Zenon DEF Rounded
<1>12. Append(<<>>, x) = <<x>>
  BY ONLY TRUE
<1>13. e = N => ~(e < N)
  BY ONLY e \in Nat, N \in Nat
<1>14. e = m.kind.len => \E R : p = Parsing(rest, R, l, TRUE, <<x>>)
  BY <1>11, <1>12, <1>13, Zenon
<1>15. e < m.kind.len => p = Parsing(rest, [M EXCEPT ![k.ch] = x], l, TRUE, <<>>)
  BY <1>11, Zenon
<1>16. Reads(p, k, m, e, b, M, l, x, rest)
  BY <1>3, <1>4, <1>14, <1>15, Zenon DEF Reads, Split
<1> QED BY <1>16, Zenon

\* The next chunk of a message that has begun, behind a single byte.
LEMMA DueShort ==
  ASSUME NEW ms, NEW a, NEW k, k.fmt = 3, NEW m, m = ms[k.n], ~m.drifted, m.kind.timestamp \in Nat,
         NEW M, NEW x, x = M[k.ch], NEW b, NEW d, d.n = k.n, NEW e, e = k.from, IsEnlarged(m, d, e, x)
  PROVE  IsDue(ms, a, k, M, b)
<1>1. /\ x \in Message /\ x.type = m.kind.type /\ x.len = m.kind.len /\ x.endpoint = m.kind.endpoint
      /\ x.buf = C!Bytes(k.n, 0, e) /\ Len(x.buf) = e /\ x.timestamp = m.kind.timestamp
  BY Zenon DEF IsEnlarged
<1> PICK D : D = Due(m, x)
  OBVIOUS
<1>2. x = [type |-> x.type, len |-> x.len, timestamp |-> x.timestamp, endpoint |-> x.endpoint, buf |-> x.buf]
  BY <1>1 DEF Message
<1>3. D = x
  BY <1>1, <1>2, Zenon DEF Due
<1>4. ~(3 <= 1) /\ 3 # 0 /\ ~(3 <= 2)
  OBVIOUS
<1>5. Taken(x, b, 3) = x
  BY <1>2, <1>4, Zenon DEF Taken
<1>6. TimeOf(x, b, 3) = m.kind.timestamp
  BY <1>1, Zenon DEF TimeOf
<1> QED BY <1>1, <1>3, <1>4, <1>5, <1>6, Zenon DEF IsDue

\* The first chunk of a message, behind a full header.
LEMMA DueFull ==
  ASSUME C!ChunksAssumption, NEW ms, NEW a, NEW k, k.fmt = 0, k.from = 0, k.n \in Nat,
         NEW m \in Said, m = ms[k.n], ~IsLong(0, m),
         NEW M, M[k.ch] = C!RTMP_Message, NEW b,
         b[2][2] = m.kind.timestamp, b[3][2] = m.kind.len, b[4][2] = m.kind.type, b[5][2] = m.kind.endpoint
  PROVE  IsDue(ms, a, k, M, b)
<1> PICK y \in Message : y = C!RTMP_Message
  <2> C!RTMP_Message \in Message
    BY DEF C!RTMP_Message, Message
  <2> QED OBVIOUS
<1>1. y.timestamp = 0 /\ y.buf = <<>> /\ Len(<<>>) = 0
  BY DEF C!RTMP_Message
<1>2. /\ m.kind.type \in {"media", "set chunk"} /\ m.kind.len \in Nat /\ m.kind.endpoint \in Nat
      /\ m.kind.timestamp \in Nat
  BY DEF Said, Kind
<1> PICK D : D = Due(m, y)
  OBVIOUS
<1>3. D = [type |-> m.kind.type, len |-> m.kind.len, timestamp |-> 0, endpoint |-> m.kind.endpoint, buf |-> <<>>]
  BY <1>1, Zenon DEF Due
<1>4. D.timestamp = 0 /\ D.buf = <<>>
  BY <1>3
<1>5. D \in Message
  <2> <<>> \in Seq(Nat \X Nat) /\ 0 \in Nat
    BY EmptySeq
  <2> QED BY ONLY <1>2, <1>3, <<>> \in Seq(Nat \X Nat), 0 \in Nat DEF Message
<1>6. 0 <= 1 /\ 0 <= 2 /\ 0 # 3
  OBVIOUS
<1>7. Taken(y, b, 0) = D /\ Taken(D, b, 0) = D
  BY <1>1, <1>3, <1>4, <1>6, Zenon DEF Taken
<1>8. TimeOf(D, b, 0) = m.kind.timestamp
  BY <1>6, Zenon DEF TimeOf
<1>9. b[2][2] # EXT
  <2>1. ~(m.kind.timestamp >= EXT) /\ EXT \in Nat
    BY DEF IsLong, C!ChunksAssumption
  <2> PICK t \in Nat : t = m.kind.timestamp
    BY <1>2
  <2>2. t # EXT
    BY ONLY <2>1, t \in Nat, t = m.kind.timestamp
  <2> QED BY <2>2, Zenon
<1>10. C!Bytes(k.n, 0, 0) = <<>>
  BY NoBytes, Zenon
<1> QED BY <1>1, <1>2, <1>4, <1>5, <1>7, <1>8, <1>9, <1>10, Zenon DEF IsDue

\* A message that the server sends, as if a peer had said it; its j-th chunk.
Resaid(m, ts) ==
  [kind |-> [type |-> "media", len |-> m.len, size |-> 1, endpoint |-> m.endpoint, timestamp |-> ts],
   fmt |-> 0, delta |-> 0, drifted |-> FALSE]

\* Chunk j of a message that the server sends.
TheNext(n, j, L, ch) == [n |-> n, from |-> j * L, fmt |-> IF j = 0 THEN 0 ELSE 3, ch |-> ch]

\* The reader is in front of that chunk, or has read the message.
InFront(p, s, n, j, L, D, cut, ch) ==
  LET k == TheNext(n, j, L, ch)
      H == C!HEADER_LENGTH[k.fmt]
      A == (j * L) + j
  IN  \E b \in Seq(Cell), M \in [Channels -> Message] :
        /\ p = Parsing(b, M, L, TRUE, <<>>) /\ j \in 0 .. D /\ b[1] = <<"flags", k.fmt, ch>>
        /\ Len(b) = H + (Len(cut) - A) /\ (\A x \in 1 .. Len(cut) - A : b[H + x] = cut[A + x])
        /\ IsDue([at \in {n} |-> s], 0, k, M, b)

\* The message has come, whole.
Came(p, s, n, L) ==
  \E R, x :
    /\ p = Parsing(<<>>, R, L, TRUE, <<x>>) /\ x \in Message /\ x.type = "media" /\ x.len = s.kind.len
    /\ x.endpoint = s.kind.endpoint /\ x.timestamp = s.kind.timestamp /\ x.buf = C!Bytes(n, 0, s.kind.len)

\* A chunk of the N bytes behind a header: the next one stands in front, or it was the last.
LEMMA ChunkRead ==
  ASSUME C!ChunksAssumption, NEW n \in Nat, NEW s \in Said, s.kind.type = "media", ~s.drifted, s.kind.timestamp < EXT,
         NEW N \in Nat \ {0}, N = s.kind.len, NEW L \in Nat \ {0}, NEW D, D = (N - 1) \div L,
         NEW ch \in Channels, NEW cut, IsCut(cut, n, N, L, D, ch),
         NEW p, NEW j \in Nat, InFront(p, s, n, j, L, D, cut, ch)
  PROVE  InFront(C!Round(p), s, n, j + 1, L, D, cut, ch) \/ Came(C!Round(p), s, n, L)
<1>1. /\ D \in Nat /\ \A at \in Nat : at * L \in Nat /\ (at + 1) * L = (at * L) + L /\ (at <= D <=> at * L < N)
  <2>1. IsGaps(N, L, D)
    BY GapsAre, Zenon
  <2> QED BY <2>1, Zenon DEF IsGaps
<1>2. /\ cut \in Seq(Cell) /\ Len(cut) = N + D
      /\ \A at \in 1 .. D : cut[(at * L) + at] = <<"flags", 3, ch>>
      /\ \A at \in 0 .. D : \A x \in 1 .. L : (at * L) + x <= N => cut[(at * L) + at + x] = <<n, (at * L) + x>>
  BY Zenon DEF IsCut
<1> PICK A \in Nat : A = j * L
  <2> j * L \in Nat
    BY <1>1, Zenon
  <2> QED OBVIOUS
<1> PICK k : k = TheNext(n, j, L, ch)
  OBVIOUS
<1>3. k.n = n /\ k.from = A /\ k.ch = ch /\ k.fmt = IF j = 0 THEN 0 ELSE 3
  BY DEF TheNext
<1>4. k.fmt \in 0 .. 3
  BY <1>3
<1>5. k \in ChunkSent
  <2>1. k = [n |-> n, from |-> A, fmt |-> k.fmt, ch |-> ch]
    BY <1>3, Zenon DEF TheNext
  <2> QED BY ONLY <1>4, <2>1, n \in Nat, A \in Nat, ch \in Channels DEF ChunkSent
<1> PICK H \in 1 .. 5 : H = C!HEADER_LENGTH[k.fmt]
  BY <1>4, HeaderLengths
<1> PICK b \in Seq(Cell), M \in [Channels -> Message] :
        /\ p = Parsing(b, M, L, TRUE, <<>>) /\ j \in 0 .. D /\ b[1] = <<"flags", k.fmt, ch>>
        /\ Len(b) = H + (Len(cut) - (A + j)) /\ (\A x \in 1 .. Len(cut) - (A + j) : b[H + x] = cut[(A + j) + x])
        /\ IsDue([at \in {n} |-> s], 0, k, M, b)
  BY Zenon DEF InFront
<1>6. A < N /\ j <= D
  <2> j <= D
    BY <1>1
  <2> QED BY <1>1, Zenon
<1>7. ~IsLong(k.fmt, s)
  <2>1. EXT \in Nat /\ s.kind.timestamp \in Nat
    BY DEF C!ChunksAssumption, Said, Kind
  <2>2. ~(s.kind.timestamp >= EXT)
    BY ONLY <2>1, s.kind.timestamp < EXT
  <2> QED BY <2>2, Zenon DEF IsLong
<1> PICK e : e = C!Least(N, A + L)
  OBVIOUS
<1> PICK q : q = e - A
  OBVIOUS
<1>8. /\ e \in Nat /\ q \in 1 .. L /\ e <= N /\ A + q = e /\ (e < N => e = A + L) /\ (e = N => N <= A + L)
  <2>1. e = IF N < A + L THEN N ELSE A + L
    BY Zenon DEF C!Least
  <2> QED BY ONLY <1>6, <2>1, q = e - A, N \in Nat \ {0}, A \in Nat, L \in Nat \ {0}
<1> PICK T \in Nat : T = N + D
  <2>1. D \in Nat
    BY <1>1, Zenon
  <2> QED BY ONLY <2>1, N \in Nat \ {0}
<1>9. Len(cut) = T /\ Len(b) = H + (T - (A + j)) /\ \A x \in 1 .. T - (A + j) : b[H + x] = cut[(A + j) + x]
  BY <1>2, Zenon
<1>10. q <= T - (A + j)
  BY ONLY <1>1, <1>6, <1>8, T = N + D, N \in Nat \ {0}, A \in Nat, j \in Nat
<1>11. Len(b) >= H + q
  BY ONLY <1>8, <1>9, <1>10, H \in 1 .. 5, T \in Nat, A \in Nat, j \in Nat, L \in Nat \ {0}
<1>12. ASSUME NEW x \in 1 .. q PROVE b[H + x] = <<n, A + x>>
  <2>1. x \in 1 .. T - (A + j) /\ x \in 1 .. L /\ A + x <= N /\ (A + j) + x = A + j + x /\ j \in 0 .. D
    BY ONLY <1>1, <1>6, <1>8, <1>10, x \in 1 .. q, T \in Nat, A \in Nat, j \in Nat, L \in Nat \ {0}, N \in Nat \ {0}
  <2>2. cut[A + j + x] = <<n, A + x>>
    BY <1>2, <2>1, Zenon
  <2> QED BY <1>9, <2>1, <2>2, Zenon
<1> PICK ms : ms = [at \in {n} |-> s]
  OBVIOUS
<1>13. ms[k.n] = s
  BY <1>3
<1> PICK z : z = C!Round(p)
  OBVIOUS
<1> PICK x, rest : Reads(z, k, s, e, b, M, L, x, rest)
  <2>1. /\ b[1] = <<"flags", k.fmt, k.ch>> /\ IsDue(ms, 0, k, M, b) /\ k.from < s.kind.len
        /\ e = C!Least(s.kind.len, k.from + L) /\ Len(b) >= C!HEADER_LENGTH[k.fmt] + (e - k.from)
        /\ \A at \in 1 .. e - k.from : b[C!HEADER_LENGTH[k.fmt] + at] = <<k.n, k.from + at>>
    BY <1>3, <1>6, <1>11, <1>12, Zenon
  <2> PICK ww : ww = C!Round(Parsing(b, M, L, TRUE, <<>>))
    OBVIOUS
  <2>2. \E x, rest : Reads(ww, k, s, e, b, M, L, x, rest)
    BY <1>5, <1>7, <1>8, <1>13, <2>1, RoundReads, Zenon
  <2> QED BY <2>2, Zenon
<1>14. /\ IsEnlarged(s, k, e, x) /\ rest \in Seq(Cell) /\ Len(rest) = Len(b) - (H + q)
       /\ \A at \in 1 .. Len(rest) : rest[at] = b[H + q + at]
       /\ e < N => z = Parsing(rest, [M EXCEPT ![ch] = x], L, TRUE, <<>>)
       /\ e = N => \E R : z = Parsing(rest, R, L, TRUE, <<x>>)
  BY <1>3, Zenon DEF Reads
<1>15. (j + 1) * L = A + L /\ j + 1 \in Nat /\ (j + 1 <= D <=> A + L < N)
  <2>1. j + 1 \in Nat
    OBVIOUS
  <2>2. (j + 1) * L = A + L
    BY <1>1, Zenon
  <2>3. j + 1 <= D <=> (j + 1) * L < N
    BY <1>1, <2>1, Zenon
  <2> QED BY <2>1, <2>2, <2>3, Zenon
<1>16. e < N \/ e = N
  BY ONLY <1>8, N \in Nat \ {0}
\* The last chunk.
<1>17. CASE e = N
  <2>1. Len(rest) = 0
    <3>1. ~(j + 1 <= D)
      BY ONLY <1>8, <1>15, <1>17, A \in Nat, L \in Nat \ {0}, N \in Nat \ {0}
    <3>2. j = D
      BY ONLY <1>1, <1>6, <3>1, j \in Nat
    <3> QED BY ONLY <1>1, <1>8, <1>9, <1>14, <1>17, <3>2, T = N + D, H \in 1 .. 5, A \in Nat, N \in Nat \ {0}
  <2>2. rest = <<>>
    BY ONLY <1>14, <2>1, EmptySeq
  <2> PICK R : z = Parsing(<<>>, R, L, TRUE, <<x>>)
    BY <1>14, <1>17, <2>2, Zenon
  <2>3. /\ x \in Message /\ x.type = "media" /\ x.len = s.kind.len /\ x.endpoint = s.kind.endpoint
        /\ x.timestamp = s.kind.timestamp /\ x.buf = C!Bytes(n, 0, s.kind.len)
    BY <1>3, <1>14, <1>17, Zenon DEF IsEnlarged
  <2> QED BY <2>3, Zenon DEF Came
\* There is more.
<1>18. CASE e < N
  <2> PICK i1 \in Nat : i1 = j + 1
    BY <1>15
  <2> PICK d : d = TheNext(n, i1, L, ch)
    OBVIOUS
  <2>0. i1 # 0 /\ i1 \in 1 .. D /\ i1 * L = e /\ q = L
    BY ONLY <1>1, <1>8, <1>15, <1>18, i1 = j + 1, i1 \in Nat, j \in Nat, N \in Nat \ {0}, A \in Nat, L \in Nat \ {0}
  <2>1. d.n = n /\ d.from = e /\ d.ch = ch /\ d.fmt = 3
    BY <2>0, Zenon DEF TheNext
  <2> PICK W : W = [M EXCEPT ![ch] = x]
    OBVIOUS
  <2>2. W \in [Channels -> Message] /\ W[ch] = x
    <3> x \in Message
      BY <1>14, Zenon DEF IsEnlarged
    <3> QED OBVIOUS
  <2>3. z = Parsing(rest, W, L, TRUE, <<>>)
    BY <1>14, <1>18, Zenon
  <2>4. IsDue(ms, 0, d, W, rest)
    <3> s.kind.timestamp \in Nat
      BY DEF Said, Kind
    <3>1. s = ms[d.n] /\ x = W[d.ch] /\ k.n = d.n /\ e = d.from
      BY <1>3, <1>13, <2>1, <2>2, Zenon
    <3> QED BY <1>14, <2>1, <3>1, DueShort, Zenon
  <2>5. C!HEADER_LENGTH[d.fmt] = 1
    BY <2>1, HeaderLengths, Zenon
  <2> PICK G : G = e + i1
    OBVIOUS
  <2>6. Len(rest) = 1 + (T - G) /\ T - G \in Nat
    <3>1. D \in Nat /\ Len(rest) = Len(b) - (H + q) /\ Len(b) = H + (T - (A + j)) /\ q = L
      BY <1>1, <1>9, <1>14, <2>0, Zenon
    <3>2. i1 \in 1 .. D /\ e = A + L
      BY <1>8, <1>18, <2>0, Zenon
    <3> QED BY ONLY <1>18, <3>1, <3>2, G = e + i1, i1 = j + 1, T = N + D, H \in 1 .. 5, A \in Nat,
                    L \in Nat \ {0}, N \in Nat \ {0}, j \in Nat
  <2>7. ASSUME NEW at \in 1 .. Len(rest) PROVE rest[at] = cut[(G - 1) + at]
    <3>1. /\ q + at \in 1 .. T - (A + j) /\ H + q + at = H + (q + at) /\ (A + j) + (q + at) = (G - 1) + at
      BY ONLY <1>1, <1>8, <1>18, <2>0, <2>6, G = e + i1, i1 = j + 1, T = N + D, H \in 1 .. 5, A \in Nat,
              L \in Nat \ {0}, N \in Nat \ {0}, j \in Nat, at \in 1 .. Len(rest)
    <3>2. b[H + (q + at)] = cut[(A + j) + (q + at)]
      BY <1>9, <3>1, Zenon
    <3>3. rest[at] = b[H + q + at]
      BY <1>14, Zenon
    <3> QED BY ONLY <3>1, <3>2, <3>3, Zenon
  <2>8. rest[1] = <<"flags", 3, ch>>
    <3>1. 1 \in 1 .. Len(rest) /\ (G - 1) + 1 = e + i1
      BY ONLY <1>8, <2>6, G = e + i1, i1 \in Nat
    <3>2. rest[1] = cut[e + i1]
      BY <2>7, <3>1, Zenon
    <3>3. cut[(i1 * L) + i1] = <<"flags", 3, ch>>
      BY <1>2, <2>0, Zenon
    <3> QED BY <2>0, <3>2, <3>3, Zenon
  <2>9. ASSUME NEW y \in 1 .. T - G PROVE rest[1 + y] = cut[G + y]
    <3>1. 1 + y \in 1 .. Len(rest) /\ (G - 1) + (1 + y) = G + y
      BY ONLY <1>8, <2>6, G = e + i1, i1 \in Nat, y \in 1 .. T - G
    <3> QED BY <2>7, <3>1, Zenon
  <2>10. i1 \in 0 .. D
    BY ONLY <1>1, <2>0
  <2>11. InFront(z, s, n, i1, L, D, cut, ch)
    <3>1. /\ rest[1] = <<"flags", d.fmt, ch>> /\ Len(rest) = C!HEADER_LENGTH[d.fmt] + (Len(cut) - ((i1 * L) + i1))
          /\ \A y \in 1 .. Len(cut) - ((i1 * L) + i1) : rest[C!HEADER_LENGTH[d.fmt] + y] = cut[((i1 * L) + i1) + y]
      <4>1. (i1 * L) + i1 = G /\ Len(cut) = T /\ d.fmt = 3
        BY <1>9, <2>0, <2>1, Zenon
      <4>2. rest[1] = <<"flags", 3, ch>> /\ Len(rest) = 1 + (T - G) /\ \A y \in 1 .. T - G : rest[1 + y] = cut[G + y]
        BY <2>6, <2>8, <2>9, Zenon
      <4> QED BY ONLY <2>5, <4>1, <4>2, Zenon
    <3>2. rest \in Seq(Cell) /\ W \in [Channels -> Message]
      BY <1>14, <2>2, Zenon
    <3>3. IsDue([at \in {n} |-> s], 0, d, W, rest)
      BY <2>4, Zenon
    <3> QED BY ONLY <2>3, <2>10, <3>1, <3>2, <3>3, d = TheNext(n, i1, L, ch), Zenon DEF InFront
  <2> QED BY <2>11, Zenon
<1> QED BY <1>16, <1>17, <1>18

\* What rtmp_send makes of a message, cell by cell.
IsSentAs(b, ch, m, ts, cut) ==
  /\ b \in Seq(Cell) /\ Len(b) = 5 + Len(cut) /\ Len(b) \in Nat
  /\ b[1] = <<"flags", 0, ch>> /\ b[2][2] = ts /\ b[3][2] = Len(m.buf) /\ b[4][2] = m.type /\ b[5][2] = m.endpoint
  /\ \A x \in 1 .. Len(cut) : b[5 + x] = cut[x]

\* C!rtmp_send makes that of a message.
LEMMA SentAs ==
  ASSUME C!ChunksAssumption, NEW m \in Message, NEW ch \in Channels, NEW l,
         NEW cut \in Seq(Cell), cut = C!Cut(ch, m.buf, l), NEW ts \in Nat, ts = m.timestamp % (EXT + 1)
  PROVE  IsSentAs(C!rtmp_send(ch, m, l), ch, m, ts, cut)
<1> PICK N \in Nat : N = Len(m.buf)
  BY LenProperties DEF Message
<1> PICK a : a = <<"flags", 0, ch>>
  OBVIOUS
<1> PICK b : b = <<"timestamp", ts>>
  OBVIOUS
<1> PICK c : c = <<"msg_len", N>>
  OBVIOUS
<1> PICK d : d = <<"msg_type", m.type>>
  OBVIOUS
<1> PICK e : e = <<"endpoint", m.endpoint>>
  OBVIOUS
<1>1. m.type \in {"media", "set chunk"} /\ m.endpoint \in Nat
  BY DEF Message
<1>2. a \in Cell /\ b \in Cell /\ c \in Cell /\ d \in Cell /\ e \in Cell
  <2> 0 \in 0 .. 3
    OBVIOUS
  <2> QED BY <1>1 DEF Cell
<1>3. a[1] = "flags" /\ b[2] = ts /\ c[2] = N /\ d[2] = m.type /\ e[2] = m.endpoint
  OBVIOUS
<1> PICK s : s = <<a, b, c, d, e>>
  OBVIOUS
<1>4. s \in Seq(Cell) /\ Len(s) = 5 /\ s[1] = a /\ s[2] = b /\ s[3] = c /\ s[4] = d /\ s[5] = e
  BY ONLY <1>2, s = <<a, b, c, d, e>>
<1>5. C!rtmp_send(ch, m, l) = s \o cut
  BY Zenon DEF C!rtmp_send
<1> PICK r : r = s \o cut
  OBVIOUS
<1>6. /\ r \in Seq(Cell) /\ Len(cut) \in Nat /\ Len(r) = Len(s) + Len(cut)
      /\ (\A at \in 1 .. Len(s) : r[at] = s[at]) /\ \A at \in 1 .. Len(cut) : r[Len(s) + at] = cut[at]
  <2>1. r = s \o cut /\ s \in Seq(Cell) /\ cut \in Seq(Cell)
    BY <1>4
  <2> QED BY ONLY <2>1, Joined
<1>7. r[1] = a /\ r[2] = b /\ r[3] = c /\ r[4] = d /\ r[5] = e
  <2> 1 \in 1 .. 5 /\ 2 \in 1 .. 5 /\ 3 \in 1 .. 5 /\ 4 \in 1 .. 5 /\ 5 \in 1 .. 5
    OBVIOUS
  <2> QED BY <1>4, <1>6, Zenon
<1>8. Len(r) = 5 + Len(cut) /\ Len(r) \in Nat
  BY ONLY <1>4, <1>6
<1>9. \A x \in 1 .. Len(cut) : r[5 + x] = cut[x]
  BY <1>4, <1>6, Zenon
<1>10. IsSentAs(r, ch, m, ts, cut)
  BY <1>3, <1>6, <1>7, <1>8, <1>9, Zenon DEF IsSentAs
<1> QED BY <1>5, <1>10, Zenon

\* The rounds of the loop.
RoundsOf(p, n, f) == C!Parse(p) = f[n] /\ f[0] = p /\ \A j \in 1 .. n : f[j] = C!Round(f[j - 1])

\* C!Parse makes as many rounds as the buffer has cells.
LEMMA ParseRounds ==
  ASSUME NEW p, NEW n \in Nat, n = Len(p.c.buf)
  PROVE  \E f : RoundsOf(p, n, f)
<1> DEFINE rounds == CHOOSE f : Rounds(p, n, f)
<1> PICK f : f = rounds
  OBVIOUS
<1>1. C!Parse(p) = f[n]
  BY Zenon DEF C!Parse, Rounds
<1>2. Rounds(p, n, f)
  BY RoundsAre, Zenon
<1>3. \A j \in 0 .. n : f[j] = IF j = 0 THEN p ELSE C!Round(f[j - 1])
  BY <1>2 DEF Rounds
<1>4. 0 \in 0 .. n /\ \A j \in 1 .. n : j \in 0 .. n /\ j # 0
  OBVIOUS
<1> QED BY <1>1, <1>3, <1>4, Zenon DEF RoundsOf

\* Induction over the rounds.
LEMMA RoundByRound ==
  ASSUME NEW n \in Nat, NEW G, 0 \in G, \A j \in 1 .. n : j - 1 \in G => j \in G
  PROVE  n \in G
<1> DEFINE I == {j \in 0 .. n : j \notin G}
<1>1. ASSUME I # {} PROVE FALSE
  <2>0. I \in SUBSET Nat
    OBVIOUS
  <2>1. Min(I) \in I /\ \A y \in I : Min(I) <= y
    <3> HIDE DEF I
    <3> QED BY <1>1, <2>0, Least
  <2> PICK m \in I : \A y \in I : m <= y
    BY <2>1
  <2>2. m # 0 /\ m \in 1 .. n
    OBVIOUS
  <2>3. m - 1 \in G
    <3> m - 1 \in 0 .. n /\ ~(m <= m - 1)
      BY <2>2
    <3> QED OBVIOUS
  <2> QED BY <2>2, <2>3
<1> QED BY <1>1

\* The server reads what it would send.
IsFresh(p, b, M, l) == p = Parsing(b, M, l, TRUE, <<>>)

Fresh == [ch \in Channels |-> C!RTMP_Message]

\* The messages of a peer that has not sent anything.
LEMMA FreshIs == Fresh \in [Channels -> Message]
<1> C!RTMP_Message \in Message
  BY DEF C!RTMP_Message, Message
<1> QED BY DEF Fresh

\* A time whose low bits ask for a longer one.
LEMMA LongIsClosed ==
  ASSUME C!ChunksAssumption, NEW m \in Message, m.type = "media", Len(m.buf) = m.len, m.len # 0,
         NEW ch \in Channels, NEW l \in Nat \ {0},
         NEW D \in Nat, NEW cut, cut \in Seq(Cell), Len(cut) = m.len + D, NEW b, IsSentAs(b, ch, m, EXT, cut)
  PROVE  ~C!Parse(Parsing(b, Fresh, l, TRUE, <<>>)).c.open
<1> PICK n \in Nat, N \in Nat \ {0} : n = Len(b) /\ N = m.len
  <2> m.len \in Nat
    BY DEF Message
  <2> QED BY DEF IsSentAs
<1>1. /\ b \in Seq(Cell) /\ n = 5 + Len(cut) /\ b[1] = <<"flags", 0, ch>> /\ b[2][2] = EXT /\ b[3][2] = N
      /\ b[4][2] = m.type /\ b[5][2] = m.endpoint
  BY Zenon DEF IsSentAs
<1>2. n = 5 + (N + D)
  BY <1>1, Zenon
<1> PICK T : T = Taken(Fresh[ch], b, 0)
  OBVIOUS
<1>3. T.len = N /\ T.buf = <<>> /\ T \in Message
  <2>1. Fresh[ch].buf = <<>> /\ Fresh[ch].timestamp = 0
    BY DEF Fresh, C!RTMP_Message
  <2>2. 0 <= 1
    OBVIOUS
  <2>3. T = [type |-> m.type, len |-> N, timestamp |-> 0, endpoint |-> m.endpoint, buf |-> <<>>]
    BY <1>1, <2>1, <2>2, Zenon DEF Taken
  <2>4. m.type \in {"media", "set chunk"} /\ m.endpoint \in Nat /\ <<>> \in Seq(Nat \X Nat) /\ 0 \in Nat
    BY EmptySeq DEF Message
  <2>5. T \in Message
    BY ONLY <2>3, <2>4, N \in Nat \ {0} DEF Message
  <2>6. T.len = N /\ T.buf = <<>>
    BY <2>3
  <2> QED BY <2>5, <2>6
<1> PICK q : q = C!Least(N, l)
  OBVIOUS
<1>4. q \in Nat /\ q <= N
  <2> q = IF N < l THEN N ELSE l
    BY Zenon DEF C!Least
  <2> QED OBVIOUS
<1>5. q = C!Least(T.len - Len(T.buf), l) /\ T.len >= Len(T.buf)
  <2>1. Len(<<>>) = 0 /\ N - 0 = N /\ N >= 0
    OBVIOUS
  <2> QED BY <1>3, <2>1, Zenon
<1>6. b # <<>> /\ Len(b) \in Nat /\ Len(b) >= C!HEADER_LENGTH[0] /\ 0 \in 0 .. 3 /\ C!HEADER_LENGTH[0] = 5
  <2>1. Len(b) # 0 /\ Len(b) >= 5
    BY ONLY <1>2, n = Len(b), D \in Nat, N \in Nat \ {0}
  <2>2. b # <<>>
    BY <2>1, EmptySeq
  <2>3. 0 \in 0 .. 3
    OBVIOUS
  <2> QED BY <2>1, <2>2, <2>3, HeaderLengths, Zenon
<1> PICK p : p = Parsing(b, Fresh, l, TRUE, <<>>)
  OBVIOUS
<1> PICK z : z = C!Round(p)
  OBVIOUS
<1> PICK R : R = [Fresh EXCEPT ![ch] = T]
  OBVIOUS
<1>7. z = Parsing(b, R, l, FALSE, <<>>)
  <2>1. RoundIs(b, Fresh, l, <<>>, 0, ch, T, q)
    BY <1>1, <1>3, <1>5, <1>6, FreshIs, RoundOf, Zenon
  <2>2. ~(Len(b) < C!HEADER_LENGTH[0] + q)
    <3>1. ~(n < 5 + q)
      BY ONLY <1>2, <1>4, D \in Nat, N \in Nat \ {0}
    <3> QED BY <1>6, <3>1, Zenon
  <2>3. 0 <= 2 /\ T.len # 0
    BY <1>3
  <2> QED BY <1>1, <2>1, <2>2, <2>3, Zenon DEF RoundIs, Rounded
<1>8. C!Round(z) = z
  <2>1. ~FALSE
    OBVIOUS
  <2>2. Stays(Parsing(b, R, l, FALSE, <<>>))
    BY <2>1, RoundEnds, Zenon
  <2> QED BY <1>7, <2>2, Zenon DEF Stays
<1>9. n = Len(p.c.buf)
  BY Zenon DEF Parsing, Client
<1> PICK f : RoundsOf(p, n, f)
  BY <1>9, ParseRounds, Zenon
<1>0. C!Parse(p) = f[n] /\ f[0] = p /\ \A j \in 1 .. n : f[j] = C!Round(f[j - 1])
  BY Zenon DEF RoundsOf
<1> DEFINE G == {j \in 0 .. n : j # 0 => f[j] = z}
<1>10. 0 \in G
  OBVIOUS
<1>11. ASSUME NEW j \in 1 .. n, j - 1 \in G PROVE j \in G
  <2>1. f[j] = C!Round(f[j - 1])
    BY <1>0, Zenon
  <2> j \in 0 .. n
    OBVIOUS
  <2> SUFFICES f[j] = z
    BY Zenon
  <2>2. CASE j - 1 = 0
    <3> f[j - 1] = p
      BY <1>0, <2>2, Zenon
    <3> QED BY <2>1, Zenon
  <2>3. CASE j - 1 # 0
    <3> f[j - 1] = z
      BY <1>11, <2>3
    <3> QED BY <1>8, <2>1, Zenon
  <2> QED BY <2>2, <2>3
<1>12. n \in G
  <2> HIDE DEF G
  <2> QED BY <1>10, <1>11, RoundByRound
<1>13. n # 0
  BY ONLY <1>2, D \in Nat, N \in Nat \ {0}
<1>14. C!Parse(p) = z
  <2> f[n] = z
    BY <1>12, <1>13
  <2> QED BY <1>0, Zenon
<1>15. z.c.open = FALSE
  BY <1>7 DEF Parsing, Client
<1> QED BY <1>14, <1>15, Zenon

\* Any other.
LEMMA ShortComes ==
  ASSUME C!ChunksAssumption, NEW n \in Nat, NEW m \in Message, m.type = "media", NEW N \in Nat \ {0}, m.len = N,
         m.buf = C!Bytes(n, 0, N), NEW ch \in Channels, NEW l \in Nat \ {0}, NEW ts \in Nat, ts < EXT,
         NEW D, D = (N - 1) \div l, NEW cut, IsCut(cut, n, N, l, D, ch), NEW b, IsSentAs(b, ch, m, ts, cut)
  PROVE  Came(C!Parse(Parsing(b, Fresh, l, TRUE, <<>>)), Resaid(m, ts), n, l)
<1> PICK s : s = Resaid(m, ts)
  OBVIOUS
<1>1. /\ s \in Said /\ s.kind.type = "media" /\ s.kind.len = N /\ s.kind.endpoint = m.endpoint
      /\ s.kind.timestamp = ts /\ ~s.drifted
  <2> PICK no \in BOOLEAN : no = FALSE
    OBVIOUS
  <2> PICK kd : kd = [type |-> "media", len |-> N, size |-> 1, endpoint |-> m.endpoint, timestamp |-> ts]
    OBVIOUS
  <2>1. kd \in Kind /\ kd.type = "media" /\ kd.len = N /\ kd.endpoint = m.endpoint /\ kd.timestamp = ts
    <3> m.endpoint \in Nat
      BY DEF Message
    <3> QED BY DEF Kind
  <2>2. s = [kind |-> kd, fmt |-> 0, delta |-> 0, drifted |-> no]
    BY Zenon DEF Resaid
  <2>3. s \in Said /\ s.kind = kd /\ s.drifted = no
    BY ONLY <2>1, <2>2, no \in BOOLEAN DEF Said
  <2> QED BY <2>1, <2>3
<1>2. /\ cut \in Seq(Cell) /\ Len(cut) = N + D
  BY Zenon DEF IsCut
<1>3. D \in Nat /\ 0 * l = 0
  <2>1. IsGaps(N, l, D)
    BY GapsAre, Zenon
  <2> QED BY <2>1, Zenon DEF IsGaps
<1>4. /\ b \in Seq(Cell) /\ Len(b) = 5 + Len(cut) /\ Len(b) \in Nat /\ b[1] = <<"flags", 0, ch>> /\ b[2][2] = ts
      /\ b[3][2] = Len(m.buf) /\ b[4][2] = m.type /\ b[5][2] = m.endpoint
      /\ \A x \in 1 .. Len(cut) : b[5 + x] = cut[x]
  BY Zenon DEF IsSentAs
<1>5. Len(m.buf) = N
  <2> PICK y : y = m.buf
    OBVIOUS
  <2> N \in Nat /\ y = C!Bytes(n, 0, N)
    OBVIOUS
  <2>1. Len(y) = N
    <3>1. AreFirst(C!Bytes(n, 0, N), n, N)
      BY FirstBytes, Zenon
    <3> QED BY ONLY <3>1, y = C!Bytes(n, 0, N), Zenon DEF AreFirst
  <2> QED BY <2>1, Zenon
<1> PICK p : p = Parsing(b, Fresh, l, TRUE, <<>>)
  OBVIOUS
<1>6. InFront(p, s, n, 0, l, D, cut, ch)
  <2> PICK k : k = TheNext(n, 0, l, ch)
    OBVIOUS
  <2>1. k.n = n /\ k.from = 0 /\ k.fmt = 0 /\ k.ch = ch
    BY <1>3, Zenon DEF TheNext
  <2> PICK ms : ms = [at \in {n} |-> s]
    OBVIOUS
  <2>2. IsDue(ms, 0, k, Fresh, b)
    <3>1. ms[k.n] = s
      BY <2>1
    <3>2. Fresh[k.ch] = C!RTMP_Message
      BY <2>1 DEF Fresh
    <3>3. ~IsLong(0, s)
      <4>1. EXT \in Nat
        BY DEF C!ChunksAssumption
      <4>2. ~(ts >= EXT)
        BY ONLY <4>1, ts \in Nat, ts < EXT
      <4> QED BY <1>1, <4>2, Zenon DEF IsLong
    <3> QED BY <1>1, <1>4, <1>5, <2>1, <3>1, <3>2, <3>3, DueFull, Zenon
  <2>3. C!HEADER_LENGTH[k.fmt] = 5
    BY <2>1, HeaderLengths, Zenon
  <2>4. (0 * l) + 0 = 0 /\ 0 \in 0 .. D
    BY ONLY <1>3
  <2>5. Len(b) = 5 + (Len(cut) - 0) /\ \A x \in 1 .. Len(cut) - 0 : b[5 + x] = cut[0 + x]
    <3> Len(cut) \in Nat
      BY <1>2, <1>3
    <3>1. Len(cut) - 0 = Len(cut) /\ \A x \in 1 .. Len(cut) : 0 + x = x
      OBVIOUS
    <3> QED BY <1>4, <3>1, Zenon
  <2> QED BY <1>4, <2>1, <2>2, <2>3, <2>4, <2>5, FreshIs, Zenon DEF InFront
<1> PICK w \in Nat : w = Len(b)
  BY <1>4
<1>7. w = Len(p.c.buf)
  BY Zenon DEF Parsing, Client
<1> PICK f : RoundsOf(p, w, f)
  BY <1>7, ParseRounds, Zenon
<1>0. C!Parse(p) = f[w] /\ f[0] = p /\ \A j \in 1 .. w : f[j] = C!Round(f[j - 1])
  BY Zenon DEF RoundsOf
<1> DEFINE Open(j) == InFront(f[j], s, n, j, l, D, cut, ch)
           Over(j) == Came(f[j], s, n, l)
           G == {j \in 0 .. w : Open(j) \/ Over(j)}
<1>8. 0 \in G
  <2>1. Open(0)
    BY <1>0, <1>6, Zenon
  <2>2. 0 \in 0 .. w
    OBVIOUS
  <2> QED BY <2>1, <2>2, Zenon
<1>9. ASSUME NEW j \in 1 .. w, j - 1 \in G PROVE j \in G
  <2> PICK i1 \in Nat : i1 = j - 1 /\ j = i1 + 1
    <3> j - 1 \in Nat /\ j = (j - 1) + 1
      OBVIOUS
    <3> QED OBVIOUS
  <2> PICK y : y = f[i1]
    OBVIOUS
  <2>1. f[j] = C!Round(y) /\ j \in 0 .. w
    <3> j \in 0 .. w
      OBVIOUS
    <3> QED BY <1>0, Zenon
  <2>2. InFront(y, s, n, i1, l, D, cut, ch) \/ Came(y, s, n, l)
    BY <1>9, Zenon
  <2>3. CASE InFront(y, s, n, i1, l, D, cut, ch)
    <3>1. s.kind.timestamp < EXT /\ N = s.kind.len
      BY <1>1, Zenon
    <3>2. InFront(C!Round(y), s, n, i1 + 1, l, D, cut, ch) \/ Came(C!Round(y), s, n, l)
      BY <1>1, <2>3, <3>1, ChunkRead, Zenon
    <3> QED BY <2>1, <3>2, Zenon
  <2>4. CASE Came(y, s, n, l)
    <3>1. C!Round(y) = y
      <4> PICK R, x : y = Parsing(<<>>, R, l, TRUE, <<x>>)
        BY <2>4, Zenon DEF Came
      <4>1. Stays(Parsing(<<>>, R, l, TRUE, <<x>>))
        BY RoundEnds, Zenon
      <4> QED BY <4>1, Zenon DEF Stays
    <3> QED BY <2>1, <2>4, <3>1, Zenon
  <2> QED BY <2>2, <2>3, <2>4
<1> HIDE DEF Open, Over
<1>10. w \in G
  <2> HIDE DEF G
  <2> QED BY <1>8, <1>9, RoundByRound
<1>11. ~Open(w)
  <2> SUFFICES ASSUME InFront(f[w], s, n, w, l, D, cut, ch) PROVE FALSE
    BY DEF Open
  <2>1. w \in 0 .. D
    BY Zenon DEF InFront
  <2> QED BY ONLY <1>2, <1>3, <1>4, <2>1, w = Len(b), N \in Nat \ {0}
<1>12. Came(C!Parse(p), s, n, l)
  BY <1>0, <1>10, <1>11, Zenon DEF Over
<1> QED BY <1>12, Zenon

\* What has come of a message that was sent.
IsBack(p, m, ts) == p.c.open = TRUE /\ p.c.buf = <<>> /\ p.handled = <<[m EXCEPT !.timestamp = ts]>>

\* It is the message that was sent.
LEMMA CameAs ==
  ASSUME NEW m \in Message, NEW ts, NEW n, NEW l, NEW p, Came(p, Resaid(m, ts), n, l),
         m.type = "media", m.buf = C!Bytes(n, 0, m.len)
  PROVE  IsBack(p, m, ts)
<1> PICK R, x : /\ p = Parsing(<<>>, R, l, TRUE, <<x>>) /\ x \in Message /\ x.type = "media"
                /\ x.len = Resaid(m, ts).kind.len /\ x.endpoint = Resaid(m, ts).kind.endpoint
                /\ x.timestamp = Resaid(m, ts).kind.timestamp
                /\ x.buf = C!Bytes(n, 0, Resaid(m, ts).kind.len)
  BY Zenon DEF Came
<1>1. x.len = m.len /\ x.endpoint = m.endpoint /\ x.timestamp = ts /\ x.buf = m.buf
  <2>1. /\ Resaid(m, ts).kind.len = m.len /\ Resaid(m, ts).kind.endpoint = m.endpoint
        /\ Resaid(m, ts).kind.timestamp = ts
    BY DEF Resaid
  <2> QED BY <2>1, Zenon
<1>2. x = [type |-> x.type, len |-> x.len, timestamp |-> x.timestamp, endpoint |-> x.endpoint, buf |-> x.buf]
  BY DEF Message
<1>3. [m EXCEPT !.timestamp = ts]
        = [type |-> m.type, len |-> m.len, timestamp |-> ts, endpoint |-> m.endpoint, buf |-> m.buf]
  <2> PICK t, k, v, e, b : m = [type |-> t, len |-> k, timestamp |-> v, endpoint |-> e, buf |-> b]
    BY Messages, Zenon DEF IsMessage
  <2>1. m = [type |-> t, len |-> k, timestamp |-> v, endpoint |-> e, buf |-> b]
    OBVIOUS
  <2>2. [m EXCEPT !.timestamp = ts] = [type |-> t, len |-> k, timestamp |-> ts, endpoint |-> e, buf |-> b]
    BY ONLY <2>1
  <2>3. m.type = t /\ m.len = k /\ m.endpoint = e /\ m.buf = b
    BY ONLY <2>1
  <2> QED BY <2>2, <2>3, Zenon
<1>4. x = [m EXCEPT !.timestamp = ts]
  BY <1>1, <1>2, <1>3, Zenon
<1>5. p.c.open = TRUE /\ p.c.buf = <<>> /\ p.handled = <<x>>
  BY DEF Parsing, Client
<1> QED BY <1>4, <1>5, Zenon DEF IsBack

\* What the server would send of a message that was handled.
ComesBack(p, m) ==
  IF m.timestamp % (EXT + 1) = EXT THEN ~p.c.open
  ELSE p.c.open /\ p.c.buf = <<>> /\ p.handled = <<[m EXCEPT !.timestamp = m.timestamp % (EXT + 1)]>>

\* What rtmp_send makes of a media message is read as that message, or refused for its time.
LEMMA SendsReadably ==
  ASSUME C!ChunksAssumption, NEW n \in Nat, NEW m \in Message, m.type = "media", m.len # 0,
         m.buf = C!Bytes(n, 0, m.len), NEW ch \in Channels, NEW l \in Nat \ {0},
         NEW p, p = C!Parse(Parsing(C!rtmp_send(ch, m, l), Fresh, l, TRUE, <<>>))
  PROVE  ComesBack(p, m)
<1> PICK N \in Nat \ {0} : N = m.len
  BY DEF Message
<1>1. m.buf = C!Bytes(n, 0, N)
  BY Zenon
<1> PICK buf : buf = m.buf
  OBVIOUS
<1>2. Len(buf) = N
  <2> N \in Nat /\ buf = C!Bytes(n, 0, N)
    BY <1>1
  <2>1. AreFirst(C!Bytes(n, 0, N), n, N)
    BY FirstBytes, Zenon
  <2> QED BY ONLY <2>1, buf = C!Bytes(n, 0, N), Zenon DEF AreFirst
<1> PICK D : D = (N - 1) \div l
  OBVIOUS
<1>3. D \in Nat
  <2>1. IsGaps(N, l, D)
    BY GapsAre, Zenon
  <2> QED BY <2>1, Zenon DEF IsGaps
<1> PICK cut : cut = C!Cut(ch, buf, l)
  OBVIOUS
<1>4. IsCut(cut, n, N, l, D, ch)
  BY <1>1, CutIs, Zenon
<1>5. cut \in Seq(Cell) /\ Len(cut) = N + D
  BY <1>4, Zenon DEF IsCut
<1> PICK ts : ts = m.timestamp % (EXT + 1)
  OBVIOUS
<1>6. ts \in Nat /\ (ts # EXT => ts < EXT)
  <2> PICK t \in Nat : t = m.timestamp
    BY DEF Message
  <2> PICK E \in Nat : E = EXT
    BY DEF C!ChunksAssumption
  <2>1. ts = t % (E + 1)
    OBVIOUS
  <2>2. ts \in 0 .. E
    BY ONLY <2>1, t \in Nat, E \in Nat
  <2>3. ts \in Nat /\ (ts # E => ts < E)
    BY ONLY <2>2, E \in Nat
  <2> QED BY <2>3, Zenon
<1> PICK b : b = C!rtmp_send(ch, m, l)
  OBVIOUS
<1>7. IsSentAs(b, ch, m, ts, cut)
  BY <1>5, <1>6, SentAs, Zenon
<1>8. CASE ts = EXT
  <2>1. IsSentAs(b, ch, m, EXT, cut) /\ Len(m.buf) = m.len /\ Len(cut) = m.len + D
    BY <1>2, <1>5, <1>7, <1>8, Zenon
  <2>2. ~C!Parse(Parsing(b, Fresh, l, TRUE, <<>>)).c.open
    BY <1>3, <1>5, <2>1, LongIsClosed, Zenon
  <2> QED BY <1>8, <2>2, Zenon DEF ComesBack
<1>9. CASE ts # EXT
  <2>1. Came(C!Parse(Parsing(b, Fresh, l, TRUE, <<>>)), Resaid(m, ts), n, l)
    BY <1>1, <1>4, <1>6, <1>7, <1>9, ShortComes, Zenon
  <2>2. Came(p, Resaid(m, ts), n, l)
    BY <2>1, Zenon
  <2>3. p.c.open = TRUE /\ p.c.buf = <<>> /\ p.handled = <<[m EXCEPT !.timestamp = ts]>>
    <3> IsBack(p, m, ts)
      BY <1>1, <2>2, CameAs, Zenon
    <3> QED BY Zenon DEF IsBack
  <2> QED BY <1>9, <2>3, Zenon DEF ComesBack
<1> QED BY <1>8, <1>9

\* What was handled and is forwarded.
LEMMA HandledReadable == ASSUME C!ChunksAssumption, ChunkInv PROVE C!SentIsReadable
<1> PICK ms, sp, w, h : ms = said /\ sp = spoken /\ w = wire /\ h = handled
  OBVIOUS
<1> PICK log, cs : ServerAt(ms, sp, w, parsed, h, log, cs)
  BY Zenon DEF ChunkInv, InvOf
<1> PICK b \in Seq(Cell), l \in Nat \ {0}, o \in BOOLEAN : \E xs :
      parsed = Client(b, xs, l, o) /\ Delivered(ms, sp, h)
  BY Zenon DEF ServerAt
<1> PICK xs : parsed = Client(b, xs, l, o) /\ Delivered(ms, sp, h)
  OBVIOUS
<1> SUFFICES ASSUME NEW j \in 1 .. Len(handled), NEW ch \in Channels, handled[j].type = "media"
             PROVE  LET m     == handled[j]
                        fresh == [c |-> [parsed EXCEPT !.messages = [x \in Channels |-> C!RTMP_Message], !.open = TRUE,
                                                       !.buf = C!rtmp_send(ch, m, parsed.chunk_len)],
                                  handled |-> <<>>]
                        got1  == C!Parse(fresh)
                    IN  IF m.timestamp % (EXT + 1) = EXT THEN ~got1.c.open
                        ELSE /\ got1.c.open /\ got1.c.buf = <<>>
                             /\ got1.handled = <<[m EXCEPT !.timestamp = @ % (EXT + 1)]>>
  BY Zenon DEF C!SentIsReadable
<1> PICK m \in Message : m = handled[j]
  BY ElementOfSeq DEF Delivered
<1> PICK n : n = sp[j]
  OBVIOUS
<1>1. Whole(ms, m, n)
  BY Zenon DEF Delivered
<1>2. m.len # 0 /\ n \in Nat /\ m.buf = C!Bytes(n, 0, m.len)
  <2>1. n \in 1 .. Len(ms) /\ ms[n].kind.len > 0 /\ m.len = ms[n].kind.len /\ m.buf = C!Bytes(n, 0, ms[n].kind.len)
    BY <1>1, Zenon DEF Whole
  <2>2. m.len \in Nat
    BY DEF Message
  <2>3. m.len > 0
    BY <2>1, Zenon
  <2>4. m.len # 0
    BY ONLY <2>2, <2>3
  <2>5. n \in Nat
    BY ONLY <2>1
  <2> QED BY <2>1, <2>4, <2>5, Zenon
<1> PICK s : s = C!rtmp_send(ch, m, l)
  OBVIOUS
<1>3. [parsed EXCEPT !.messages = [x \in Channels |-> C!RTMP_Message], !.open = TRUE,
                     !.buf = C!rtmp_send(ch, m, parsed.chunk_len)] = Client(s, Fresh, l, TRUE)
  <2> PICK F : F = Fresh
    OBVIOUS
  <2> PICK yes \in BOOLEAN : yes = TRUE
    OBVIOUS
  <2>1. parsed.chunk_len = l
    BY DEF Client
  <2>2. [Client(b, xs, l, o) EXCEPT !.messages = F] = Client(b, F, l, o)
    BY ONLY o \in BOOLEAN DEF Client
  <2>3. [Client(b, F, l, o) EXCEPT !.open = yes] = Client(b, F, l, yes)
    BY ONLY o \in BOOLEAN, yes \in BOOLEAN DEF Client
  <2>4. [Client(b, F, l, yes) EXCEPT !.buf = s] = Client(s, F, l, yes)
    BY ONLY yes \in BOOLEAN DEF Client
  <2>5. [parsed EXCEPT !.messages = F, !.open = yes, !.buf = s]
          = [[[parsed EXCEPT !.messages = F] EXCEPT !.open = yes] EXCEPT !.buf = s]
    OBVIOUS
  <2>6. [parsed EXCEPT !.messages = F, !.open = yes, !.buf = s] = Client(s, F, l, yes)
    BY <2>2, <2>3, <2>4, <2>5, Zenon
  <2> QED BY <2>1, <2>6, Zenon DEF Fresh
<1> PICK p : p = C!Parse(Parsing(C!rtmp_send(ch, m, l), Fresh, l, TRUE, <<>>))
  OBVIOUS
<1>4. IF m.timestamp % (EXT + 1) = EXT THEN ~p.c.open
      ELSE p.c.open /\ p.c.buf = <<>> /\ p.handled = <<[m EXCEPT !.timestamp = m.timestamp % (EXT + 1)]>>
  <2>1. ComesBack(p, m)
    BY <1>2, SendsReadably, Zenon
  <2> QED BY <2>1, Zenon DEF ComesBack
<1> QED BY <1>3, <1>4, Zenon DEF Parsing

\* Nothing moves.
LEMMA ChunksStutter == ASSUME ChunkInv, UNCHANGED chunkVars PROVE ChunkInv'
  BY Zenon DEF ChunkInv, chunkVars

\* Every step of the peer and of the server.
LEMMA ChunksStep == ASSUME C!ChunksAssumption, ChunkInv, C!Next PROVE ChunkInv'
<1>1. ASSUME NEW ch \in Channels, C!Begin(ch) PROVE ChunkInv'
  BY <1>1, BeginKeeps, Zenon
<1>2. ASSUME NEW ch \in Channels, C!Continue(ch) PROVE ChunkInv'
  BY <1>2, ContinueKeeps, Zenon
<1>3. CASE C!recv_from_client
  BY <1>3, RecvFromKeeps, Zenon
<1> QED BY <1>1, <1>2, <1>3, Zenon DEF C!Next

\* The messages of every peer are put together again, in whatever portions their bytes
\* come and however its channels are mixed, and what the server forwards of them can be
\* read.
THEOREM ChunksComeTogether == C!ChunksAssumption => (PartsSpec => []ChunksCarry)
<1> SUFFICES ASSUME C!ChunksAssumption PROVE PartsSpec => []ChunksCarry
  OBVIOUS
<1>1. PartsInit => ChunkInv
  BY ChunksBegin, Zenon DEF PartsInit
<1>2. ChunkInv /\ [RunLoop \/ RunChunks]_serverVars => ChunkInv'
  <2> SUFFICES ASSUME ChunkInv, [RunLoop \/ RunChunks]_serverVars PROVE ChunkInv'
    OBVIOUS
  <2>1. CASE RunLoop
    <3> UNCHANGED chunkVars
      BY <2>1, Zenon DEF RunLoop, chunkVars
    <3> QED BY ChunksStutter, Zenon
  <2>2. CASE RunChunks
    BY <2>2, ChunksStep, Zenon DEF RunChunks
  <2>3. CASE UNCHANGED serverVars
    <3> UNCHANGED chunkVars
      BY <2>3, Zenon DEF serverVars, chunkVars
    <3> QED BY ChunksStutter, Zenon
  <2> QED BY <2>1, <2>2, <2>3
<1>3. ChunkInv => ChunksCarry
  BY Assembled, HandledReadable, Zenon DEF ChunksCarry
<1> QED BY <1>1, <1>2, <1>3, PTL DEF PartsSpec
=============================================================================
