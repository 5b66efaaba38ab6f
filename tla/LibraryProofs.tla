---------------------------- MODULE LibraryProofs ----------------------------
(***************************************************************************)
(* Theorems about lzUtils: the servers of ut_socket.c, for every table and *)
(* every number of events in a round; the byte rings; the growing buffer;  *)
(* the voice detector; the command pipe; and all of them in the library.   *)
(***************************************************************************)
EXTENDS Library, EventServers, ListLemmas, TLAPS

\* The servers of EventServers.
SockStates == {"none", "idle", "data", "last", "cut", "fin", "rst", "hup"}

ServerTypes ==
  /\ kind \in Kinds /\ open \subseteq Fds
  /\ sock \in [Fds -> SockStates]
  /\ watch \in [Fds -> {"no", "in", "out"}] /\ conn_a \in [Fds -> Fds \cup {NoFd}]
  /\ pos \in Nat \ {0}
  /\ kind.how = "client" => pc = "start"
  /\ pc \in {"start", "exited"} => batch = {}
  /\ pc = "start" => watch = [f \in Fds |-> "no"] /\ conn_a = [i \in Fds |-> NoFd]

\* An epoll server's round has one event per descriptor, and what it says still holds.
Reported ==
  Epoll =>
    /\ pc \notin {"accept", "scan"}
    /\ \A e \in batch : \/ e.fd = LISTENER
                        \/ e.fd \in open /\ (e.ev = {"IN"} => sock[e.fd] # "idle")
    /\ \A d, e \in batch : d.fd = e.fd => d = e

\* The table of a select server names open descriptors, each once, and those of this round
\* that the loop has not reached can be read.
Watched ==
  kind.how = "select" /\ ~UnSelect =>
    /\ batch \subseteq Fds \cup {LISTENER}
    /\ \A f \in Fds : watch[f] = "in" => f \in open
    /\ \A i \in Fds : conn_a[i] # NoFd => conn_a[i] \in open
    /\ \A i, j \in Fds : conn_a[i] = conn_a[j] /\ conn_a[i] # NoFd => i = j
    /\ pc = "accept" => Tcp /\ \A f \in batch \ {LISTENER} : f \in open /\ sock[f] # "idle"
    /\ pc = "scan" => \A i \in Hits : sock[conn_a[i]] # "idle"

ServerInv == ServerTypes /\ Reported /\ Watched

\* The kinds of servers take the steps of their kind only.
LEMMA KindsOfSteps ==
  ASSUME Next
  PROVE  /\ kind' = kind
         /\ \/ kind.how # "client" /\ (StartFails \/ StartTcp \/ StartUdp)
            \/ kind.how = "epoll" /\ EpollLoop
            \/ kind.how = "select" /\ SelectLoop
            \/ Connect \/ CliCreate \/ \E f \in Fds : PeerActs(f)
<1>1. \/ kind.how = "epoll" /\ (StartFails \/ StartTcp \/ StartUdp \/ EpollLoop)
      \/ kind.how = "select" /\ (StartFails \/ StartTcp \/ StartUdp \/ SelectLoop)
      \/ Connect \/ CliCreate \/ \E f \in Fds : PeerActs(f)
  BY DEF Next, in_epoll_tcp_server, un_epoll_tcp_server, in_epoll_udp_server,
         un_epoll_udp_server, in_select_tcp_server, un_select_tcp_server,
         in_select_udp_server, un_select_udp_server, Runs
<1>2. kind' = kind
  BY <1>1 DEF StartFails, StartTcp, StartUdp, Start, EpollLoop, EpollWait, EpollEvent,
              Take, SelectLoop, SelectWait, SelectAccept, SelectEntry, SelectEnd,
              Connect, CliCreate, PeerActs
<1> QED BY <1>1, <1>2

LEMMA ServerStarts ==
  ASSUME MaxFd \in Nat \ {0}, ServerInv, kind' = kind, kind.how # "client",
         StartFails \/ StartTcp \/ StartUdp
  PROVE  ServerInv'
<1>1. pc = "start" /\ pc' \in {"exited", "wait"} /\ batch = {} /\ batch' = {} /\ pos' = pos
  BY DEF StartFails, StartTcp, StartUdp, Start, ServerInv, ServerTypes, SockStates
<1>2. CASE open' \in {open, {}, {1}} /\ UNCHANGED <<sock, watch, conn_a>>
  <2>1. open' \subseteq Fds
    BY <1>2 DEF Fds, ServerInv, ServerTypes, SockStates
  <2>3. ServerTypes' /\ Reported'
    BY <1>1, <1>2, <2>1 DEF ServerInv, ServerTypes, SockStates, Reported, Epoll
  <2>2. Watched'
    BY <1>1, <1>2 DEF ServerInv, ServerTypes, SockStates, Watched, UnSelect, Runs
  <2> QED BY <2>2, <2>3 DEF ServerInv
<1>3. CASE StartUdp
  <2>1. /\ open' = Fds /\ sock' = [f \in Fds |-> "idle"]
        /\ watch' = [f \in Fds |-> "in"] /\ conn_a' = [i \in Fds |-> i]
    BY <1>3 DEF StartUdp
  <2>2. ServerTypes' /\ Reported'
    BY <1>1, <2>1 DEF ServerInv, ServerTypes, SockStates, Reported, Epoll
  <2>3. Watched'
    BY <1>1, <2>1 DEF Watched, UnSelect, Runs
  <2> QED BY <2>2, <2>3 DEF ServerInv
<1> QED BY <1>2, <1>3 DEF StartFails, StartTcp

\* What the loop over the table is about to look at.
LEMMA HitsOpen ==
  ASSUME MaxFd \in Nat, ServerInv, kind.how = "select" /\ ~UnSelect
  PROVE  \A i \in Hits : /\ i \in Fds /\ conn_a[i] \in Fds /\ conn_a[i] \in open
                         /\ conn_a[i] # NoFd /\ i \in Nat /\ i >= pos
<1> SUFFICES ASSUME NEW i \in Hits
             PROVE  /\ i \in Fds /\ conn_a[i] \in Fds /\ conn_a[i] \in open
                    /\ conn_a[i] # NoFd /\ i \in Nat /\ i >= pos
  OBVIOUS
<1>1. i \in pos .. MaxFd /\ conn_a[i] \in batch \ {LISTENER} /\ pos \in Nat \ {0}
  BY DEF Hits, ServerInv, ServerTypes, SockStates
<1>2. i \in Fds /\ i \in Nat /\ i >= pos
  BY <1>1 DEF Fds
<1>3. conn_a[i] \in Fds
  BY <1>1 DEF ServerInv, Watched
<1>4. conn_a[i] # NoFd
  BY <1>3 DEF Fds, NoFd
<1> QED BY <1>2, <1>3, <1>4 DEF ServerInv, Watched

\* Whatever peers and clients do, nothing to read does not become of something.
LEMMA PeersHarmless ==
  ASSUME MaxFd \in Nat, ServerInv, kind' = kind, Connect \/ CliCreate \/ \E f \in Fds : PeerActs(f)
  PROVE  ServerInv'
<1>1. UNCHANGED <<pc, open, watch, conn_a, batch, pos>>
  BY DEF Connect, CliCreate, PeerActs
<1>2. /\ sock' \in [Fds -> SockStates]
      /\ \A f \in Fds : sock[f] # "idle" => sock'[f] # "idle"
  <2>1. CASE UNCHANGED sock
    BY <2>1 DEF ServerInv, ServerTypes, SockStates
  <2>2. ASSUME NEW f \in Fds, PeerActs(f)
        PROVE  /\ sock' \in [Fds -> SockStates]
               /\ \A g \in Fds : sock[g] # "idle" => sock'[g] # "idle"
    <3>1. \E s \in {"data", "fin", "last", "rst", "cut"} : sock' = [sock EXCEPT ![f] = s]
      BY <2>2 DEF PeerActs
    <3> QED BY <3>1 DEF ServerInv, ServerTypes, SockStates
  <2> QED BY <2>1, <2>2 DEF Connect, CliCreate
<1>3. ServerTypes'
  BY <1>1, <1>2 DEF ServerInv, ServerTypes, SockStates
<1>4. Reported'
  BY <1>1, <1>2 DEF ServerInv, ServerTypes, SockStates, Reported, Epoll
<1>5. Watched'
  <2>1. Hits' = Hits /\ (Tcp' <=> Tcp) /\ (UnSelect' <=> UnSelect)
    BY <1>1 DEF Hits, Tcp, UnSelect, Runs
  <2>2. CASE kind.how = "select" /\ ~UnSelect
    <3>1. \A i \in Hits : conn_a[i] \in Fds
      BY <2>2, HitsOpen
    <3>2. pc = "scan" => \A i \in Hits : sock[conn_a[i]] # "idle"
      BY <2>2 DEF ServerInv, Watched
    <3>3. pc = "scan" => \A i \in Hits : sock'[conn_a[i]] # "idle"
      BY <1>2, <3>1, <3>2
    <3>4. pc = "accept" => \A f \in batch \ {LISTENER} : f \in open /\ sock'[f] # "idle"
      BY <1>2, <2>2 DEF ServerInv, ServerTypes, SockStates, Watched
    <3> QED BY <1>1, <2>1, <2>2, <3>3, <3>4 DEF ServerInv, Watched
  <2>3. CASE ~(kind.how = "select" /\ ~UnSelect)
    BY <2>1, <2>3 DEF Watched
  <2> QED BY <2>2, <2>3
<1> QED BY <1>3, <1>4, <1>5 DEF ServerInv

\* The numbers of descriptors are numbers, and the kernel gives out a free one.
LEMMA SomeFree ==
  ASSUME MaxFd \in Nat, NEW I \in SUBSET Fds, I # {}
  PROVE  Min(I) \in I /\ \A y \in I : Min(I) <= y
<1>1. I \in SUBSET Nat
  BY DEF Fds
<1>2. Min(I) \in I /\ \A y \in I : Min(I) <= y
  BY <1>1, Least
<1> QED BY <1>2 DEF Min, Min

LEMMA EpollWaits == ASSUME ServerInv, kind' = kind, EpollWait PROVE ServerInv'
<1> DEFINE Ready == {[fd |-> f, ev |-> Events(f)] : f \in {g \in open : Events(g) # {}}}
                    \cup (IF pending > 0 THEN {[fd |-> LISTENER, ev |-> {"IN"}]} ELSE {})
<1>1. /\ Epoll /\ pc = "wait" /\ pc' = "run"
      /\ UNCHANGED <<open, sock, watch, conn_a, pos>> /\ batch' \subseteq Ready
  BY DEF EpollWait, kSubset
<1>2. \A e \in Ready : \/ e.fd = LISTENER
                       \/ e.fd \in open /\ e.ev = Events(e.fd)
  OBVIOUS
<1>3. \A d, e \in Ready : d.fd = e.fd => d = e
  <2>1. LISTENER \notin open
    BY DEF ServerInv, ServerTypes, SockStates, Fds, LISTENER
  <2>2. \A e \in Ready : \/ e.fd \in open /\ e = [fd |-> e.fd, ev |-> Events(e.fd)]
                         \/ e = [fd |-> LISTENER, ev |-> {"IN"}]
    OBVIOUS
  <2> HIDE DEF Ready
  <2> QED BY <2>1, <2>2
<1> HIDE DEF Ready
<1>4. \A f : Events(f) = {"IN"} => sock[f] # "idle"
  BY DEF Events
<1>5. ServerTypes'
  BY <1>1 DEF ServerInv, ServerTypes, SockStates, Epoll
<1>6. Reported'
  BY <1>1, <1>2, <1>3, <1>4 DEF Reported
<1>7. Watched'
  BY <1>1 DEF Watched, Epoll
<1> QED BY <1>5, <1>6, <1>7 DEF ServerInv

\* What a callback does to the descriptor it is called with, if that is open: nothing to
\* another one, and it closes it only when it returns 1.
LEMMA CallbackOwn ==
  ASSUME ServerInv, NEW f \in open, NEW n, Reads(f, n) \/ Writes(f, n)
  PROVE  /\ open' = open \/ (open' = open \ {f} /\ n = 1)
         /\ sock' \in [Fds -> SockStates]
         /\ \A g \in Fds : g # f => sock'[g] = sock[g]
<1>1. \/ UNCHANGED sock
      \/ \E s \in {"idle", "fin", "rst", "hup", "none"} : sock' = [sock EXCEPT ![f] = s]
  <2>1. CASE Reads(f, n)
    BY <2>1 DEF Reads, Gone, LeftOver
  <2>2. CASE Writes(f, n)
    <3>1. CASE Broken(f) /\ sock' = [sock EXCEPT ![f] = IF @ = "rst" THEN "hup" ELSE @]
      <4>1. CASE sock[f] = "rst"
        BY <3>1, <4>1 DEF ServerInv, ServerTypes
      <4>2. CASE sock[f] # "rst"
        <5>1. sock' = [sock EXCEPT ![f] = sock[f]]
          BY <3>1, <4>2
        <5> QED BY <5>1 DEF ServerInv, ServerTypes
      <4> QED BY <4>1, <4>2
    <3> QED BY <2>2, <3>1 DEF Writes, Gone
  <2> QED BY <2>1, <2>2
<1>2. open' = open \/ (open' = open \ {f} /\ n = 1)
  BY DEF Reads, Writes, Gone
<1> QED BY <1>1, <1>2 DEF ServerInv, ServerTypes, SockStates

LEMMA EpollServes ==
  ASSUME MaxFd \in Nat, ServerInv, kind' = kind, kind.how = "epoll", EpollEvent
  PROVE  ServerInv'
<1>1. PICK e \in batch : (EpollAccept(e) \/ EpollIo(e)) /\ Take(e)
  BY DEF EpollEvent
<1>2. /\ pc = "run" /\ pc' \in {"wait", "run"} /\ batch' = batch \ {e} /\ UNCHANGED <<conn_a, pos>>
      /\ Epoll /\ ~(kind.how = "select") /\ kind.how # "client" /\ (Epoll' <=> Epoll)
  BY <1>1 DEF EpollEvent, Take, Epoll
<1>3. /\ \A d \in batch : \/ d.fd = LISTENER
                          \/ d.fd \in open /\ (d.ev = {"IN"} => sock[d.fd] # "idle")
      /\ \A c, d \in batch : c.fd = d.fd => c = d
      /\ open \subseteq Fds
  BY <1>2 DEF ServerInv, Reported, ServerTypes
<1>4. /\ open' \subseteq Fds
      /\ sock' \in [Fds -> SockStates]
      /\ watch' \in [Fds -> {"no", "in", "out"}]
      /\ \A d \in batch' : \/ d.fd = LISTENER
                           \/ d.fd \in open' /\ sock'[d.fd] = sock[d.fd]
  <2>1. CASE EpollAccept(e)
    <3>1. CASE UNCHANGED <<pending, open, sock, watch>>
      BY <1>2, <1>3, <3>1 DEF ServerInv, ServerTypes, SockStates
    <3>2. CASE Free # {} /\ ~UNCHANGED <<pending, open, sock, watch>>
      <4> DEFINE c == Min(Free)
      <4>1. c \in Fds /\ c \notin open
        BY <3>2, SomeFree DEF Free
      <4>2. open' = open \cup {c} /\ sock' = [sock EXCEPT ![c] = "idle"] /\ watch' = [watch EXCEPT ![c] = "in"]
        BY <2>1, <3>2 DEF EpollAccept
      <4> HIDE DEF c
      <4> QED BY <1>2, <1>3, <4>1, <4>2 DEF ServerInv, ServerTypes, SockStates
    <3> QED BY <2>1, <3>1, <3>2 DEF EpollAccept
  <2>2. CASE EpollIo(e)
    <3>1. e.fd \in open /\ e.fd \in Fds
      BY <1>3, <2>2 DEF EpollIo
    <3>2. /\ \/ UNCHANGED <<open, sock, watch>>
             \/ \E n \in {-1, 0, 1} : Reads(e.fd, n) \/ Writes(e.fd, n)
          /\ \/ UNCHANGED watch
             \/ \E m \in {"no", "in", "out", watch[e.fd]} : watch' = [watch EXCEPT ![e.fd] = m]
      BY <2>2 DEF EpollIo
    <3>3. watch' \in [Fds -> {"no", "in", "out"}]
      BY <3>1, <3>2 DEF ServerInv, ServerTypes, SockStates
    <3>4. /\ open' = open \/ open' = open \ {e.fd}
          /\ sock' \in [Fds -> SockStates]
          /\ \A g \in Fds : g # e.fd => sock'[g] = sock[g]
      <4>1. CASE UNCHANGED <<open, sock, watch>>
        BY <4>1 DEF ServerInv, ServerTypes, SockStates
      <4>2. CASE \E n \in {-1, 0, 1} : Reads(e.fd, n) \/ Writes(e.fd, n)
        BY <3>1, <4>2, CallbackOwn
      <4> QED BY <3>2, <4>1, <4>2
    <3>5. \A d \in batch' : d.fd # e.fd
      BY <1>2, <1>3
    <3> QED BY <1>2, <1>3, <3>3, <3>4, <3>5
  <2> QED BY <1>1, <2>1, <2>2
<1>5. ServerTypes'
  BY <1>2, <1>4 DEF ServerInv, ServerTypes, SockStates
<1>6. Reported'
  BY <1>2, <1>3, <1>4 DEF Reported
<1>7. Watched'
  BY <1>2 DEF Watched
<1> QED BY <1>5, <1>6, <1>7 DEF ServerInv

LEMMA SelectWaits ==
  ASSUME MaxFd \in Nat, ServerInv, kind' = kind, kind.how = "select", SelectWait
  PROVE  ServerInv'
<1>1. /\ batch' = {f \in Fds : watch[f] = "in" /\ sock[f] # "idle"}
                  \cup (IF pending > 0 THEN {LISTENER} ELSE {})
      /\ pc' = (IF Tcp THEN "accept" ELSE "scan") /\ pos' = 1 /\ pc = "wait"
      /\ UNCHANGED <<open, sock, watch, conn_a>>
  BY DEF SelectWait
<1>2. ServerTypes'
  BY <1>1 DEF ServerInv, ServerTypes, SockStates
<1>3. Reported'
  BY DEF Reported, Epoll
<1>4. (UnSelect' <=> UnSelect) /\ (Tcp' <=> Tcp)
  BY DEF UnSelect, Runs, Tcp
<1>5. ASSUME ~UnSelect PROVE Watched'
  <2>1. \A f \in batch' : f = LISTENER \/ (f \in Fds /\ watch[f] = "in" /\ sock[f] # "idle")
    BY <1>1
  <2>2. \A f \in batch' \ {LISTENER} : f \in open /\ sock[f] # "idle"
    BY <1>5, <2>1 DEF ServerInv, Watched
  <2>3. batch' \subseteq Fds \cup {LISTENER} /\ (pc' = "accept" => Tcp)
    BY <1>1, <2>1
  <2>4. \A i \in Hits' : sock'[conn_a'[i]] # "idle"
    BY <1>1, <2>2 DEF Hits
  <2>5. /\ \A f \in Fds : watch'[f] = "in" => f \in open'
        /\ \A i \in Fds : conn_a'[i] # NoFd => conn_a'[i] \in open'
        /\ \A i, j \in Fds : conn_a'[i] = conn_a'[j] /\ conn_a'[i] # NoFd => i = j
    BY <1>1, <1>5 DEF ServerInv, Watched
  <2>6. pc' = "accept" => Tcp' /\ \A f \in batch' \ {LISTENER} : f \in open' /\ sock'[f] # "idle"
    BY <1>1, <1>4, <2>2, <2>3
  <2> QED BY <2>3, <2>4, <2>5, <2>6 DEF Watched
<1> QED BY <1>2, <1>3, <1>4, <1>5 DEF ServerInv, Watched

\* The new connection has a number that no entry of the table and no event of the round has.
LEMMA SelectAccepts ==
  ASSUME MaxFd \in Nat, ServerInv, kind' = kind, kind.how = "select", SelectAccept
  PROVE  ServerInv'
<1>1. pc = "accept" /\ pc' \in {"wait", "scan"} /\ UNCHANGED <<batch, pos>>
  BY DEF SelectAccept
<1>2. (UnSelect' <=> UnSelect) /\ ~Epoll'
  BY DEF UnSelect, Runs, Epoll
<1>3. CASE UNCHANGED <<open, sock, watch, conn_a>>
  <2>1. ServerTypes'
    BY <1>1, <1>3 DEF ServerInv, ServerTypes, SockStates
  <2>2. ASSUME ~UnSelect PROVE \A i \in Hits' : sock'[conn_a'[i]] # "idle"
    BY <1>1, <1>3, <2>2 DEF ServerInv, Watched, Hits
  <2> QED BY <1>1, <1>2, <1>3, <2>1, <2>2 DEF ServerInv, Watched, Reported
<1>4. CASE Free # {} /\ ~UNCHANGED <<open, sock, watch, conn_a>>
  <2> DEFINE c == Min(Free)
             room == {i \in Fds : conn_a[i] = NoFd}
             into == IF kind.fam = "un" \/ room = {} THEN room ELSE {Min(room)}
  <2>1. c \in Fds /\ c \notin open /\ c # NoFd /\ c # LISTENER
    <3>1. c \in Fds /\ c \notin open
      BY <1>4, SomeFree DEF Free
    <3> QED BY <3>1 DEF Fds, NoFd, LISTENER
  <2>2. /\ open' = open \cup {c} /\ sock' = [sock EXCEPT ![c] = "idle"]
        /\ watch' = [watch EXCEPT ![c] = "in"]
        /\ conn_a' = [i \in Fds |-> IF i \in into THEN c ELSE conn_a[i]]
    BY <1>4 DEF SelectAccept, Stored
  <2>3. into \subseteq room
    <3>1. room # {} => Min(room) \in room
      BY SomeFree
    <3> QED BY <3>1
  <2>4. ~UnSelect => \A i, j \in into : i = j
    <3> SUFFICES ASSUME ~UnSelect PROVE \A i, j \in into : i = j
      OBVIOUS
    <3>1. Tcp
      BY <1>1 DEF ServerInv, Watched
    <3>2. kind.fam # "un"
      BY <3>1 DEF Tcp, UnSelect, Runs, ServerInv, ServerTypes, SockStates, Kinds
    <3> QED BY <3>2
  <2> HIDE DEF c, into
  <2>5. ServerTypes'
    BY <1>1, <2>1, <2>2 DEF ServerInv, ServerTypes, SockStates
  <2>6. ASSUME ~UnSelect PROVE Watched'
    <3>1. /\ batch \subseteq Fds \cup {LISTENER}
          /\ \A f \in Fds : watch[f] = "in" => f \in open
          /\ \A i \in Fds : conn_a[i] # NoFd => conn_a[i] \in open
          /\ \A i, j \in Fds : conn_a[i] = conn_a[j] /\ conn_a[i] # NoFd => i = j
          /\ \A f \in batch \ {LISTENER} : f \in open /\ sock[f] # "idle"
      BY <1>1, <2>6 DEF ServerInv, Watched
    <3>2. \A i \in Fds : \/ i \in into /\ conn_a'[i] = c
                         \/ i \notin into /\ conn_a'[i] = conn_a[i]
      BY <2>2
    <3>3. \A f \in Fds : watch'[f] = "in" => f \in open'
      BY <2>1, <2>2, <3>1 DEF ServerInv, ServerTypes, SockStates
    <3>4. \A i \in Fds : conn_a'[i] # NoFd => conn_a'[i] \in open'
      BY <2>2, <3>1, <3>2
    <3>5. ASSUME NEW i \in Fds, NEW j \in Fds, conn_a'[i] = conn_a'[j], conn_a'[i] # NoFd
          PROVE  i = j
      BY <2>1, <2>4, <2>6, <3>1, <3>2, <3>5
    <3>6. \A i \in Hits' : sock'[conn_a'[i]] # "idle"
      <4> SUFFICES ASSUME NEW i \in Hits' PROVE sock'[conn_a'[i]] # "idle"
        OBVIOUS
      <4>1. i \in pos .. MaxFd /\ conn_a'[i] \in batch \ {LISTENER} /\ pos \in Nat \ {0}
        BY <1>1 DEF Hits, ServerInv, ServerTypes, SockStates
      <4>2. i \in Fds /\ conn_a'[i] \in Fds
        <5>1. i \in Fds
          BY <4>1 DEF Fds
        <5>2. conn_a'[i] \in Fds
          BY <3>1, <4>1
        <5> QED BY <5>1, <5>2
      <4>3. conn_a'[i] # c
        BY <2>1, <3>1, <4>1
      <4> QED BY <2>1, <2>2, <3>1, <4>1, <4>2, <4>3 DEF ServerInv, ServerTypes, SockStates
    <3> QED BY <1>1, <3>1, <3>3, <3>4, <3>5, <3>6 DEF Watched
  <2> QED BY <1>2, <2>5, <2>6 DEF ServerInv, Watched, Reported
<1> QED BY <1>3, <1>4 DEF SelectAccept

\* An entry of the table is served: the loop goes on behind it.
LEMMA SelectServes ==
  ASSUME MaxFd \in Nat, ServerInv, kind' = kind, kind.how = "select", SelectEntry
  PROVE  ServerInv'
<1> DEFINE i == Min(Hits)
           f == conn_a[i]
<1>1. PICK n \in {-1, 0, 1} :
        /\ Reads(f, n)
        /\ IF n = 1
           THEN conn_a' = [conn_a EXCEPT ![i] = NoFd] /\ watch' = [watch EXCEPT ![f] = "no"]
           ELSE UNCHANGED <<conn_a, watch>>
  BY DEF SelectEntry
<1>2. /\ pc = "scan" /\ pc' \in {"wait", "scan"} /\ batch' = batch /\ pos' = i + 1 /\ Hits # {}
      /\ (UnSelect' <=> UnSelect) /\ ~Epoll'
  BY DEF SelectEntry, UnSelect, Runs, Epoll
<1>3. i \in Hits /\ i \in Fds /\ i \in Nat /\ i >= pos /\ pos \in Nat \ {0}
  <2>1. Hits \subseteq Fds /\ \A j \in Hits : j \in Nat /\ j >= pos
    BY DEF Hits, Fds, ServerInv, ServerTypes, SockStates
  <2>2. i \in Hits
    BY <1>2, <2>1, SomeFree
  <2> QED BY <2>1, <2>2 DEF ServerInv, ServerTypes, SockStates
<1> HIDE DEF i
<1>4. /\ open' \subseteq Fds
      /\ sock' \in [Fds -> SockStates]
      /\ watch' \in [Fds -> {"no", "in", "out"}]
      /\ conn_a' \in [Fds -> Fds \cup {NoFd}] /\ pos' \in Nat \ {0}
  <2>1. \/ UNCHANGED sock
        \/ \E s \in {"idle", "fin", "rst", "hup", "none"} : sock' = [sock EXCEPT ![f] = s]
    BY <1>1 DEF Reads, Gone, LeftOver
  <2>2. open' = open \/ open' = open \ {f}
    BY <1>1 DEF Reads, Gone
  <2> HIDE DEF f
  <2>3. watch' = watch \/ watch' = [watch EXCEPT ![f] = "no"]
    BY <1>1
  <2>4. conn_a' = conn_a \/ conn_a' = [conn_a EXCEPT ![i] = NoFd]
    BY <1>1
  <2>5. pos' \in Nat \ {0}
    BY <1>2, <1>3
  <2> QED BY <2>1, <2>2, <2>3, <2>4, <2>5 DEF ServerInv, ServerTypes, SockStates
<1>5. ServerTypes'
  BY <1>2, <1>4 DEF ServerInv, ServerTypes, SockStates
<1>6. ASSUME ~UnSelect PROVE Watched'
  <2>1. /\ batch \subseteq Fds \cup {LISTENER}
        /\ \A g \in Fds : watch[g] = "in" => g \in open
        /\ \A j \in Fds : conn_a[j] # NoFd => conn_a[j] \in open
        /\ \A j, k \in Fds : conn_a[j] = conn_a[k] /\ conn_a[j] # NoFd => j = k
        /\ \A j \in Hits : sock[conn_a[j]] # "idle"
    BY <1>2, <1>6 DEF ServerInv, Watched
  <2>2. f \in Fds /\ f \in open /\ f # NoFd
    BY <1>3, <1>6, HitsOpen
  <2>3. /\ open' = open \/ (open' = open \ {f} /\ n = 1)
        /\ \A g \in Fds : g # f => sock'[g] = sock[g]
    BY <1>1, <2>2, CallbackOwn
  <2>4. /\ \A g \in Fds : g # f => (g \in open' <=> g \in open) /\ watch'[g] = watch[g]
        /\ n = 1 => watch'[f] = "no" /\ conn_a'[i] = NoFd
        /\ n # 1 => open' = open /\ UNCHANGED <<conn_a, watch>>
        /\ \A j \in Fds : j # i => conn_a'[j] = conn_a[j]
    <3>1. watch \in [Fds -> {"no", "in", "out"}] /\ conn_a \in [Fds -> Fds \cup {NoFd}]
      BY DEF ServerInv, ServerTypes, SockStates
    <3> HIDE DEF f
    <3> QED BY <1>1, <1>3, <2>2, <2>3, <3>1
  <2>5. \A j \in Fds : j # i /\ conn_a[j] # NoFd => conn_a[j] # f
    BY <1>3, <2>1, <2>2
  <2>6. \A j \in Fds : conn_a[j] # NoFd => conn_a[j] \in Fds
    BY DEF ServerInv, ServerTypes, SockStates
  <2> HIDE DEF f
  <2>7. \A g \in Fds : watch'[g] = "in" => g \in open'
    BY <2>1, <2>2, <2>3, <2>4
  <2>8. \A j \in Fds : conn_a'[j] # NoFd => conn_a'[j] \in open'
    BY <2>1, <2>3, <2>4, <2>5, <2>6
  <2>9. \A j, k \in Fds : conn_a'[j] = conn_a'[k] /\ conn_a'[j] # NoFd => j = k
    BY <2>1, <2>4
  <2>10. \A j \in Hits' : sock'[conn_a'[j]] # "idle"
    <3> SUFFICES ASSUME NEW j \in Hits' PROVE sock'[conn_a'[j]] # "idle"
      OBVIOUS
    <3>1. j \in i + 1 .. MaxFd /\ conn_a'[j] \in batch \ {LISTENER}
      BY <1>2 DEF Hits
    <3>2. j \in Fds /\ j # i /\ j \in pos .. MaxFd
      BY <1>3, <3>1 DEF Fds
    <3>3. conn_a'[j] = conn_a[j] /\ j \in Hits
      BY <2>4, <3>1, <3>2 DEF Hits
    <3>4. conn_a[j] \in Fds /\ conn_a[j] # NoFd
      BY <1>6, <3>3, HitsOpen
    <3> QED BY <2>1, <2>3, <2>5, <3>2, <3>3, <3>4
  <2> QED BY <1>2, <2>1, <2>7, <2>8, <2>9, <2>10 DEF Watched
<1> QED BY <1>2, <1>5, <1>6 DEF ServerInv, Watched, Reported

\* A callback is called with a descriptor that is open and has something to read, in every
\* server but the unix select server, for every length of the tables and of a round.
THEOREM EventsHold == MaxFd \in Nat \ {0} => (Spec => []CallbackOnOpen)
<1> SUFFICES ASSUME MaxFd \in Nat \ {0} PROVE Spec => []CallbackOnOpen
  OBVIOUS
<1>1. Init => ServerInv
  <2> SUFFICES ASSUME Init PROVE ServerInv
    OBVIOUS
  <2>1. /\ kind \in Kinds /\ pc = "start" /\ open = {} /\ batch = {} /\ pos = 1
        /\ sock = [f \in Fds |-> "none"] /\ watch = [f \in Fds |-> "no"]
        /\ conn_a = [i \in Fds |-> NoFd]
    BY DEF Init
  <2>2. ServerTypes /\ Reported
    BY <2>1 DEF ServerTypes, SockStates, Reported
  <2>3. Watched
    BY <2>1 DEF Watched
  <2> QED BY <2>2, <2>3 DEF ServerInv
<1>2. ServerInv /\ [Next]_vars => ServerInv'
  <2> SUFFICES ASSUME ServerInv, [Next]_vars PROVE ServerInv'
    OBVIOUS
  <2>1. CASE UNCHANGED vars
    <3>1. UNCHANGED <<kind, pc, open, sock, watch, conn_a, batch, pos>>
      BY <2>1 DEF vars
    <3> QED BY <3>1 DEF ServerInv, ServerTypes, SockStates, Reported, Watched, Epoll, UnSelect, Runs, Tcp, Hits
  <2>2. CASE Next
    <3>1. kind' = kind
      BY <2>2, KindsOfSteps
    <3>2. CASE kind.how = "select" /\ SelectEnd
      BY <3>1, <3>2 DEF SelectEnd, ServerInv, ServerTypes, SockStates, Reported, Watched, Epoll, UnSelect, Runs
    <3>3. CASE kind.how = "select" /\ SelectLoop
      BY <3>1, <3>2, <3>3, SelectWaits, SelectAccepts, SelectServes DEF SelectLoop
    <3>4. CASE kind.how = "epoll" /\ EpollLoop
      BY <3>1, <3>4, EpollWaits, EpollServes DEF EpollLoop
    <3> QED BY <2>2, <3>1, <3>3, <3>4, KindsOfSteps, ServerStarts, PeersHarmless
  <2> QED BY <2>1, <2>2
<1>3. ServerInv => CallbackOnOpen
  <2> SUFFICES ASSUME ServerInv, ~UnSelect
               PROVE  /\ Epoll => \A e \in batch :
                                      \/ e.fd = LISTENER
                                      \/ e.fd \in open /\ (e.ev = {"IN"} => sock[e.fd] # "idle")
                      /\ pc = "scan" => \A i \in Hits : conn_a[i] \in open /\ sock[conn_a[i]] # "idle"
    BY DEF CallbackOnOpen, CallbackOnOpen
  <2>1. kind.how \in {"epoll", "select", "client"}
    BY DEF ServerInv, ServerTypes, SockStates, Kinds
  <2>2. CASE kind.how = "select"
    BY <2>2, HitsOpen DEF ServerInv, Watched, Reported
  <2>3. CASE kind.how = "client"
    BY <2>3 DEF ServerInv, ServerTypes, SockStates, Epoll
  <2>4. CASE kind.how = "epoll"
    <3>1. Epoll
      BY <2>4 DEF Epoll
    <3> QED BY <3>1 DEF ServerInv, Reported
  <2> QED BY <2>1, <2>2, <2>3, <2>4
<1> QED BY <1>1, <1>2, <1>3, PTL DEF Spec
-----------------------------------------------------------------------------

\* The bytes in the ring, counted by the indices: shrb moves an index before it counts.
Filled == contex + (IF w.at = "count" THEN w.n ELSE 0) - (IF r.at = "count" THEN r.n ELSE 0)

\* Each side asks for no more than the counts allow, and the indices are as far apart
\* as the ring is filled.
RingTypes ==
  /\ use \in Uses
  /\ w \in [at : {"idle", "fill", "sync", "count"}, n : Nat]
  /\ r \in [at : {"idle", "take", "sync", "count"}, n : Nat]
  /\ eof \in BOOLEAN /\ overrun \in BOOLEAN /\ (overrun => eof)
  /\ ri \in 0 .. R!C - 1 /\ contex \in 0 .. R!C /\ empty = R!C - contex
  /\ w.at = "fill" => ~eof
  /\ w.at # "idle" => w.n \in 1 .. empty
  /\ r.at # "idle" => r.n \in 1 .. contex
  /\ "count" \in {w.at, r.at} => use.kind = "shrb"
  /\ ~overrun => wi \in 0 .. R!C - 1 /\ wi \in {ri + Filled, ri + Filled - R!C}

\* ccsrb hands out a copy of n bytes exactly when they would reach the end of the ring.
RingCopies ==
  /\ use.kind # "ccsrb" => wcm = <<>> /\ rcm = <<>>
  /\ wcm # <<>> => /\ w.at \in {"fill", "sync"}
                   /\ \E n \in w.n .. empty :
                        wi + n >= R!C /\ (~eof => w.n = n) /\ wcm = [k \in 1 .. n |-> wcm[k]]
  /\ use.kind = "ccsrb" /\ wcm = <<>> /\ w.at # "idle" => wi + w.n < R!C

RingInv == RingTypes /\ (~overrun => RingCopies)

LEMMA Capacity ==
  ASSUME R!RingsAssumption, use \in Uses
  PROVE  /\ R!C \in Nat \ {0} /\ use.w \cup use.r \subseteq 1 .. R!C
         /\ use.kind \in {"csrb", "shrb", "ccsrb"}
  BY DEF R!RingsAssumption, R!C

\* An index goes on by n and comes back at the end of the ring.
LEMMA GoesAround ==
  ASSUME NEW i, R!C \in Nat \ {0}, i \in 0 .. R!C - 1, NEW n \in 0 .. R!C
  PROVE  R!Around(i, n) \in 0 .. R!C - 1 /\ R!Around(i, n) \in {i + n, i + n - R!C}
  BY DEF R!Around

\* An index that is f bytes ahead of another one goes on by n, or the other one does.
LEMMA AheadOf ==
  ASSUME NEW c \in Nat \ {0}, NEW a \in 0 .. c - 1, NEW i \in 0 .. c - 1, NEW f \in Int, NEW n \in Int,
         i \in {a + f, a + f - c}
  PROVE  /\ \A j \in 0 .. c - 1 : j \in {i + n, i + n - c} /\ f + n \in 0 .. c
                                  => j \in {a + (f + n), a + (f + n) - c}
         /\ \A j \in 0 .. c - 1 : j \in {a + n, a + n - c} /\ f - n \in 0 .. c
                                  => i \in {j + (f - n), j + (f - n) - c}
<1>1. CASE i = a + f
  BY <1>1
<1>2. CASE i = a + f - c
  BY <1>2
<1> QED BY <1>1, <1>2

LEMMA RingStart == ASSUME R!RingsAssumption, R!Init PROVE RingInv
<1>1. R!C \in Nat \ {0}
  BY Capacity DEF R!Init
<1>2. /\ use \in Uses /\ ri = 0 /\ wi = 0 /\ contex = 0 /\ empty = R!C
      /\ w = [at |-> "idle", n |-> 0] /\ r = [at |-> "idle", n |-> 0]
      /\ wcm = <<>> /\ rcm = <<>> /\ eof = FALSE /\ overrun = FALSE
  BY DEF R!Init
<1>3. Filled = 0
  BY <1>2 DEF Filled
<1>4. RingTypes
  <2>1. /\ w \in [at : {"idle", "fill", "sync", "count"}, n : Nat]
        /\ r \in [at : {"idle", "take", "sync", "count"}, n : Nat]
        /\ w.at = "idle" /\ r.at = "idle"
    BY <1>2
  <2>2. 0 \in 0 .. R!C - 1 /\ 0 \in 0 .. R!C /\ R!C = R!C - 0 /\ 0 = 0 + 0
    BY <1>1
  <2>3. wi \in {ri + Filled, ri + Filled - R!C}
    BY <1>2, <1>3, <2>2
  <2> QED BY <1>2, <2>1, <2>2, <2>3 DEF RingTypes
<1> QED BY <1>2, <1>4 DEF RingInv, RingCopies

\* The writer's calls.
LEMMA WQueryKeeps ==
  ASSUME R!RingsAssumption, RingInv, ~overrun, NEW n \in 1 .. R!C, R!WQuery(n)
  PROVE  RingInv'
<1>1. R!C \in Nat \ {0} /\ R!C' = R!C
  BY Capacity DEF RingInv, RingTypes, R!WQuery, R!C
<1>2. /\ w.at = "idle" /\ w' = [at |-> "fill", n |-> n] /\ n <= empty
      /\ ~eof /\ UNCHANGED <<use, ri, wi, contex, empty, r, rcm, eof, overrun>>
  BY DEF R!WQuery, R!idx, R!counts, R!stream
<1>3. Filled' = Filled
  BY <1>2 DEF Filled
<1>4. RingTypes'
  BY <1>1, <1>2, <1>3 DEF RingInv, RingTypes
<1>5. RingCopies'
  <2>1. CASE use.kind = "ccsrb" /\ R!Wraps(wi, n)
    <3>1. wcm' = [k \in 1 .. n |-> R!Numbers] /\ wi + n >= R!C
      BY <2>1 DEF R!WQuery, R!Wraps
    <3>2. wcm' # <<>> /\ wcm' = [k \in 1 .. n |-> wcm'[k]]
      BY <3>1
    <3> QED BY <1>1, <1>2, <2>1, <3>1, <3>2 DEF RingInv, RingTypes, RingCopies
  <2>2. CASE ~(use.kind = "ccsrb" /\ R!Wraps(wi, n))
    <3>1. wcm' = <<>> /\ (use.kind = "ccsrb" => ~(wi + n >= R!C))
      BY <2>2 DEF R!WQuery, R!Wraps
    <3> QED BY <1>1, <1>2, <3>1 DEF RingInv, RingTypes, RingCopies
  <2> QED BY <2>1, <2>2
<1> QED BY <1>4, <1>5 DEF RingInv

LEMMA WFillKeeps ==
  ASSUME R!RingsAssumption, RingInv, ~overrun, NEW m \in 1 .. R!C, R!WFill(m)
  PROVE  RingInv'
<1>1. R!C \in Nat \ {0} /\ R!C' = R!C
  BY Capacity DEF RingInv, RingTypes, R!WFill, R!C
<1>2. /\ w.at = "fill" /\ w' = [at |-> "sync", n |-> m] /\ m \in 1 .. w.n /\ eof' = (m < w.n)
      /\ ~eof /\ (m < w.n => use.kind = "ccsrb")
      /\ UNCHANGED <<use, ri, wi, contex, empty, r, rcm, overrun>>
  BY <1>1 DEF R!WFill, R!idx, R!counts, RingInv, RingTypes
<1>3. Filled' = Filled
  BY <1>2 DEF Filled
<1>4. RingTypes'
  BY <1>1, <1>2, <1>3 DEF RingInv, RingTypes
<1>5. RingCopies'
  <2>1. CASE wcm = <<>>
    <3>1. wcm' = <<>>
      BY <2>1 DEF R!WFill
    <3> QED BY <1>1, <1>2, <2>1, <3>1 DEF RingInv, RingTypes, RingCopies
  <2>2. CASE wcm # <<>>
    <3>1. PICK n \in w.n .. empty : wi + n >= R!C /\ (~eof => w.n = n) /\ wcm = [k \in 1 .. n |-> wcm[k]]
      BY <2>2 DEF RingInv, RingCopies
    <3>2. DOMAIN wcm = 1 .. n /\ n \in Nat \ {0}
      BY <3>1, <1>2 DEF RingInv, RingTypes
    <3>3. wcm' = [k \in 1 .. n |-> wcm'[k]] /\ wcm' # <<>>
      BY <2>2, <3>2 DEF R!WFill
    <3>4. w.n = n
      BY <1>2, <3>1
    <3>7. ~eof' => m = w.n
      <4>1. CASE m < w.n
        BY <1>2, <4>1
      <4>2. CASE ~(m < w.n)
        BY <1>2, <4>2, <3>2, <3>4
      <4> QED BY <4>1, <4>2
    <3>8. w'.n = m /\ w'.at = "sync" /\ m \in 1 .. n
      BY <1>2, <3>4
    <3>5. n \in w'.n .. empty' /\ wi' + n >= R!C' /\ (~eof' => w'.n = n) /\ w'.at = "sync"
      <4>1. n \in m .. empty' /\ wi' = wi /\ m \in Nat
        BY <1>1, <1>2, <3>1, <3>2, <3>8 DEF RingInv, RingTypes
      <4> QED BY <1>1, <3>1, <3>4, <3>7, <3>8, <4>1
    <3>6. use.kind = "ccsrb"
      BY <2>2 DEF RingInv, RingCopies
    <3> QED BY <1>2, <3>3, <3>5, <3>6 DEF RingCopies
  <2> QED BY <2>1, <2>2
<1> QED BY <1>4, <1>5 DEF RingInv

LEMMA WSyncKeeps ==
  ASSUME R!RingsAssumption, RingInv, ~overrun, R!WSyncCsrb \/ R!WMirrorShrb
  PROVE  RingInv'
<1>1. R!C \in Nat \ {0} /\ R!C' = R!C
  BY Capacity DEF RingInv, RingTypes, R!WSyncCsrb, R!WMirrorShrb, R!C
<1>2. /\ w.at = "sync" /\ w.n \in 1 .. empty /\ empty = R!C - contex /\ contex \in 0 .. R!C /\ ri \in 0 .. R!C - 1
      /\ wi \in 0 .. R!C - 1 /\ wi \in {ri + Filled, ri + Filled - R!C} /\ Filled \in Int
  BY <1>1 DEF RingInv, RingTypes, R!WSyncCsrb, R!WMirrorShrb, Filled
<1>3. /\ wi' = R!Around(wi, w.n) /\ use.kind # "ccsrb"
      /\ UNCHANGED <<use, ri, r, wcm, rcm, eof, overrun>>
      /\ \/ w' = [w EXCEPT !.at = "idle"] /\ contex' = contex + w.n /\ empty' = empty - w.n
         \/ w' = [w EXCEPT !.at = "count"] /\ use.kind = "shrb" /\ UNCHANGED <<contex, empty>>
  BY DEF R!WSyncCsrb, R!WMirrorShrb, R!WCount, R!WDone, R!copies, R!stream, R!counts
<1>4. wi' \in 0 .. R!C - 1 /\ wi' \in {wi + w.n, wi + w.n - R!C}
  BY <1>1, <1>2, <1>3, GoesAround
<1>5. Filled' = Filled + w.n
  BY <1>1, <1>2, <1>3 DEF Filled, RingInv, RingTypes
<1>6. wi' \in {ri + Filled', ri + Filled' - R!C}
  <2>1. Filled + w.n \in 0 .. R!C /\ w.n \in Int
    BY <1>1, <1>2, <1>3 DEF Filled, RingInv, RingTypes
  <2> QED BY <1>1, <1>2, <1>4, <1>5, <2>1, AheadOf
<1>7. RingTypes'
  BY <1>1, <1>2, <1>3, <1>4, <1>6 DEF RingInv, RingTypes
<1>8. RingCopies'
  BY <1>3 DEF RingInv, RingCopies
<1> QED BY <1>7, <1>8 DEF RingInv

LEMMA WCountKeeps ==
  ASSUME R!RingsAssumption, RingInv, ~overrun, R!WCountShrb
  PROVE  RingInv'
<1>1. R!C \in Nat \ {0} /\ R!C' = R!C
  BY Capacity DEF RingInv, RingTypes, R!WCountShrb, R!C
<1>2. /\ w.at = "count" /\ w.n \in 1 .. empty /\ w' = [w EXCEPT !.at = "idle"] /\ use.kind = "shrb"
      /\ contex' = contex + w.n /\ empty' = empty - w.n
      /\ UNCHANGED <<use, ri, wi, r, wcm, rcm, eof, overrun>>
  BY DEF R!WCountShrb, R!WCount, R!WDone, R!copies, R!stream, R!idx, RingInv, RingTypes
<1>3. Filled' = Filled
  BY <1>1, <1>2 DEF Filled, RingInv, RingTypes
<1>4. RingTypes'
  BY <1>1, <1>2, <1>3 DEF RingInv, RingTypes
<1>5. RingCopies'
  BY <1>2 DEF RingInv, RingCopies
<1> QED BY <1>4, <1>5 DEF RingInv

\* A temporary copy that is shorter than the rest of the ring overruns it.
LEMMA WSyncCcsrbKeeps ==
  ASSUME R!RingsAssumption, RingInv, ~overrun, R!WSyncCcsrb
  PROVE  RingInv'
<1>1. R!C \in Nat \ {0} /\ R!C' = R!C
  BY Capacity DEF RingInv, RingTypes, R!WSyncCcsrb, R!C
<1>2. /\ w.at = "sync" /\ w.n \in 1 .. empty /\ empty = R!C - contex /\ contex \in 0 .. R!C /\ ri \in 0 .. R!C - 1
      /\ wi \in 0 .. R!C - 1 /\ wi \in {ri + Filled, ri + Filled - R!C} /\ Filled \in Int
      /\ r.at # "count" /\ Filled = contex
  BY <1>1 DEF RingInv, RingTypes, R!WSyncCcsrb, Filled
<1>3. /\ use.kind = "ccsrb" /\ w' = [w EXCEPT !.at = "idle"] /\ contex' = contex + w.n /\ empty' = empty - w.n
      /\ wcm' = <<>> /\ UNCHANGED <<use, ri, r, rcm, eof>>
  BY DEF R!WSyncCcsrb, R!WCount, R!WDone
<1>4. Filled' = Filled + w.n
  BY <1>1, <1>2, <1>3 DEF Filled, RingInv, RingTypes
<1>5. CASE wcm = <<>>
  <2>1. wi' = wi + w.n /\ overrun' = overrun /\ wi + w.n < R!C
    <3>1. wi' = wi + w.n /\ overrun' = overrun
      BY <1>5 DEF R!WSyncCcsrb
    <3>2. RingCopies /\ w.at # "idle"
      BY <1>2 DEF RingInv
    <3> QED BY <1>3, <1>5, <3>1, <3>2 DEF RingCopies
  <2>2. wi' \in 0 .. R!C - 1 /\ wi' \in {ri + Filled', ri + Filled' - R!C}
    BY <1>1, <1>2, <1>4, <2>1
  <2>3. RingTypes'
    BY <1>1, <1>2, <1>3, <2>1, <2>2, SMTT(30) DEF RingInv, RingTypes
  <2> QED BY <1>3, <2>3 DEF RingInv, RingCopies
<1>6. CASE wcm # <<>>
  <2>1. wi' = w.n - (R!C - wi) /\ overrun' = (w.n < R!C - wi)
    BY <1>6 DEF R!WSyncCcsrb
  <2>2. PICK n \in w.n .. empty : wi + n >= R!C /\ (~eof => w.n = n)
    BY <1>6 DEF RingInv, RingCopies
  <2>3. overrun' \in BOOLEAN /\ (overrun' => eof')
    <3>1. CASE w.n < R!C - wi
      <4>1. w.n # n
        BY <1>1, <1>2, <2>2, <3>1
      <4>2. eof
        BY <2>2, <4>1
      <4>3. overrun' = TRUE
        BY <2>1, <3>1, Zenon
      <4>4. eof' = eof
        BY <1>3
      <4> QED BY <4>2, <4>3, <4>4, Zenon
    <3>2. CASE ~(w.n < R!C - wi)
      <4>1. ~overrun'
        BY <2>1, <3>2, Zenon
      <4>2. overrun' \in BOOLEAN
        BY <2>1
      <4> QED BY <4>1, <4>2, Zenon
    <3> QED BY <3>1, <3>2
  <2>4. ~overrun' => wi' \in 0 .. R!C - 1 /\ wi' \in {ri + Filled', ri + Filled' - R!C}
    <3> SUFFICES ASSUME ~(w.n < R!C - wi) PROVE wi' \in 0 .. R!C - 1 /\ wi' \in {ri + Filled', ri + Filled' - R!C}
      BY <2>1
    <3>1. wi = ri + Filled
      BY <1>1, <1>2
    <3> QED BY <1>1, <1>2, <1>4, <2>1, <3>1
  <2>5. RingTypes'
    BY <1>1, <1>2, <1>3, <2>3, <2>4, SMTT(30) DEF RingInv, RingTypes
  <2> QED BY <1>3, <2>5 DEF RingInv, RingCopies
<1> QED BY <1>5, <1>6

\* The reader's calls.
LEMMA RQueryKeeps ==
  ASSUME R!RingsAssumption, RingInv, ~overrun, NEW n \in 1 .. R!C, R!RQuery(n)
  PROVE  RingInv'
<1>1. R!C \in Nat \ {0} /\ R!C' = R!C
  BY Capacity DEF RingInv, RingTypes, R!RQuery, R!C
<1>2. /\ r.at = "idle" /\ r' = [at |-> "take", n |-> n] /\ n <= contex
      /\ UNCHANGED <<use, ri, wi, contex, empty, w, wcm, eof, overrun>>
      /\ use.kind # "ccsrb" => rcm' = <<>>
  BY DEF R!RQuery, R!idx, R!counts, R!stream
<1>3. Filled' = Filled
  BY <1>2 DEF Filled
<1>4. RingTypes'
  BY <1>1, <1>2, <1>3 DEF RingInv, RingTypes
<1>5. RingCopies'
  BY <1>1, <1>2 DEF RingInv, RingCopies
<1> QED BY <1>4, <1>5 DEF RingInv

LEMMA RTakeKeeps ==
  ASSUME R!RingsAssumption, RingInv, ~overrun, R!RTake
  PROVE  RingInv'
<1>1. R!C \in Nat \ {0} /\ R!C' = R!C
  BY Capacity DEF RingInv, RingTypes, R!RTake, R!C
<1>2. /\ r.at = "take" /\ r' = [r EXCEPT !.at = "sync"]
      /\ UNCHANGED <<use, ri, wi, contex, empty, w, wcm, rcm, eof, overrun>>
  BY DEF R!RTake, R!idx, R!counts, R!copies
<1>3. Filled' = Filled
  BY <1>2 DEF Filled, RingInv, RingTypes
<1>4. RingTypes'
  BY <1>1, <1>2, <1>3 DEF RingInv, RingTypes
<1>5. RingCopies'
  BY <1>1, <1>2 DEF RingInv, RingCopies
<1> QED BY <1>4, <1>5 DEF RingInv

LEMMA RSyncKeeps ==
  ASSUME R!RingsAssumption, RingInv, ~overrun, R!RSync \/ R!RAdvanceShrb
  PROVE  RingInv'
<1>1. R!C \in Nat \ {0} /\ R!C' = R!C
  BY Capacity DEF RingInv, RingTypes, R!RSync, R!RAdvanceShrb, R!C
<1>2. /\ r.at = "sync" /\ r.n \in 1 .. contex /\ empty = R!C - contex /\ contex \in 0 .. R!C /\ ri \in 0 .. R!C - 1
      /\ wi \in 0 .. R!C - 1 /\ wi \in {ri + Filled, ri + Filled - R!C} /\ Filled \in Int
  BY <1>1 DEF RingInv, RingTypes, R!RSync, R!RAdvanceShrb, Filled
<1>3. /\ ri' = R!Around(ri, r.n) /\ (use.kind # "ccsrb" => rcm' = rcm \/ rcm' = <<>>)
      /\ UNCHANGED <<use, wi, w, wcm, eof, overrun>>
      /\ \/ /\ r' = [r EXCEPT !.at = "idle"] /\ contex' = contex - r.n /\ empty' = empty + r.n
            /\ use.kind # "shrb"
         \/ r' = [r EXCEPT !.at = "count"] /\ use.kind = "shrb" /\ UNCHANGED <<contex, empty>>
  BY DEF R!RSync, R!RAdvanceShrb, R!RCount, R!RDone, R!copies, R!stream, R!counts
<1>4. ri' \in 0 .. R!C - 1 /\ ri' \in {ri + r.n, ri + r.n - R!C}
  BY <1>1, <1>2, <1>3, GoesAround, SMTT(30)
<1>5. Filled' = Filled - r.n
  BY <1>1, <1>2, <1>3 DEF Filled, RingInv, RingTypes
<1>6. wi' \in {ri' + Filled', ri' + Filled' - R!C}
  <2>1. Filled - r.n \in 0 .. R!C /\ r.n \in Int
    BY <1>1, <1>2, <1>3, SMTT(30) DEF Filled, RingInv, RingTypes
  <2> QED BY <1>1, <1>2, <1>3, <1>4, <1>5, <2>1, AheadOf
<1>7. RingTypes'
  <2>1. /\ r' \in [at : {"idle", "take", "sync", "count"}, n : Nat]
        /\ r'.at # "idle" => r'.n \in 1 .. contex'
        /\ contex' \in 0 .. R!C /\ empty' = R!C - contex'
        /\ w.at # "idle" => w.n \in 1 .. empty'
    BY <1>1, <1>2, <1>3 DEF RingInv, RingTypes
  <2> QED BY <1>1, <1>2, <1>3, <1>4, <1>6, <2>1 DEF RingInv, RingTypes
<1>8. RingCopies'
  <2>1. empty' >= empty /\ empty \in Nat /\ empty' \in Nat
    BY <1>1, <1>2, <1>3
  <2>2. ASSUME wcm # <<>>
        PROVE  \E n \in w.n .. empty' : wi + n >= R!C /\ (~eof => w.n = n) /\ wcm = [k \in 1 .. n |-> wcm[k]]
    <3>1. PICK n \in w.n .. empty : wi + n >= R!C /\ (~eof => w.n = n) /\ wcm = [k \in 1 .. n |-> wcm[k]]
      BY <2>2 DEF RingInv, RingCopies
    <3>2. n \in w.n .. empty'
      BY <2>1, <3>1 DEF RingInv, RingTypes
    <3> QED BY <3>1, <3>2
  <2>3. RingCopies /\ (use.kind # "ccsrb" => rcm' = <<>>)
    BY <1>3 DEF RingInv, RingCopies
  <2> QED BY <1>1, <1>3, <2>2, <2>3 DEF RingCopies
<1> QED BY <1>7, <1>8 DEF RingInv

LEMMA RCountKeeps ==
  ASSUME R!RingsAssumption, RingInv, ~overrun, R!RCountShrb
  PROVE  RingInv'
<1>1. R!C \in Nat \ {0} /\ R!C' = R!C
  BY Capacity DEF RingInv, RingTypes, R!RCountShrb, R!C
<1>2. /\ r.at = "count" /\ r.n \in 1 .. contex /\ r' = [r EXCEPT !.at = "idle"] /\ use.kind = "shrb"
      /\ contex' = contex - r.n /\ empty' = empty + r.n
      /\ UNCHANGED <<use, ri, wi, w, wcm, rcm, eof, overrun>>
  BY DEF R!RCountShrb, R!RCount, R!RDone, R!copies, R!stream, R!idx, RingInv, RingTypes
<1>3. Filled' = Filled
  BY <1>1, <1>2 DEF Filled, RingInv, RingTypes
<1>4. RingTypes'
  BY <1>1, <1>2, <1>3 DEF RingInv, RingTypes
<1>5. RingCopies'
  BY <1>2 DEF RingInv, RingCopies
<1> QED BY <1>4, <1>5 DEF RingInv

LEMMA ClearKeeps ==
  ASSUME R!RingsAssumption, RingInv, ~overrun, R!Clear
  PROVE  RingInv'
<1>1. R!C \in Nat \ {0} /\ R!C' = R!C
  BY Capacity DEF RingInv, RingTypes, R!Clear, R!C
<1>2. /\ w.at = "idle" /\ r.at = "idle" /\ ri' = 0 /\ wi' = 0 /\ contex' = 0 /\ empty' = R!C
      /\ UNCHANGED <<use, w, r, wcm, rcm, eof, overrun>>
  BY DEF R!Clear, R!copies
<1>3. Filled' = 0
  BY <1>1, <1>2 DEF Filled
<1>4. RingTypes'
  BY <1>1, <1>2, <1>3 DEF RingInv, RingTypes
<1>5. RingCopies'
  BY <1>2 DEF RingInv, RingCopies
<1> QED BY <1>4, <1>5 DEF RingInv

LEMMA RingKept ==
  ASSUME R!RingsAssumption, RingInv, [R!Next]_(R!vars)
  PROVE  RingInv'
<1>1. CASE R!Next
  BY <1>1, WQueryKeeps, WFillKeeps, WSyncKeeps, WCountKeeps, WSyncCcsrbKeeps, RQueryKeeps, RTakeKeeps,
     RSyncKeeps, RCountKeeps, ClearKeeps DEF R!Next, R!Writer, R!Reader
<1>2. CASE UNCHANGED R!vars
  BY <1>2 DEF R!vars, R!idx, R!counts, R!copies, R!stream, RingInv, RingTypes, RingCopies, Filled, R!C
<1> QED BY <1>1, <1>2

LEMMA RingAgrees == ASSUME R!RingsAssumption, RingInv PROVE R!IndicesAgree
<1>1. R!C \in Nat \ {0}
  BY Capacity DEF RingInv, RingTypes
<1>2. Filled \in Int
  BY <1>1 DEF RingInv, RingTypes, Filled
<1>3. ASSUME ~overrun
      PROVE  (wi - ri - contex - (IF w.at = "count" THEN w.n ELSE 0)
                               + (IF r.at = "count" THEN r.n ELSE 0)) % R!C = 0
  <2>1. wi - ri - contex - (IF w.at = "count" THEN w.n ELSE 0) + (IF r.at = "count" THEN r.n ELSE 0)
          \in {0, -R!C}
    BY <1>1, <1>2, <1>3 DEF RingInv, RingTypes, Filled
  <2>2. \A x \in {0, -R!C} : x % R!C = 0
    BY <1>1
  <2> QED BY <2>1, <2>2
<1> QED BY <1>1, <1>3 DEF RingInv, RingTypes, R!IndicesAgree

\* The indices and counts of a ring agree, for every capacity and all sizes.
THEOREM IndicesFollowCounts == R!RingsAssumption => (R!Spec => []R!IndicesAgree)
<1> SUFFICES ASSUME R!RingsAssumption PROVE R!Spec => []R!IndicesAgree
  OBVIOUS
<1>1. R!Init => RingInv
  BY RingStart
<1>2. RingInv /\ [R!Next]_(R!vars) => RingInv'
  BY RingKept
<1>3. RingInv => R!IndicesAgree
  BY RingAgrees
<1> QED BY <1>1, <1>2, <1>3, PTL DEF R!Spec

\* The number of the k-th byte from byte b, and the place of the k-th byte from place i.
At(b, k)  == IF b + k < R!Numbers THEN b + k ELSE b + k - R!Numbers
Loc(i, k) == IF i + k < R!C THEN i + k ELSE i + k - R!C

\* b is the number of the byte at the read index.  The bytes in the ring follow it, and
\* so do those that the writer has stored but not committed.
Counted(b) ==
  /\ next = At(b, IF r.at = "sync" THEN r.n ELSE 0)
  /\ written = At(b, Filled + (IF w.at = "sync" THEN w.n ELSE 0))
Run(M, i, f, b) == \A k \in 0 .. f - 1 : M[Loc(i, k)] = At(b, k)
InRing(b) == Run(mem, ri, Filled, b)
InHand(b) ==
  w.at = "sync" => \A k \in 0 .. w.n - 1 :
                     (IF wcm = <<>> THEN mem[wi + k] ELSE wcm[k + 1]) = At(b, Filled + k)

\* csrb, shrb: behind the end they are repeated as far as one write goes.  ccsrb: the
\* reader's copy has them.
Repeat(M, i, f, n, b) == \A k \in 0 .. f - 1 : i + k >= R!C /\ i + k - R!C < n => M[i + k] = At(b, k)
Behind(b) == use.kind # "ccsrb" => \A n \in use.w : Repeat(mem, ri, Filled, n, b)
Copied(b) == rcm # <<>> => \A k \in 1 .. r.n : rcm[k] = At(b, k - 1)

Holds(b) == Counted(b) /\ InRing(b) /\ InHand(b) /\ Behind(b) /\ Copied(b)

\* What the two sides asked for.
Asked ==
  /\ mem = [a \in 0 .. 2 * R!C - 1 |-> mem[a]]
  /\ r.at # "idle" => r.n \in use.r
  /\ w.at # "idle" /\ use.kind # "ccsrb" => w.n \in use.w
  /\ rcm # <<>> => r.at \in {"take", "sync"}
  /\ use.kind = "ccsrb" /\ rcm = <<>> /\ r.at # "idle" => ri + r.n < R!C

\* csrb, shrb: a read that begins at ri needs no more than is repeated behind the end.
Aligned ==
  use.kind # "ccsrb" =>
    \E n \in use.w, g \in 1 .. R!C :
      /\ use.w = {n} /\ R!Multiple(R!C, g) /\ R!Multiple(ri, g)
      /\ \A m \in use.r : R!Multiple(m, g) /\ m <= n + g

ContentInv ==
  /\ RingInv /\ inOrder = TRUE
  /\ ~overrun => Asked /\ Aligned /\ \E b \in 0 .. 2 * R!C : Holds(b)

LEMMA NthIs ==
  ASSUME R!C \in Nat \ {0}, NEW b \in 0 .. 2 * R!C, NEW k \in 0 .. 2 * R!C
  PROVE  R!Nth(b, k) = At(b, k) /\ At(b, k) \in 0 .. 2 * R!C
<1> DEFINE n == 2 * R!C + 1
<1>1. n \in Nat \ {0} /\ b \in 0 .. n - 1 /\ k \in 0 .. n - 1
  OBVIOUS
<1> HIDE DEF n
<1>2. (b + k) % n = IF b + k < n THEN b + k ELSE b + k - n
  <2>1. CASE b + k < n
    BY <1>1, <2>1
  <2>2. CASE ~(b + k < n)
    <3>1. PICK y \in 0 .. n - 1 : b + k = n + y
      BY <1>1, <2>2
    <3>2. (n + y) % n = y
      BY <1>1
    <3> QED BY <1>1, <2>2, <3>1, <3>2
  <2> QED BY <2>1, <2>2
<1>3. R!Nth(b, k) = At(b, k)
  BY <1>2 DEF R!Nth, R!Numbers, At, n
<1>4. At(b, k) \in 0 .. 2 * R!C
  BY DEF At, R!Numbers
<1> QED BY <1>3, <1>4

LEMMA AtAt ==
  ASSUME R!C \in Nat \ {0}, NEW b \in 0 .. 2 * R!C, NEW j \in 0 .. R!C, NEW k \in 0 .. R!C
  PROVE  At(At(b, j), k) = At(b, j + k) /\ At(b, 0) = b /\ At(b, j) \in 0 .. 2 * R!C
  BY DEF At, R!Numbers

LEMMA Products ==
  ASSUME NEW g \in Nat \ {0}, NEW a \in Int, NEW b \in Int, NEW c \in Int
  PROVE  /\ g * a + g * b = g * (a + b) /\ g * a + g * b - g * c = g * (a + b - c)
         /\ g * a \in Nat => a \in 0 .. g * a
<1>1. g * a + g * b = g * (a + b) /\ g * a + g * b - g * c = g * (a + b - c)
  OBVIOUS
<1>2. ASSUME g * a \in Nat PROVE a \in 0 .. g * a
  <2>1. a >= 0
    BY <1>2
  <2> QED BY <1>2, <2>1
<1> QED BY <1>1, <1>2

\* Two multiples of g that differ are g apart at least.
LEMMA Spaced ==
  ASSUME NEW g \in Nat \ {0}, NEW a \in Int, NEW b \in Int, g * a < g * b
  PROVE  g * a + g <= g * b
<1>1. PICK d \in Int : d = b - a
  OBVIOUS
<1>2. g * b = g * a + g * d
  <2>1. g * a + g * d = g * (a + d)
    BY Products
  <2>2. a + d = b
    BY <1>1
  <2> QED BY <2>1, <2>2, Zenon
<1>3. g * d \in Nat /\ g * d # 0
  BY <1>2
<1>4. d >= 0 /\ d # 0
  <2>1. d \in 0 .. g * d
    BY <1>3, Products
  <2>2. d = 0 => g * d = 0
    OBVIOUS
  <2> QED BY <1>3, <2>1, <2>2
<1>5. PICK e \in Nat : d = 1 + e
  <2>1. d - 1 \in Nat /\ d = 1 + (d - 1)
    BY <1>4
  <2> QED BY <2>1
<1>6. g * d = g + g * e /\ g * e \in Nat
  BY <1>5
<1> QED BY <1>2, <1>6

\* An index below the end may be g short of it only.
LEMMA ReadsReach ==
  ASSUME R!C \in Nat \ {0}, ri \in 0 .. R!C - 1, Aligned, use.kind # "ccsrb",
         use.r \subseteq Nat, use.w \subseteq Nat
  PROVE  \A m \in use.r, n \in use.w : ri + m <= R!C + n
<1> SUFFICES ASSUME NEW m \in use.r, NEW n \in use.w PROVE ri + m <= R!C + n
  OBVIOUS
<1>1. PICK g \in 1 .. R!C : R!Multiple(R!C, g) /\ R!Multiple(ri, g) /\ m <= n + g
  BY DEF Aligned
<1>2. PICK c \in Nat : R!C = g * c
  BY <1>1 DEF R!Multiple
<1>3. PICK i \in Nat : ri = g * i
  BY <1>1 DEF R!Multiple
<1>4. g * i + g <= g * c
  <2>1. g * i < g * c
    BY <1>2, <1>3
  <2> QED BY <1>1, <2>1, Spaced
<1> QED BY <1>1, <1>2, <1>3, <1>4

LEMMA ReadsAlign ==
  ASSUME R!C \in Nat \ {0}, ri \in 0 .. R!C - 1, Aligned, use' = use,
         ri' \in 0 .. R!C - 1, NEW m \in use.r, use.r \subseteq Nat, ri' \in {ri + m, ri + m - R!C}
  PROVE  Aligned'
<1>1. R!C' = R!C
  BY DEF R!C
<1> SUFFICES ASSUME use.kind # "ccsrb"
             PROVE  \E n \in use.w, g \in 1 .. R!C :
                      /\ use.w = {n} /\ R!Multiple(R!C, g) /\ R!Multiple(ri', g)
                      /\ \A k \in use.r : R!Multiple(k, g) /\ k <= n + g
  BY <1>1 DEF Aligned, R!Multiple
<1>2. PICK n \in use.w, g \in 1 .. R!C :
        /\ use.w = {n} /\ R!Multiple(R!C, g) /\ R!Multiple(ri, g)
        /\ \A k \in use.r : R!Multiple(k, g) /\ k <= n + g
  BY DEF Aligned
<1>3. R!Multiple(ri', g)
  <2>1. PICK c \in Nat : R!C = g * c
    BY <1>2 DEF R!Multiple
  <2>2. PICK i \in Nat : ri = g * i
    BY <1>2 DEF R!Multiple
  <2>3. PICK k \in Nat : m = g * k
    <3>1. R!Multiple(m, g) /\ m \in Nat
      BY <1>2
    <3> QED BY <3>1 DEF R!Multiple
  <2>4. g \in Nat \ {0} /\ i \in Int /\ k \in Int /\ c \in Int /\ i + k \in Int /\ i + k - c \in Int
    OBVIOUS
  <2>5. ri' = g * (i + k) \/ ri' = g * (i + k - c)
    <3>1. g * i + g * k = g * (i + k) /\ g * i + g * k - g * c = g * (i + k - c)
      BY <2>4, Products
    <3>2. ri' = g * i + g * k \/ ri' = g * i + g * k - g * c
      <4>1. ri' = ri + m \/ ri' = ri + m - R!C
        OBVIOUS
      <4> QED BY <2>1, <2>2, <2>3, <4>1, Zenon
    <3> QED BY <3>1, <3>2, Zenon
  <2>6. PICK q \in Int : ri' = g * q
    BY <2>4, <2>5, Zenon
  <2>7. q \in 0 .. ri'
    <3>1. g * q \in Nat
      BY <2>6
    <3>2. q \in 0 .. g * q
      BY <2>4, <2>6, <3>1, Products
    <3> QED BY <2>6, <3>2, Zenon
  <2> QED BY <2>6, <2>7 DEF R!Multiple
<1> QED BY <1>2, <1>3

LEMMA RingFacts ==
  ASSUME R!RingsAssumption, RingInv, ~overrun
  PROVE  /\ R!C \in Nat \ {0} /\ use.r \subseteq 1 .. R!C /\ use.w \subseteq 1 .. R!C
         /\ ri \in 0 .. R!C - 1 /\ wi \in 0 .. R!C - 1 /\ Filled \in 0 .. R!C
         /\ wi \in {ri + Filled, ri + Filled - R!C}
         /\ w.at \in {"fill", "sync"} => w.n \in 1 .. R!C /\ Filled + w.n <= R!C
         /\ r.at \in {"take", "sync"} => r.n \in 1 .. R!C /\ r.n <= Filled
<1>1. R!C \in Nat \ {0} /\ use.r \subseteq 1 .. R!C /\ use.w \subseteq 1 .. R!C
  BY Capacity DEF RingInv, RingTypes
<1> QED BY <1>1 DEF RingInv, RingTypes, Filled

\* What a step leaves as it is.
LEMMA HoldsStill ==
  ASSUME UNCHANGED <<use, mem, ri, wi>>, Filled' = Filled
  PROVE  \A b : /\ InRing(b)' <=> InRing(b)
                /\ Behind(b)' <=> Behind(b)
                /\ w' = w /\ wcm' = wcm => (InHand(b)' <=> InHand(b))
                /\ r' = r /\ rcm' = rcm => (Copied(b)' <=> Copied(b))
                /\ \A k : At(b, k)' = At(b, k)
  BY DEF InRing, Run, Behind, Repeat, InHand, Copied, At, Loc, R!Numbers, R!C

\* Where the next n bytes go, if there is room for them: behind the f bytes of the ring,
\* and nowhere else.
Gap(i, v, f, n) ==
  /\ R!C \in Nat \ {0} /\ i \in 0 .. R!C - 1 /\ v \in 0 .. R!C - 1 /\ v \in {i + f, i + f - R!C}
  /\ f \in 0 .. R!C /\ n \in 1 .. R!C /\ f + n <= R!C

LEMMA Apart ==
  ASSUME NEW i, NEW v, NEW f, NEW n, Gap(i, v, f, n)
  PROVE  /\ \A k \in 0 .. f - 1 : /\ Loc(i, k) \in 0 .. R!C - 1 /\ Loc(i, k) \in {i + k, i + k - R!C}
                                  /\ Loc(i, k) \notin v .. v + n - 1 /\ i + k \notin v .. v + n - 1
                                  /\ Loc(i, k) \notin 0 .. v + n - R!C - 1
         /\ \A k \in f .. f + n - 1 : Loc(i, k) = IF v + (k - f) < R!C THEN v + (k - f) ELSE v + (k - f) - R!C
         /\ v + n >= R!C => v = i + f
<1>1. ASSUME NEW k \in 0 .. f - 1
      PROVE  /\ Loc(i, k) \in 0 .. R!C - 1 /\ Loc(i, k) \in {i + k, i + k - R!C}
             /\ Loc(i, k) \notin v .. v + n - 1 /\ i + k \notin v .. v + n - 1
             /\ Loc(i, k) \notin 0 .. v + n - R!C - 1
  <2>1. CASE v = i + f
    BY <2>1 DEF Loc, Gap
  <2>2. CASE v = i + f - R!C
    BY <2>2 DEF Loc, Gap
  <2> QED BY <2>1, <2>2 DEF Gap
<1>2. ASSUME NEW k \in f .. f + n - 1
      PROVE  Loc(i, k) = IF v + (k - f) < R!C THEN v + (k - f) ELSE v + (k - f) - R!C
  BY DEF Loc, Gap
<1>3. v + n >= R!C => v = i + f
  BY DEF Gap
<1> QED BY <1>1, <1>2, <1>3

LEMMA ContentStart ==
  ASSUME R!RingsAssumption, \A u \in Uses : R!Suits(u), R!Init
  PROVE  ContentInv
<1>1. RingInv /\ R!C \in Nat \ {0} /\ use \in Uses
  BY RingStart, Capacity DEF R!Init
<1>2. /\ ri = 0 /\ wi = 0 /\ contex = 0 /\ w.at = "idle" /\ r.at = "idle"
      /\ wcm = <<>> /\ rcm = <<>> /\ overrun = FALSE /\ inOrder = TRUE /\ written = 0 /\ next = 0
      /\ mem = [a \in 0 .. 2 * R!C - 1 |-> R!Numbers]
  BY DEF R!Init
<1>3. Filled = 0
  BY <1>2 DEF Filled
<1>4. Asked
  BY <1>2 DEF Asked
<1>5. Aligned
  <2> SUFFICES ASSUME use.kind # "ccsrb" PROVE Aligned
    BY DEF Aligned
  <2>1. PICK n \in use.w, g \in 1 .. R!C :
          use.w = {n} /\ R!Multiple(R!C, g) /\ \A m \in use.r : R!Multiple(m, g) /\ m <= n + g
    BY <1>1 DEF R!Suits, R!C
  <2>2. R!Multiple(ri, g)
    BY <1>1, <1>2 DEF R!Multiple
  <2> QED BY <2>1, <2>2 DEF Aligned
<1>6. Holds(0)
  <2>1. At(0, 0) = 0
    BY <1>1, AtAt
  <2> QED BY <1>2, <1>3, <2>1 DEF Holds, Counted, InRing, Run, InHand, Behind, Repeat, Copied
<1> QED BY <1>1, <1>2, <1>4, <1>5, <1>6 DEF ContentInv

LEMMA WQueryHolds ==
  ASSUME R!RingsAssumption, ContentInv, RingInv', ~overrun, NEW n \in 1 .. R!C, R!WQuery(n)
  PROVE  ContentInv'
<1>1. /\ w.at = "idle" /\ w' = [at |-> "fill", n |-> n] /\ n \in use.w
      /\ UNCHANGED <<use, mem, ri, wi, contex, empty, r, rcm, written, next, inOrder, overrun>>
  BY DEF R!WQuery, R!idx, R!counts, R!stream
<1>2. R!C' = R!C /\ Filled' = Filled
  BY <1>1 DEF R!C, Filled
<1>3. PICK b \in 0 .. 2 * R!C : Holds(b)
  BY DEF ContentInv
<1>4. Holds(b)'
  BY <1>1, <1>2, <1>3, HoldsStill DEF Holds, Counted, InHand
<1>5. Asked' /\ Aligned'
  BY <1>1, <1>2 DEF ContentInv, Asked, Aligned, R!Multiple
<1> QED BY <1>1, <1>2, <1>4, <1>5 DEF ContentInv

LEMMA WFillHolds ==
  ASSUME R!RingsAssumption, ContentInv, RingInv', ~overrun, NEW m \in 1 .. R!C, R!WFill(m)
  PROVE  ContentInv'
<1>1. /\ w.at = "fill" /\ w' = [at |-> "sync", n |-> m] /\ m <= w.n /\ written' = R!Nth(written, m)
      /\ use.kind # "ccsrb" => m = w.n
      /\ UNCHANGED <<use, ri, wi, contex, empty, r, rcm, next, inOrder, overrun>>
  <2>1. w.n \in Nat
    BY DEF ContentInv, RingInv, RingTypes
  <2> QED BY <2>1 DEF R!WFill, R!idx, R!counts
<1>2. R!C' = R!C /\ Filled' = Filled
  BY <1>1 DEF R!C, Filled
<1>3. PICK b \in 0 .. 2 * R!C : Holds(b)
  BY DEF ContentInv
<1>4. /\ R!C \in Nat \ {0} /\ ri \in 0 .. R!C - 1 /\ wi \in 0 .. R!C - 1 /\ Filled \in 0 .. R!C
      /\ wi \in {ri + Filled, ri + Filled - R!C} /\ Filled + m <= R!C
  BY <1>1, RingFacts DEF ContentInv
<1>5. \A k \in 0 .. Filled - 1 : /\ Loc(ri, k) \in 0 .. R!C - 1 /\ ri + k \in 0 .. 2 * R!C - 1
                                  /\ Loc(ri, k) - wi \notin 0 .. m - 1 /\ ri + k - wi \notin 0 .. m - 1
  <2> SUFFICES ASSUME NEW k \in 0 .. Filled - 1
               PROVE  /\ Loc(ri, k) \in 0 .. R!C - 1 /\ ri + k \in 0 .. 2 * R!C - 1
                      /\ Loc(ri, k) - wi \notin 0 .. m - 1 /\ ri + k - wi \notin 0 .. m - 1
    OBVIOUS
  <2> DEFINE a == Loc(ri, k)
  <2>1. a \in 0 .. R!C - 1 /\ a \notin wi .. wi + m - 1 /\ ri + k \notin wi .. wi + m - 1
    <3>1. Gap(ri, wi, Filled, m)
      BY <1>4 DEF Gap
    <3> QED BY <3>1, Apart, Zenon
  <2> HIDE DEF a
  <2>2. a \in 0 .. R!C - 1 /\ ri + k \in 0 .. 2 * R!C - 1 /\ a - wi \notin 0 .. m - 1 /\ ri + k - wi \notin 0 .. m - 1
    BY <1>4, <2>1
  <2> QED BY <2>2 DEF a
<1>6. written = At(b, Filled) /\ \A j \in 0 .. m : R!Nth(written, j) = At(b, Filled + j)
  <2>1. written = At(b, Filled)
    BY <1>1, <1>3, <1>4 DEF Holds, Counted
  <2>2. ASSUME NEW j \in 0 .. m PROVE R!Nth(written, j) = At(b, Filled + j)
    <3>1. At(b, Filled) \in 0 .. 2 * R!C /\ At(At(b, Filled), j) = At(b, Filled + j)
      BY <1>4, AtAt
    <3> QED BY <1>4, <2>1, <3>1, NthIs
  <2> QED BY <2>1, <2>2
<1>7. mem = [a \in 0 .. 2 * R!C - 1 |-> mem[a]]
  BY DEF ContentInv, Asked
<1>8. InRing(b)' /\ InHand(b)' /\ Behind(b)' /\ mem' = [a \in 0 .. 2 * R!C - 1 |-> mem'[a]]
  <2>1. CASE wcm = <<>>
    <3>1. /\ mem' = [a \in 0 .. 2 * R!C - 1 |-> IF a - wi \in 0 .. m - 1 THEN R!Nth(written, a - wi) ELSE mem[a]]
          /\ wcm' = <<>>
      BY <1>7, <2>1 DEF R!WFill
    <3>2. \A k \in 0 .. Filled - 1 : mem'[Loc(ri, k)] = mem[Loc(ri, k)]
      BY <1>4, <1>5, <3>1
    <3>3. \A k \in 0 .. Filled - 1 : mem'[ri + k] = mem[ri + k]
      BY <1>4, <1>5, <3>1
    <3>4. \A k \in 0 .. m - 1 : mem'[wi + k] = At(b, Filled + k)
      BY <1>4, <1>6, <3>1
    <3>5. InRing(b)' /\ Behind(b)'
      BY <1>1, <1>2, <1>3, <3>2, <3>3 DEF Holds, InRing, Run, Behind, Repeat, Loc, At, R!Numbers
    <3>6. InHand(b)'
      BY <1>1, <1>2, <3>1, <3>4 DEF InHand, At, R!Numbers
    <3> QED BY <3>1, <3>5, <3>6
  <2>2. CASE wcm # <<>>
    <3>1. wcm' = [k \in DOMAIN wcm |-> IF k <= m THEN R!Nth(written, k - 1) ELSE wcm[k]] /\ mem' = mem
      BY <2>2 DEF R!WFill
    <3>2. PICK n \in w.n .. empty : wcm = [k \in 1 .. n |-> wcm[k]]
      BY <2>2 DEF ContentInv, RingInv, RingCopies
    <3>3. DOMAIN wcm = 1 .. n /\ n \in Int /\ n >= m
      BY <1>1, <1>4, <3>2 DEF ContentInv, RingInv, RingTypes
    <3>4. \A k \in 0 .. m - 1 : wcm'[k + 1] = At(b, Filled + k)
      BY <1>4, <1>6, <3>1, <3>3
    <3>5. wcm' # <<>>
      BY <1>4, <3>1, <3>3
    <3>6. InRing(b)' /\ Behind(b)'
      BY <1>1, <1>2, <1>3, <3>1, HoldsStill DEF Holds
    <3>7. InHand(b)'
      BY <1>1, <1>2, <3>4, <3>5 DEF InHand, At, R!Numbers
    <3> QED BY <1>7, <3>1, <3>6, <3>7
  <2> QED BY <2>1, <2>2
<1>9. Holds(b)'
  <2>1. Copied(b)'
    BY <1>1, <1>2, <1>3 DEF Holds, Copied, At, R!Numbers
  <2>2. Counted(b)'
    BY <1>1, <1>2, <1>3, <1>6 DEF Holds, Counted, At, R!Numbers
  <2> QED BY <1>8, <2>1, <2>2 DEF Holds
<1>10. Asked' /\ Aligned'
  <2>1. w.at # "idle" /\ use.kind # "ccsrb" => w.n \in use.w
    BY DEF ContentInv, Asked
  <2> QED BY <1>1, <1>2, <1>8, <2>1 DEF ContentInv, Asked, Aligned, R!Multiple
<1> QED BY <1>1, <1>2, <1>9, <1>10 DEF ContentInv

\* csrb, shrb: n bytes were stored at v, and write_sync repeats what its loops repeat.
MirrorOf(M, v, n) ==
  IF v + n < R!C
  THEN [a \in 0 .. 2 * R!C - 1 |-> IF a - R!C \in v .. n - 1 THEN M[a - R!C] ELSE M[a]]
  ELSE [a \in 0 .. 2 * R!C - 1 |->
          IF a - R!C \in v .. R!C - v - 1 THEN M[a - R!C]
          ELSE IF a \in 0 .. n - (R!C - v) - 1 THEN M[a + R!C] ELSE M[a]]

LEMMA MirrorRepeats ==
  ASSUME NEW i, NEW v, NEW f, NEW n, Gap(i, v, f, n), NEW b, NEW M,
         Run(M, i, f, b), Repeat(M, i, f, n, b), \A k \in f .. f + n - 1 : M[v + (k - f)] = At(b, k)
  PROVE  Run(MirrorOf(M, v, n), i, f + n, b) /\ Repeat(MirrorOf(M, v, n), i, f + n, n, b)
<1> DEFINE T == MirrorOf(M, v, n)
<1> USE DEF Gap
<1>1. /\ \A k \in 0 .. f - 1 : /\ Loc(i, k) \in 0 .. R!C - 1 /\ Loc(i, k) \in {i + k, i + k - R!C}
                               /\ Loc(i, k) \notin 0 .. v + n - R!C - 1
      /\ \A k \in f .. f + n - 1 : Loc(i, k) = IF v + (k - f) < R!C THEN v + (k - f) ELSE v + (k - f) - R!C
      /\ v + n >= R!C => v = i + f
  <2> HIDE DEF Gap
  <2> QED BY Apart
<1>2. CASE v + n < R!C
  <2>1. T = [a \in 0 .. 2 * R!C - 1 |-> IF a - R!C \in v .. n - 1 THEN M[a - R!C] ELSE M[a]]
    BY <1>2 DEF MirrorOf
  <2> HIDE DEF T
  <2>2. \A a \in 0 .. R!C - 1 : T[a] = M[a]
    BY <2>1
  <2>3. ASSUME NEW k \in 0 .. (f + n) - 1
        PROVE  T[Loc(i, k)] = At(b, k) /\ M[Loc(i, k)] = At(b, k) /\ Loc(i, k) \in 0 .. R!C - 1
    <3>1. CASE k \in 0 .. f - 1
      BY <1>1, <2>2, <3>1 DEF Run
    <3>2. CASE k \in f .. f + n - 1
      <4>1. Loc(i, k) = v + (k - f) /\ v + (k - f) \in 0 .. R!C - 1
        BY <1>1, <1>2, <3>2
      <4> QED BY <2>2, <3>2, <4>1
    <3> QED BY <3>1, <3>2
  <2>4. ASSUME NEW k \in 0 .. (f + n) - 1, i + k >= R!C, i + k - R!C < n
        PROVE  T[i + k] = At(b, k)
    <3>1. i + k \in 0 .. 2 * R!C - 1 /\ Loc(i, k) = i + k - R!C
      BY <2>4 DEF Loc
    <3>2. CASE i + k - R!C \in v .. n - 1
      <4>1. T[i + k] = M[i + k - R!C]
        BY <2>1, <3>1, <3>2
      <4> QED BY <2>3, <3>1, <4>1
    <3>3. CASE i + k - R!C \notin v .. n - 1
      <4>1. T[i + k] = M[i + k]
        BY <2>1, <3>1, <3>3
      <4>2. k \in 0 .. f - 1
        BY <1>2, <2>4, <3>3
      <4> QED BY <2>4, <4>1, <4>2 DEF Repeat
    <3> QED BY <3>2, <3>3
  <2>6. Run(T, i, f + n, b)
    BY ONLY <2>3 DEF Run
  <2>7. Repeat(T, i, f + n, n, b)
    BY ONLY <2>4 DEF Repeat
  <2> QED BY <2>6, <2>7 DEF T
<1>3. CASE ~(v + n < R!C)
  <2>1. T = [a \in 0 .. 2 * R!C - 1 |->
               IF a - R!C \in v .. R!C - v - 1 THEN M[a - R!C]
               ELSE IF a \in 0 .. n - (R!C - v) - 1 THEN M[a + R!C] ELSE M[a]]
    BY <1>3 DEF MirrorOf
  <2> HIDE DEF T
  <2>2. \A a \in 0 .. R!C - 1 : /\ a \in 0 .. v + n - R!C - 1 => T[a] = M[a + R!C]
                                /\ a \notin 0 .. v + n - R!C - 1 => T[a] = M[a]
    BY <2>1
  <2>3. v = i + f
    BY <1>1, <1>3
  <2>4. ASSUME NEW k \in 0 .. (f + n) - 1
        PROVE  T[Loc(i, k)] = At(b, k)
    <3>1. CASE k \in 0 .. f - 1
      BY <1>1, <2>2, <3>1 DEF Run
    <3>2. CASE k \in f .. f + n - 1
      <4>1. M[v + (k - f)] = At(b, k)
        BY <3>2
      <4>2. CASE v + (k - f) < R!C
        <5>1. Loc(i, k) = v + (k - f) /\ v + (k - f) \in 0 .. R!C - 1 /\ v + (k - f) \notin 0 .. v + n - R!C - 1
          BY <1>1, <3>2, <4>2
        <5> QED BY <2>2, <4>1, <5>1
      <4>3. CASE ~(v + (k - f) < R!C)
        <5> DEFINE a == v + (k - f) - R!C
        <5>1. Loc(i, k) = a /\ a \in 0 .. R!C - 1 /\ a \in 0 .. v + n - R!C - 1 /\ a + R!C = v + (k - f)
          BY <1>1, <3>2, <4>3
        <5> HIDE DEF a
        <5> QED BY <2>2, <4>1, <5>1
      <4> QED BY <4>2, <4>3
    <3> QED BY <3>1, <3>2
  <2>5. ASSUME NEW k \in 0 .. (f + n) - 1, i + k >= R!C, i + k - R!C < n
        PROVE  T[i + k] = At(b, k)
    <3>1. i + k \in R!C .. 2 * R!C - 1 /\ k \in f .. f + n - 1 /\ i + k = v + (k - f) /\ i + k - R!C < v
      BY <2>3, <2>5
    <3>2. T[i + k] = M[i + k]
      BY <2>1, <3>1
    <3>3. M[v + (k - f)] = At(b, k)
      BY <3>1
    <3> QED BY <3>1, <3>2, <3>3
  <2>7. Run(T, i, f + n, b)
    BY ONLY <2>4 DEF Run
  <2>8. Repeat(T, i, f + n, n, b)
    BY ONLY <2>5 DEF Repeat
  <2> QED BY <2>7, <2>8 DEF T
<1> QED BY <1>2, <1>3

LEMMA WSyncHolds ==
  ASSUME R!RingsAssumption, ContentInv, RingInv', ~overrun, R!WSyncCsrb \/ R!WMirrorShrb
  PROVE  ContentInv'
<1>1. /\ w.at = "sync" /\ mem' = R!Mirror(w.n) /\ use.kind # "ccsrb"
      /\ w'.at \in {"idle", "count"} /\ w'.n = w.n
      /\ UNCHANGED <<use, ri, r, wcm, rcm, written, next, inOrder, overrun>>
      /\ \/ w'.at = "idle" /\ contex' = contex + w.n
         \/ w'.at = "count" /\ contex' = contex
  BY DEF R!WSyncCsrb, R!WMirrorShrb, R!WCount, R!WDone, R!copies, R!stream, R!counts, ContentInv, RingInv, RingTypes
<1>2. /\ R!C \in Nat \ {0} /\ ri \in 0 .. R!C - 1 /\ wi \in 0 .. R!C - 1 /\ Filled \in 0 .. R!C
      /\ wi \in {ri + Filled, ri + Filled - R!C} /\ w.n \in 1 .. R!C /\ Filled + w.n <= R!C
  BY <1>1, RingFacts DEF ContentInv
<1>3. R!C' = R!C /\ Filled' = Filled + w.n
  <2>1. contex \in Int /\ w.n \in Int /\ (r.at = "count" => r.n \in Int)
    BY <1>2 DEF ContentInv, RingInv, RingTypes
  <2> QED BY <1>1, <2>1 DEF R!C, Filled
<1>4. PICK b \in 0 .. 2 * R!C : Holds(b)
  BY DEF ContentInv
<1>5. use.w = {w.n}
  BY <1>1 DEF ContentInv, Asked, Aligned
<1>6. mem = [a \in 0 .. 2 * R!C - 1 |-> mem[a]] /\ wcm = <<>>
  BY <1>1 DEF ContentInv, Asked, RingInv, RingCopies
<1>7. Run(mem, ri, Filled, b) /\ Repeat(mem, ri, Filled, w.n, b)
  BY <1>1, <1>4, <1>5 DEF Holds, InRing, Behind
<1>8. \A k \in Filled .. Filled + w.n - 1 : mem[wi + (k - Filled)] = At(b, k)
  <2>1. \A j \in 0 .. w.n - 1 : mem[wi + j] = At(b, Filled + j)
    BY <1>1, <1>4, <1>6 DEF Holds, InHand
  <2>2. ASSUME NEW k \in Filled .. Filled + w.n - 1 PROVE mem[wi + (k - Filled)] = At(b, k)
    <3>1. k - Filled \in 0 .. w.n - 1 /\ Filled + (k - Filled) = k
      BY <1>2
    <3>2. mem[wi + (k - Filled)] = At(b, Filled + (k - Filled))
      BY <2>1, <3>1
    <3> QED BY <3>1, <3>2
  <2> QED BY <2>2
<1>9. /\ mem' = [a \in 0 .. 2 * R!C - 1 |-> mem'[a]]
      /\ Run(mem', ri, Filled + w.n, b) /\ Repeat(mem', ri, Filled + w.n, w.n, b)
  <2>1. mem' = MirrorOf(mem, wi, w.n)
    <3>1. DOMAIN mem = 0 .. 2 * R!C - 1
      BY <1>6
    <3>2. wi + w.n >= R!C <=> ~(wi + w.n < R!C)
      BY <1>2
    <3> QED BY <1>1, <3>1, <3>2 DEF R!Mirror, R!Wraps, MirrorOf
  <2>2. Gap(ri, wi, Filled, w.n)
    BY <1>2 DEF Gap
  <2>3. Run(mem', ri, Filled + w.n, b) /\ Repeat(mem', ri, Filled + w.n, w.n, b)
    BY <1>7, <1>8, <2>1, <2>2, MirrorRepeats
  <2>4. mem' = [a \in 0 .. 2 * R!C - 1 |-> mem'[a]]
    BY <2>1 DEF MirrorOf
  <2> QED BY <2>3, <2>4
<1>10. InRing(b)' /\ Behind(b)' /\ InHand(b)' /\ Copied(b)' /\ Counted(b)'
  <2>1. InRing(b)'
    BY <1>1, <1>3, <1>9 DEF InRing, Run, Loc, At, R!Numbers
  <2>2. Behind(b)'
    BY <1>1, <1>3, <1>5, <1>9 DEF Behind, Repeat, At, R!Numbers
  <2>3. InHand(b)'
    BY <1>1, <1>2, <1>3, <1>4, SMTT(30) DEF Holds, InHand, At, R!Numbers
  <2>4. Copied(b)' /\ Counted(b)'
    BY <1>1, <1>2, <1>3, <1>4, SMTT(30) DEF Holds, Copied, Counted, At, R!Numbers
  <2> QED BY <2>1, <2>2, <2>3, <2>4
<1>11. Asked' /\ Aligned'
  BY <1>1, <1>3, <1>9 DEF ContentInv, Asked, Aligned, R!Multiple
<1> QED BY <1>1, <1>3, <1>10, <1>11 DEF ContentInv, Holds

LEMMA WCountHolds ==
  ASSUME R!RingsAssumption, ContentInv, RingInv', ~overrun, R!WCountShrb
  PROVE  ContentInv'
<1>1. /\ w.at = "count" /\ w' = [w EXCEPT !.at = "idle"] /\ contex' = contex + w.n
      /\ UNCHANGED <<use, mem, ri, wi, r, wcm, rcm, written, next, inOrder, overrun>>
  BY DEF R!WCountShrb, R!WCount, R!WDone, R!copies, R!stream, R!idx
<1>2. R!C' = R!C /\ Filled' = Filled /\ w'.at = "idle"
  BY <1>1, RingFacts DEF R!C, Filled, ContentInv, RingInv, RingTypes
<1>3. PICK b \in 0 .. 2 * R!C : Holds(b)
  BY DEF ContentInv
<1>4. Holds(b)'
  BY <1>1, <1>2, <1>3, HoldsStill DEF Holds, Counted, InHand
<1>5. Asked' /\ Aligned'
  BY <1>1, <1>2 DEF ContentInv, Asked, Aligned, R!Multiple
<1> QED BY <1>1, <1>2, <1>4, <1>5 DEF ContentInv

\* ccsrb: n bytes were stored at v, or in a temporary copy W that write_sync cuts in two.
CopyOf(W, M, v, n) ==
  [a \in 0 .. 2 * R!C - 1 |->
     IF a \in v .. R!C - 1 THEN W[a - v + 1]
     ELSE IF a \in 0 .. n - (R!C - v) - 1 THEN W[R!C - v + a + 1] ELSE M[a]]

LEMMA CopyStores ==
  ASSUME NEW i, NEW v, NEW f, NEW n, Gap(i, v, f, n), NEW b, NEW M, NEW W, Run(M, i, f, b)
  PROVE  /\ v + n < R!C /\ (\A k \in f .. f + n - 1 : M[v + (k - f)] = At(b, k)) => Run(M, i, f + n, b)
         /\ n >= R!C - v /\ (\A k \in f .. f + n - 1 : W[(k - f) + 1] = At(b, k))
              => Run(CopyOf(W, M, v, n), i, f + n, b)
<1>1. /\ \A k \in 0 .. f - 1 : /\ Loc(i, k) \in 0 .. R!C - 1
                               /\ Loc(i, k) \notin v .. v + n - 1
                               /\ Loc(i, k) \notin 0 .. v + n - R!C - 1
      /\ \A k \in f .. f + n - 1 : Loc(i, k) = IF v + (k - f) < R!C THEN v + (k - f) ELSE v + (k - f) - R!C
  BY Apart
<1>2. R!C \in Nat \ {0} /\ v \in 0 .. R!C - 1 /\ f \in 0 .. R!C /\ n \in 1 .. R!C
  BY DEF Gap
<1>3. \A k \in 0 .. (f + n) - 1 : k \in 0 .. f - 1 \/ k \in f .. f + n - 1
  BY ONLY <1>2
<1>4. ASSUME v + n < R!C, \A k \in f .. f + n - 1 : M[v + (k - f)] = At(b, k)
      PROVE  Run(M, i, f + n, b)
  <2>1. \A k \in 0 .. f - 1 : M[Loc(i, k)] = At(b, k)
    BY DEF Run
  <2>2. ASSUME NEW k \in f .. f + n - 1 PROVE M[Loc(i, k)] = At(b, k)
    <3>1. v + (k - f) < R!C
      BY ONLY <1>2, <1>4, k \in f .. f + n - 1
    <3>2. Loc(i, k) = v + (k - f)
      BY <1>1, <3>1, Zenon
    <3> QED BY <1>4, <3>2
  <2>3. \A k \in 0 .. (f + n) - 1 : M[Loc(i, k)] = At(b, k)
    BY ONLY <1>3, <2>1, <2>2
  <2> QED BY ONLY <2>3 DEF Run
<1>5. ASSUME n >= R!C - v, \A k \in f .. f + n - 1 : W[(k - f) + 1] = At(b, k)
      PROVE  Run(CopyOf(W, M, v, n), i, f + n, b)
  <2> DEFINE T == CopyOf(W, M, v, n)
  <2>1. T = [a \in 0 .. 2 * R!C - 1 |->
               IF a \in v .. R!C - 1 THEN W[a - v + 1]
               ELSE IF a \in 0 .. n - (R!C - v) - 1 THEN W[R!C - v + a + 1] ELSE M[a]]
    BY DEF CopyOf
  <2> HIDE DEF T
  <2>2. ASSUME NEW k \in 0 .. f - 1 PROVE T[Loc(i, k)] = At(b, k)
    <3> DEFINE a == Loc(i, k)
    <3>1. a \in 0 .. R!C - 1 /\ a \notin v .. v + n - 1 /\ a \notin 0 .. v + n - R!C - 1
      BY <1>1, Zenon
    <3>2. M[a] = At(b, k)
      BY DEF Run
    <3> HIDE DEF a
    <3>3. a \in 0 .. 2 * R!C - 1 /\ a \notin v .. R!C - 1 /\ a \notin 0 .. n - (R!C - v) - 1
      BY ONLY <1>2, <1>5, <3>1
    <3>4. T[a] = M[a]
      BY ONLY <2>1, <3>3
    <3> QED BY ONLY <3>2, <3>4 DEF a
  <2>3. ASSUME NEW k \in f .. f + n - 1 PROVE T[Loc(i, k)] = At(b, k)
    <3>1. W[(k - f) + 1] = At(b, k) /\ k \in f .. f + n - 1
      BY <1>5
    <3>2. CASE v + (k - f) < R!C
      <4> DEFINE a == v + (k - f)
      <4>1. Loc(i, k) = a
        BY <1>1, <3>2, Zenon
      <4>2. a \in v .. R!C - 1 /\ a - v + 1 = (k - f) + 1 /\ a \in 0 .. 2 * R!C - 1
        BY ONLY <1>2, <3>1, <3>2
      <4> HIDE DEF a
      <4>3. T[a] = W[a - v + 1]
        BY ONLY <2>1, <4>2
      <4> QED BY ONLY <3>1, <4>1, <4>2, <4>3
    <3>3. CASE ~(v + (k - f) < R!C)
      <4> DEFINE a == v + (k - f) - R!C
      <4>1. Loc(i, k) = a
        BY <1>1, <3>3, Zenon
      <4>2. /\ a \in 0 .. n - (R!C - v) - 1 /\ R!C - v + a + 1 = (k - f) + 1 /\ a \notin v .. R!C - 1
            /\ a \in 0 .. 2 * R!C - 1
        BY ONLY <1>2, <3>1, <3>3
      <4> HIDE DEF a
      <4>3. T[a] = W[R!C - v + a + 1]
        BY ONLY <2>1, <4>2
      <4> QED BY ONLY <3>1, <4>1, <4>2, <4>3
    <3> QED BY <3>2, <3>3
  <2>4. \A k \in 0 .. (f + n) - 1 : T[Loc(i, k)] = At(b, k)
    BY ONLY <1>3, <2>2, <2>3
  <2>5. Run(T, i, f + n, b)
    BY ONLY <2>4 DEF Run
  <2> QED BY <2>5 DEF T
<1> QED BY <1>4, <1>5

LEMMA WSyncCcsrbHolds ==
  ASSUME R!RingsAssumption, ContentInv, RingInv', ~overrun, R!WSyncCcsrb
  PROVE  ContentInv'
<1>1. /\ w.at = "sync" /\ use.kind = "ccsrb" /\ w'.at = "idle" /\ contex' = contex + w.n /\ wcm' = <<>>
      /\ UNCHANGED <<use, ri, r, rcm, written, next, inOrder>>
  BY DEF R!WSyncCcsrb, R!WCount, R!WDone, ContentInv, RingInv, RingTypes
<1> SUFFICES ASSUME ~overrun' PROVE ContentInv'
  BY <1>1 DEF ContentInv
<1>2. /\ R!C \in Nat \ {0} /\ ri \in 0 .. R!C - 1 /\ wi \in 0 .. R!C - 1 /\ Filled \in 0 .. R!C
      /\ wi \in {ri + Filled, ri + Filled - R!C} /\ w.n \in 1 .. R!C /\ Filled + w.n <= R!C
  BY <1>1, RingFacts DEF ContentInv
<1>3. R!C' = R!C /\ Filled' = Filled + w.n
  <2>1. contex \in Int /\ w.n \in Int /\ r.at # "count"
    BY <1>1, <1>2 DEF ContentInv, RingInv, RingTypes
  <2> QED BY <1>1, <2>1 DEF R!C, Filled
<1>4. PICK b \in 0 .. 2 * R!C : Holds(b)
  BY DEF ContentInv
<1>5. mem = [a \in 0 .. 2 * R!C - 1 |-> mem[a]]
  BY DEF ContentInv, Asked
<1>6. Run(mem, ri, Filled, b)
  BY <1>4 DEF Holds, InRing
<1>7. \A k \in Filled .. Filled + w.n - 1 :
        (IF wcm = <<>> THEN mem[wi + (k - Filled)] ELSE wcm[(k - Filled) + 1]) = At(b, k)
  <2>1. \A j \in 0 .. w.n - 1 : (IF wcm = <<>> THEN mem[wi + j] ELSE wcm[j + 1]) = At(b, Filled + j)
    BY <1>1, <1>4 DEF Holds, InHand
  <2>2. ASSUME NEW k \in Filled .. Filled + w.n - 1
        PROVE  (IF wcm = <<>> THEN mem[wi + (k - Filled)] ELSE wcm[(k - Filled) + 1]) = At(b, k)
    <3>1. k - Filled \in 0 .. w.n - 1 /\ Filled + (k - Filled) = k
      BY <1>2
    <3>2. (IF wcm = <<>> THEN mem[wi + (k - Filled)] ELSE wcm[(k - Filled) + 1]) = At(b, Filled + (k - Filled))
      BY <2>1, <3>1
    <3> QED BY <3>1, <3>2
  <2> QED BY <2>2
<1>8. mem' = [a \in 0 .. 2 * R!C - 1 |-> mem'[a]] /\ Run(mem', ri, Filled + w.n, b)
  <2>1. wcm = <<>> => wi + w.n < R!C /\ mem' = mem
    BY <1>1 DEF ContentInv, RingInv, RingCopies, R!WSyncCcsrb
  <2>2. ASSUME wcm # <<>> PROVE w.n >= R!C - wi /\ mem' = CopyOf(wcm, mem, wi, w.n)
    <3>1. overrun' = (w.n < R!C - wi)
      BY <2>2 DEF R!WSyncCcsrb
    <3>2. ~(w.n < R!C - wi)
      BY <3>1, Zenon
    <3>3. DOMAIN mem = 0 .. 2 * R!C - 1
      BY <1>5
    <3>4. mem' = CopyOf(wcm, mem, wi, w.n)
      BY <2>2, <3>3 DEF R!WSyncCcsrb, CopyOf
    <3> QED BY <1>2, <3>2, <3>4
  <2>3. Gap(ri, wi, Filled, w.n)
    BY <1>2 DEF Gap
  <2>4. CASE wcm = <<>>
    <3>1. \A k \in Filled .. Filled + w.n - 1 : mem[wi + (k - Filled)] = At(b, k)
      BY <1>7, <2>4
    <3>2. Run(mem, ri, Filled + w.n, b)
      BY <1>6, <2>1, <2>3, <2>4, <3>1, CopyStores
    <3> QED BY <1>5, <2>1, <2>4, <3>2
  <2>5. CASE wcm # <<>>
    <3>1. \A k \in Filled .. Filled + w.n - 1 : wcm[(k - Filled) + 1] = At(b, k)
      BY <1>7, <2>5
    <3>2. Run(CopyOf(wcm, mem, wi, w.n), ri, Filled + w.n, b)
      BY <1>6, <2>2, <2>3, <2>5, <3>1, CopyStores
    <3>3. CopyOf(wcm, mem, wi, w.n) = [a \in 0 .. 2 * R!C - 1 |-> CopyOf(wcm, mem, wi, w.n)[a]]
      BY DEF CopyOf
    <3> QED BY <2>2, <2>5, <3>2, <3>3
  <2> QED BY <2>4, <2>5
<1>9. Holds(b)'
  <2>2. InRing(b)'
    BY <1>1, <1>3, <1>8 DEF InRing, Run, Loc, At, R!Numbers
  <2>3. Behind(b)' /\ InHand(b)' /\ Copied(b)' /\ Counted(b)'
    BY <1>1, <1>2, <1>3, <1>4 DEF Holds, Behind, InHand, Copied, Counted, At, R!Numbers
  <2> QED BY <2>2, <2>3 DEF Holds
<1>10. Asked' /\ Aligned'
  BY <1>1, <1>3, <1>8 DEF ContentInv, Asked, Aligned, R!Multiple
<1> QED BY <1>1, <1>3, <1>9, <1>10 DEF ContentInv

LEMMA RQueryHolds ==
  ASSUME R!RingsAssumption, ContentInv, RingInv', ~overrun, NEW n \in 1 .. R!C, R!RQuery(n)
  PROVE  ContentInv'
<1>1. /\ r.at = "idle" /\ r' = [at |-> "take", n |-> n] /\ n \in use.r /\ n <= contex
      /\ UNCHANGED <<use, mem, ri, wi, contex, w, wcm, written, next, inOrder, overrun>>
  BY DEF R!RQuery, R!idx, R!counts, R!stream
<1>2. R!C' = R!C /\ Filled' = Filled
  BY <1>1 DEF R!C, Filled
<1>3. R!C \in Nat \ {0} /\ ri \in 0 .. R!C - 1 /\ n <= Filled /\ Filled \in 0 .. R!C
  <2>1. contex \in Int /\ (w.at = "count" => w.n \in Nat)
    BY DEF ContentInv, RingInv, RingTypes
  <2> QED BY <1>1, <2>1, RingFacts DEF ContentInv, Filled
<1>4. PICK b \in 0 .. 2 * R!C : Holds(b)
  BY DEF ContentInv
<1>5. CASE use.kind = "ccsrb" /\ R!Wraps(ri, n)
  <2>1. rcm' = [k \in 1 .. n |-> mem[(ri + k - 1) % R!C]]
    BY <1>5 DEF R!RQuery
  <2>2. ASSUME NEW k \in 1 .. n PROVE rcm'[k] = At(b, k - 1)
    <3>1. (ri + k - 1) % R!C = Loc(ri, k - 1)
      <4>1. CASE ri + (k - 1) < R!C
        BY <1>3, <4>1 DEF Loc
      <4>2. CASE ~(ri + (k - 1) < R!C)
        <5>1. PICK y \in 0 .. R!C - 1 : ri + k - 1 = R!C + y
          BY <1>3, <4>2
        <5>2. (R!C + y) % R!C = y
          BY <1>3
        <5> QED BY <1>3, <4>2, <5>1, <5>2 DEF Loc
      <4> QED BY <4>1, <4>2
    <3>2. k - 1 \in 0 .. Filled - 1
      BY <1>3
    <3>3. mem[Loc(ri, k - 1)] = At(b, k - 1)
      BY <1>4, <3>2 DEF Holds, InRing, Run
    <3> QED BY <2>1, <3>1, <3>3
  <2>3. Copied(b)'
    BY <1>1, <1>2, <2>2 DEF Copied, At, R!Numbers
  <2>4. Holds(b)'
    BY <1>1, <1>2, <1>4, <2>3, HoldsStill DEF Holds, Counted, InHand
  <2>5. rcm' # <<>>
    BY <1>3, <2>1
  <2>6. Asked' /\ Aligned'
    BY <1>1, <1>2, <2>5 DEF ContentInv, Asked, Aligned, R!Multiple
  <2> QED BY <1>1, <1>2, <2>4, <2>6 DEF ContentInv
<1>6. CASE ~(use.kind = "ccsrb" /\ R!Wraps(ri, n))
  <2>1. rcm' = <<>>
    BY <1>6 DEF R!RQuery
  <2>2. use.kind = "ccsrb" => ri + n < R!C
    BY <1>3, <1>6 DEF R!Wraps
  <2>3. Holds(b)'
    BY <1>1, <1>2, <1>4, <2>1, HoldsStill DEF Holds, Counted, InHand, Copied
  <2>4. Asked' /\ Aligned'
    BY <1>1, <1>2, <2>1, <2>2 DEF ContentInv, Asked, Aligned, R!Multiple
  <2> QED BY <1>1, <1>2, <2>3, <2>4 DEF ContentInv
<1> QED BY <1>5, <1>6

\* Every byte that the reader takes is the next one of the stream: what it reads beyond
\* the end was repeated there, because reads begin at multiples of g.
LEMMA RTakeHolds ==
  ASSUME R!RingsAssumption, ContentInv, RingInv', ~overrun, R!RTake
  PROVE  ContentInv'
<1>1. /\ r.at = "take" /\ r'.at = "sync" /\ r'.n = r.n /\ next' = R!Nth(next, r.n)
      /\ UNCHANGED <<use, mem, ri, wi, contex, w, wcm, rcm, written, overrun>>
  BY DEF R!RTake, R!idx, R!counts, R!copies, ContentInv, RingInv, RingTypes
<1>2. R!C' = R!C /\ Filled' = Filled
  BY <1>1 DEF R!C, Filled
<1>3. /\ R!C \in Nat \ {0} /\ ri \in 0 .. R!C - 1 /\ r.n <= Filled /\ Filled \in 0 .. R!C /\ r.n \in 1 .. R!C
      /\ use.r \subseteq 1 .. R!C /\ use.w \subseteq 1 .. R!C /\ r.n \in use.r
  BY <1>1, RingFacts DEF ContentInv, Asked
<1>4. PICK b \in 0 .. 2 * R!C : Holds(b)
  BY DEF ContentInv
<1>5. next = b /\ \A k \in 0 .. r.n : R!Nth(next, k) = At(b, k)
  <2>1. next = b
    BY <1>1, <1>3, <1>4, AtAt DEF Holds, Counted
  <2>2. \A k \in 0 .. r.n : k \in 0 .. 2 * R!C
    BY <1>3
  <2> QED BY <1>3, <2>1, <2>2, NthIs
<1>6. ASSUME NEW k \in 0 .. r.n - 1
      PROVE  (IF rcm = <<>> THEN mem[ri + k] ELSE rcm[k + 1]) = At(b, k)
  <2>1. CASE rcm # <<>>
    <3>1. k + 1 \in 1 .. r.n /\ (k + 1) - 1 = k
      BY <1>3
    <3>2. rcm[k + 1] = At(b, (k + 1) - 1)
      BY <1>4, <2>1, <3>1 DEF Holds, Copied
    <3> QED BY <2>1, <3>1, <3>2
  <2>2. CASE rcm = <<>>
    <3>1. k \in 0 .. Filled - 1 /\ ri + k < ri + r.n
      BY <1>3
    <3>2. CASE ri + k < R!C
      <4>1. mem[Loc(ri, k)] = At(b, k)
        BY <1>4, <3>1 DEF Holds, InRing, Run
      <4> QED BY <2>2, <3>2, <4>1 DEF Loc
    <3>3. CASE ~(ri + k < R!C)
      <4>1. use.kind # "ccsrb"
        <5>1. use.kind = "ccsrb" => ri + r.n < R!C
          BY <1>1, <2>2 DEF ContentInv, Asked
        <5> QED BY <1>3, <3>1, <3>3, <5>1
      <4>2. PICK n \in use.w : TRUE
        BY <4>1 DEF ContentInv, Aligned
      <4>3. ri + r.n <= R!C + n
        BY <1>3, <4>1, ReadsReach DEF ContentInv
      <4>4. ri + k >= R!C /\ ri + k - R!C < n
        BY <1>3, <3>1, <3>3, <4>3
      <4>5. mem[ri + k] = At(b, k)
        BY <1>4, <3>1, <4>1, <4>4 DEF Holds, Behind, Repeat
      <4> QED BY <2>2, <4>5
    <3> QED BY <3>2, <3>3
  <2> QED BY <2>1, <2>2
<1>7. inOrder' = TRUE
  <2>1. \A k \in 0 .. r.n - 1 : (IF rcm = <<>> THEN mem[ri + k] ELSE rcm[k + 1]) = R!Nth(next, k)
    BY <1>3, <1>5, <1>6
  <2>2. inOrder' = (inOrder /\ \A k \in 0 .. r.n - 1 :
                                 (IF rcm = <<>> THEN mem[ri + k] ELSE rcm[k + 1]) = R!Nth(next, k))
    BY DEF R!RTake
  <2>3. inOrder = TRUE
    BY DEF ContentInv
  <2> QED BY <2>1, <2>2, <2>3, Zenon
<1>8. Holds(b)'
  <2>1. next' = At(b, r.n)
    BY <1>1, <1>3, <1>5
  <2>2. Counted(b)'
    BY <1>1, <1>2, <1>4, <2>1 DEF Holds, Counted, At, R!Numbers
  <2>3. Copied(b)'
    BY <1>1, <1>2, <1>4 DEF Holds, Copied, At, R!Numbers
  <2> QED BY <1>1, <1>2, <1>4, <2>2, <2>3, HoldsStill DEF Holds
<1>9. Asked' /\ Aligned'
  BY <1>1, <1>2 DEF ContentInv, Asked, Aligned, R!Multiple
<1> QED BY <1>1, <1>2, <1>7, <1>8, <1>9 DEF ContentInv

\* The reader goes on by n: byte n is the first one now.
LEMMA RunsGoOn ==
  ASSUME R!C \in Nat \ {0}, NEW i \in 0 .. R!C - 1, NEW f \in 0 .. R!C, NEW n \in 1 .. R!C, n <= f,
         NEW j \in 0 .. R!C - 1, j \in {i + n, i + n - R!C}, NEW b \in 0 .. 2 * R!C, NEW M
  PROVE  /\ Run(M, i, f, b) => Run(M, j, f - n, At(b, n))
         /\ \A m : Repeat(M, i, f, m, b) => Repeat(M, j, f - n, m, At(b, n))
<1>1. \A k \in 0 .. (f - n) - 1 : n + k \in 0 .. f - 1 /\ At(At(b, n), k) = At(b, n + k)
  BY AtAt
<1>2. \A k \in 0 .. (f - n) - 1 : Loc(j, k) = Loc(i, n + k)
  BY DEF Loc
<1>3. \A k \in 0 .. (f - n) - 1 : j + k >= R!C => j + k = i + (n + k)
  OBVIOUS
<1>4. ASSUME Run(M, i, f, b) PROVE Run(M, j, f - n, At(b, n))
  <2> SUFFICES ASSUME NEW k \in 0 .. (f - n) - 1 PROVE M[Loc(j, k)] = At(At(b, n), k)
    BY Zenon DEF Run
  <2>1. M[Loc(i, n + k)] = At(b, n + k)
    BY <1>1, <1>4 DEF Run
  <2> QED BY <1>1, <1>2, <2>1
<1>5. ASSUME NEW m, Repeat(M, i, f, m, b) PROVE Repeat(M, j, f - n, m, At(b, n))
  <2> SUFFICES ASSUME NEW k \in 0 .. (f - n) - 1, j + k >= R!C, j + k - R!C < m
               PROVE  M[j + k] = At(At(b, n), k)
    BY Zenon DEF Repeat
  <2>1. j + k = i + (n + k)
    BY <1>3
  <2>2. M[i + (n + k)] = At(b, n + k)
    BY <1>1, <1>5, <2>1 DEF Repeat
  <2> QED BY <1>1, <2>1, <2>2
<1> QED BY <1>4, <1>5

LEMMA RSyncHolds ==
  ASSUME R!RingsAssumption, ContentInv, RingInv', ~overrun, R!RSync \/ R!RAdvanceShrb
  PROVE  ContentInv'
<1>1. /\ r.at = "sync" /\ ri' = R!Around(ri, r.n) /\ r'.at \in {"idle", "count"} /\ r'.n = r.n
      /\ UNCHANGED <<use, mem, wi, w, wcm, written, next, inOrder, overrun>>
      /\ \/ r'.at = "idle" /\ contex' = contex - r.n
         \/ r'.at = "count" /\ contex' = contex /\ use.kind = "shrb"
  BY DEF R!RSync, R!RAdvanceShrb, R!RCount, R!RDone, R!copies, R!stream, R!counts, ContentInv, RingInv, RingTypes
<1>2. /\ R!C \in Nat \ {0} /\ ri \in 0 .. R!C - 1 /\ r.n <= Filled /\ Filled \in 0 .. R!C /\ r.n \in 1 .. R!C
      /\ use.r \subseteq 1 .. R!C /\ r.n \in use.r
      /\ w.at = "sync" => w.n \in 1 .. R!C /\ Filled + w.n <= R!C
  BY <1>1, RingFacts DEF ContentInv, Asked
<1>3. ri' \in 0 .. R!C - 1 /\ ri' \in {ri + r.n, ri + r.n - R!C}
  <2>1. r.n \in 0 .. R!C
    BY <1>2
  <2> QED BY <1>1, <1>2, <2>1, GoesAround
<1>4. R!C' = R!C /\ Filled' = Filled - r.n
  <2>1. contex \in Int /\ (w.at = "count" => w.n \in Int)
    BY <1>2 DEF ContentInv, RingInv, RingTypes
  <2> QED BY <1>1, <1>2, <2>1 DEF R!C, Filled
<1>5. rcm' = <<>>
  BY DEF R!RSync, R!RAdvanceShrb, R!copies, ContentInv, RingInv, RingCopies
<1>6. PICK b \in 0 .. 2 * R!C : Holds(b)
  BY DEF ContentInv
<1>7. PICK c \in 0 .. 2 * R!C : c = At(b, r.n) /\ c = At(c, 0)
  <2>1. At(b, r.n) \in 0 .. 2 * R!C
    BY <1>2, AtAt
  <2>2. At(At(b, r.n), 0) = At(b, r.n)
    BY <1>2, <2>1 DEF At, R!Numbers
  <2> QED BY <2>1, <2>2
<1>8. \A k \in 0 .. R!C - r.n : At(c, k) = At(b, r.n + k)
  BY <1>2, <1>7, AtAt
<1>9. \A k : At(c, k)' = At(c, k)
  BY <1>4 DEF At, R!Numbers
<1>10. InRing(c)' /\ Behind(c)'
  <2>1. Run(mem, ri', Filled - r.n, c)
    BY <1>2, <1>3, <1>6, <1>7, RunsGoOn DEF Holds, InRing
  <2>2. use.kind # "ccsrb" => \A n \in use.w : Repeat(mem, ri', Filled - r.n, n, c)
    BY <1>2, <1>3, <1>6, <1>7, RunsGoOn DEF Holds, Behind
  <2>3. InRing(c)'
    BY <1>1, <1>4, <1>9, <2>1 DEF InRing, Run, Loc
  <2>4. Behind(c)'
    BY <1>1, <1>4, <1>9, <2>2 DEF Behind, Repeat
  <2> QED BY <2>3, <2>4
<1>11. InHand(c)'
  <2> SUFFICES ASSUME w.at = "sync", NEW k \in 0 .. w.n - 1
               PROVE  (IF wcm = <<>> THEN mem[wi + k] ELSE wcm[k + 1]) = At(c, Filled - r.n + k)
    BY <1>1, <1>4, <1>9 DEF InHand
  <2>1. Filled - r.n + k \in 0 .. R!C - r.n /\ r.n + (Filled - r.n + k) = Filled + k
    BY <1>2
  <2>2. At(c, Filled - r.n + k) = At(b, Filled + k)
    BY <1>8, <2>1
  <2> QED BY <1>6, <2>2 DEF Holds, InHand
<1>12. Counted(c)'
  <2>1. next' = At(c, 0)
    BY <1>1, <1>6, <1>7 DEF Holds, Counted
  <2> DEFINE x == IF w.at = "sync" THEN w.n ELSE 0
  <2>2. Filled - r.n + x \in 0 .. R!C - r.n /\ r.n + (Filled - r.n + x) = Filled + x
    BY <1>2
  <2>3. written = At(b, Filled + x)
    BY <1>6 DEF Holds, Counted
  <2>4. written' = At(c, Filled - r.n + x)
    BY <1>1, <1>8, <2>2, <2>3
  <2> QED BY <1>1, <1>4, <1>9, <2>1, <2>4 DEF Counted
<1>13. Holds(c)'
  BY <1>5, <1>10, <1>11, <1>12 DEF Holds, Copied
<1>14. Asked' /\ Aligned'
  <2>1. use.r \subseteq Nat
    BY <1>2
  <2>2. Aligned'
    BY <1>1, <1>2, <1>3, <2>1, ReadsAlign DEF ContentInv
  <2>3. Asked'
    BY <1>1, <1>2, <1>4, <1>5 DEF ContentInv, Asked
  <2> QED BY <2>2, <2>3
<1> QED BY <1>1, <1>4, <1>7, <1>13, <1>14 DEF ContentInv

LEMMA RCountHolds ==
  ASSUME R!RingsAssumption, ContentInv, RingInv', ~overrun, R!RCountShrb
  PROVE  ContentInv'
<1>1. /\ r.at = "count" /\ r' = [r EXCEPT !.at = "idle"] /\ contex' = contex - r.n
      /\ UNCHANGED <<use, mem, ri, wi, w, wcm, rcm, written, next, inOrder, overrun>>
  BY DEF R!RCountShrb, R!RCount, R!RDone, R!copies, R!stream, R!idx
<1>2. R!C' = R!C /\ Filled' = Filled /\ r'.at = "idle"
  BY <1>1, RingFacts DEF R!C, Filled, ContentInv, RingInv, RingTypes
<1>3. PICK b \in 0 .. 2 * R!C : Holds(b)
  BY DEF ContentInv
<1>4. rcm = <<>>
  BY <1>1 DEF ContentInv, Asked
<1>5. Holds(b)'
  BY <1>1, <1>2, <1>3, <1>4, HoldsStill DEF Holds, Counted, Copied
<1>6. Asked' /\ Aligned'
  BY <1>1, <1>2, <1>4 DEF ContentInv, Asked, Aligned, R!Multiple
<1> QED BY <1>1, <1>2, <1>5, <1>6 DEF ContentInv

LEMMA ClearHolds ==
  ASSUME R!RingsAssumption, ContentInv, RingInv', ~overrun, R!Clear
  PROVE  ContentInv'
<1>1. /\ w.at = "idle" /\ r.at = "idle" /\ ri' = 0 /\ wi' = 0 /\ contex' = 0 /\ next' = written
      /\ UNCHANGED <<use, mem, w, r, wcm, rcm, written, inOrder, overrun>>
  BY DEF R!Clear, R!copies
<1>2. R!C' = R!C /\ Filled' = 0 /\ R!C \in Nat \ {0}
  BY <1>1, RingFacts DEF R!C, Filled, ContentInv
<1>3. written \in 0 .. 2 * R!C /\ At(written, 0) = written
  <2>1. PICK b \in 0 .. 2 * R!C : Holds(b)
    BY DEF ContentInv
  <2>2. Filled \in 0 .. R!C /\ written = At(b, Filled)
    BY <1>1, <2>1, RingFacts DEF ContentInv, Holds, Counted
  <2> QED BY <1>2, <2>2, AtAt
<1>4. PICK c \in 0 .. 2 * R!C : c = written /\ At(c, 0) = c
  BY <1>3
<1>5. rcm = <<>>
  BY <1>1 DEF ContentInv, Asked
<1>6. Holds(c)'
  <2>1. At(c, 0)' = At(c, 0)
    BY <1>2 DEF At, R!Numbers
  <2>2. Counted(c)'
    BY <1>1, <1>2, <1>4, <2>1 DEF Counted
  <2>3. InRing(c)' /\ InHand(c)' /\ Behind(c)' /\ Copied(c)'
    BY <1>1, <1>2, <1>5 DEF InRing, Run, InHand, Behind, Repeat, Copied
  <2> QED BY <2>2, <2>3 DEF Holds
<1>7. Asked' /\ Aligned'
  <2>1. \A g \in 1 .. R!C : R!Multiple(0, g)
    BY <1>2 DEF R!Multiple
  <2>2. Aligned'
    BY <1>1, <1>2, <2>1 DEF ContentInv, Aligned, R!Multiple
  <2> QED BY <1>1, <1>2, <2>2 DEF ContentInv, Asked
<1> QED BY <1>1, <1>2, <1>6, <1>7 DEF ContentInv

LEMMA ContentKept ==
  ASSUME R!RingsAssumption, ContentInv, [R!Next]_(R!vars)
  PROVE  ContentInv'
<1>1. RingInv'
  BY RingKept DEF ContentInv
<1>2. CASE R!Next
  BY <1>1, <1>2, WQueryHolds, WFillHolds, WSyncHolds, WCountHolds, WSyncCcsrbHolds, RQueryHolds, RTakeHolds,
     RSyncHolds, RCountHolds, ClearHolds DEF R!Next, R!Writer, R!Reader
<1>3. CASE UNCHANGED R!vars
  <2>1. /\ UNCHANGED <<use, mem, ri, wi, contex, w, r, wcm, rcm, written, next, inOrder, overrun>>
        /\ Filled' = Filled /\ R!C' = R!C
    BY <1>3 DEF R!vars, R!idx, R!counts, R!copies, R!stream, Filled, R!C
  <2>2. Asked' = Asked /\ Aligned' = Aligned
    BY <2>1 DEF Asked, Aligned, R!Multiple
  <2>3. \A b : Holds(b) => Holds(b)'
    BY <2>1, HoldsStill DEF Holds, Counted
  <2> QED BY <1>1, <2>1, <2>2, <2>3 DEF ContentInv
<1> QED BY <1>2, <1>3

\* The reader of a ring gets every byte once and in order, and only a ccsrb writer at
\* the end of its input overruns the memory, for every capacity and all sizes that suit it.
THEOREM BytesReadInOrder ==
  R!RingsAssumption /\ (\A u \in Uses : R!Suits(u)) => (R!Spec => []R!ReadsWhatWasWritten)
<1> SUFFICES ASSUME R!RingsAssumption, \A u \in Uses : R!Suits(u) PROVE R!Spec => []R!ReadsWhatWasWritten
  OBVIOUS
<1>1. R!Init => ContentInv
  BY ContentStart
<1>2. ContentInv /\ [R!Next]_(R!vars) => ContentInv'
  BY ContentKept
<1>3. ContentInv => R!ReadsWhatWasWritten
  BY DEF ContentInv, RingInv, RingTypes, R!ReadsWhatWasWritten
<1> QED BY <1>1, <1>2, <1>3, PTL DEF R!Spec
-----------------------------------------------------------------------------
\* The growing buffer.  What it holds is numbered, the last byte written is `numbers`;
\* the bytes to be read end there.  The block has the bytes that were not written over,
\* as long as nobody has written while some of them were read in part, or taken memory.
AutomInv ==
  /\ is_malloc \in BOOLEAN /\ ordered \in BOOLEAN /\ (stale => shrunk)
  /\ cur_bytes \in Nat /\ tail \in Nat /\ numbers \in Nat
  /\ cur_bytes <= tail /\ tail <= numbers /\ expected = numbers - cur_bytes + 1
  /\ broken # "no" => shrunk \/ (broken = "foreign" /\ ~is_malloc)
  /\ ~shrunk => block \in Seq(Nat) /\ pre_bytes \in Nat
  /\ broken = "no" /\ ~shrunk => tail <= Len(block) /\ pre_bytes = Len(block)
  /\ broken = "no" /\ ~shrunk /\ ~partly => \A i \in 1 .. tail : block[i] = numbers - tail + i
  /\ ordered \/ partly \/ shrunk

\* autom_create.
LEMMA AutomStarts ==
  ASSUME A!AutomAssumption, A!Init
  PROVE  AutomInv
<1>1. Created \in Nat \ {0} /\ is_malloc \in BOOLEAN
  BY DEF A!AutomAssumption, A!Init
<1>2. block = [i \in 1 .. Created |-> IF is_malloc THEN 0 ELSE i] /\ pre_bytes = Created
  BY DEF A!Init
<1>3. block \in Seq(Nat) /\ Len(block) = Created
  BY <1>1, <1>2
<1>4. cur_bytes = (IF is_malloc THEN 0 ELSE Created) /\ tail = cur_bytes /\ numbers = cur_bytes
      /\ ~stale /\ expected = 1 /\ ordered = TRUE /\ ~partly /\ ~shrunk /\ broken = "no"
  BY DEF A!Init
<1>5. CASE is_malloc
  BY <1>1, <1>2, <1>3, <1>4, <1>5 DEF AutomInv
<1>6. CASE ~is_malloc
  <2>1. \A i \in 1 .. tail : block[i] = numbers - tail + i
    BY <1>1, <1>2, <1>4, <1>6
  <2> QED BY <1>1, <1>2, <1>3, <1>4, <1>6, <2>1 DEF AutomInv
<1> QED BY <1>5, <1>6

\* realloc keeps what was there.
LEMMA GrownKeeps ==
  ASSUME NEW s \in Seq(Nat), NEW n \in Nat, n > Len(s)
  PROVE  /\ A!Grown(s, n) \in Seq(Nat) /\ Len(A!Grown(s, n)) = n
         /\ \A i \in 1 .. Len(s) : A!Grown(s, n)[i] = s[i]
<1> DEFINE z == [i \in 1 .. n - Len(s) |-> 0]
<1>1. z \in Seq(Nat) /\ Len(z) = n - Len(s)
  OBVIOUS
<1>2. A!Grown(s, n) = s \o z
  BY DEF A!Grown
<1> HIDE DEF z
<1> QED BY <1>1, <1>2

LEMMA AutomWriteKeeps ==
  ASSUME A!AutomAssumption, AutomInv, broken = "no", NEW n \in Sizes, A!autom_write(n)
  PROVE  AutomInv'
<1>1. n \in Nat \ {0} /\ A!need(n) = cur_bytes + n + 1
  BY DEF A!AutomAssumption, A!need
<1>2. /\ cur_bytes' = cur_bytes + n /\ tail' = cur_bytes + n /\ stale' = FALSE /\ numbers' = numbers + n
      /\ partly' = (partly \/ cur_bytes < tail)
      /\ UNCHANGED <<is_malloc, expected, ordered, shrunk>>
  BY DEF A!autom_write
<1>3. /\ is_malloc \in BOOLEAN /\ ordered \in BOOLEAN
      /\ cur_bytes \in Nat /\ tail \in Nat /\ numbers \in Nat
      /\ cur_bytes <= tail /\ tail <= numbers /\ expected = numbers - cur_bytes + 1
      /\ ordered \/ partly \/ shrunk
  BY DEF AutomInv
<1>4. /\ is_malloc' \in BOOLEAN /\ ordered' \in BOOLEAN /\ (stale' => shrunk')
      /\ cur_bytes' \in Nat /\ tail' \in Nat /\ numbers' \in Nat
      /\ cur_bytes' <= tail' /\ tail' <= numbers' /\ expected' = numbers' - cur_bytes' + 1
  BY <1>1, <1>2, <1>3
<1>5. ordered' \/ partly' \/ shrunk'
  BY <1>2, <1>3
<1>6. CASE shrunk
  BY <1>2, <1>4, <1>5, <1>6 DEF AutomInv
<1>7. CASE ~shrunk
  <2> DEFINE grows == A!need(n) > pre_bytes
             m     == IF grows THEN A!Grown(block, A!need(n)) ELSE block
  <2>1. block \in Seq(Nat) /\ pre_bytes = Len(block) /\ tail <= Len(block) /\ pre_bytes \in Nat
    BY <1>7 DEF AutomInv
  <2>2. m \in Seq(Nat) /\ Len(m) >= cur_bytes + n + 1 /\ \A i \in 1 .. Len(block) : m[i] = block[i]
    <3>1. CASE grows
      BY <1>1, <1>3, <2>1, <3>1, GrownKeeps
    <3>2. CASE ~grows
      BY <1>1, <1>3, <2>1, <3>2
    <3> QED BY <3>1, <3>2
  <2>3. Len(m) = (IF grows THEN A!need(n) ELSE pre_bytes)
    <3>1. CASE grows
      BY <1>1, <1>3, <2>1, <3>1, GrownKeeps
    <3>2. CASE ~grows
      BY <2>1, <3>2
    <3> QED BY <3>1, <3>2
  <2>4. /\ broken' = IF grows /\ ~is_malloc THEN "foreign"
                     ELSE IF Len(m) < cur_bytes + n + 1 THEN "overrun" ELSE "no"
        /\ block' = IF broken' = "no" THEN A!Written(m, n) ELSE block
        /\ pre_bytes' = IF grows THEN A!need(n) ELSE pre_bytes
    BY DEF A!autom_write
  <2> HIDE DEF m
  <2>5. CASE grows /\ ~is_malloc
    <3>1. broken' = "foreign" /\ block' = block /\ pre_bytes' \in Nat
      BY <1>1, <1>3, <2>1, <2>4, <2>5
    <3> QED BY <1>2, <1>4, <1>5, <2>1, <2>5, <3>1 DEF AutomInv
  <2>6. CASE ~(grows /\ ~is_malloc)
    <3>1. broken' = "no" /\ block' = A!Written(m, n) /\ pre_bytes' = Len(m)
      <4>1. ~(Len(m) < cur_bytes + n + 1)
        BY <1>1, <1>3, <2>2
      <4>2. broken' = "no"
        BY <2>4, <2>6, <4>1, Zenon
      <4>3. pre_bytes' = Len(m)
        BY <2>3, <2>4, Zenon
      <4> QED BY <2>4, <4>2, <4>3
    <3>2. block' = [i \in 1 .. Len(m) |->
                      IF i \in cur_bytes + 1 .. cur_bytes + n THEN numbers + i - cur_bytes
                      ELSE IF i = cur_bytes + n + 1 THEN 0 ELSE m[i]]
      <4>1. DOMAIN m = 1 .. Len(m)
        BY <2>2
      <4> QED BY <3>1, <4>1 DEF A!Written
    <3>3. block' \in Seq(Nat) /\ Len(block') = Len(m)
      <4>1. \A i \in 1 .. Len(m) : m[i] \in Nat
        BY <2>2
      <4>2. \A i \in 1 .. Len(m) :
              (IF i \in cur_bytes + 1 .. cur_bytes + n THEN numbers + i - cur_bytes
               ELSE IF i = cur_bytes + n + 1 THEN 0 ELSE m[i]) \in Nat
        BY <1>1, <1>3, <4>1
      <4>3. Len(m) \in Nat
        BY <2>2
      <4> QED BY <3>2, <4>2, <4>3
    <3>4. ASSUME ~partly' PROVE \A i \in 1 .. tail' : block'[i] = numbers' - tail' + i
      <4>1. ~partly /\ cur_bytes = tail
        <5>1. ~partly /\ ~(cur_bytes < tail)
          BY <1>2, <3>4, Zenon
        <5> QED BY <1>3, <5>1
      <4>2. \A i \in 1 .. tail : block[i] = numbers - tail + i
        BY <1>7, <4>1 DEF AutomInv
      <4>3. TAKE i \in 1 .. tail'
      <4>4. i \in 1 .. Len(m) /\ i # cur_bytes + n + 1 /\ i \in 1 .. cur_bytes + n
        BY <1>1, <1>2, <1>3, <2>2, SMTT(30)
      <4>5. CASE i \in cur_bytes + 1 .. cur_bytes + n
        <5>1. block'[i] = numbers + i - cur_bytes
          BY <3>2, <4>4, <4>5
        <5> QED BY <1>1, <1>2, <1>3, <4>4, <5>1
      <4>6. CASE i \notin cur_bytes + 1 .. cur_bytes + n
        <5>1. i \in 1 .. tail
          BY <1>1, <1>3, <4>1, <4>4, <4>6
        <5>2. block'[i] = m[i]
          BY <3>2, <4>4, <4>6
        <5>3. m[i] = numbers - tail + i
          BY <1>3, <2>1, <2>2, <4>2, <5>1
        <5> QED BY <1>1, <1>2, <1>3, <4>1, <4>4, <5>2, <5>3
      <4> QED BY <4>5, <4>6
    <3>5. tail' <= Len(block')
      BY <1>1, <1>2, <1>3, <2>2, <3>3
    <3>6. pre_bytes' \in Nat /\ pre_bytes' = Len(block')
      BY <2>2, <3>1, <3>3
    <3> QED BY <1>4, <1>5, <3>1, <3>3, <3>4, <3>5, <3>6 DEF AutomInv
  <2> QED BY <2>5, <2>6
<1> QED BY <1>6, <1>7

LEMMA AutomReadKeeps ==
  ASSUME A!AutomAssumption, AutomInv, broken = "no", NEW n \in Sizes, A!autom_read(n)
  PROVE  AutomInv'
<1>1. n \in Nat \ {0}
  BY DEF A!AutomAssumption
<1>2. /\ cur_bytes >= n /\ cur_bytes' = cur_bytes - n /\ expected' = expected + n
      /\ broken' = (IF stale THEN "freed" ELSE broken)
      /\ UNCHANGED <<is_malloc, block, pre_bytes, tail, stale, numbers, partly, shrunk>>
  BY DEF A!autom_read
<1>3. ordered' = (ordered /\ (stale \/ \A i \in 1 .. n :
                   tail - cur_bytes + i \in DOMAIN block /\ block[tail - cur_bytes + i] = expected + i - 1))
  BY DEF A!autom_read
<1>4. ordered' \in BOOLEAN
  BY <1>3
<1>5. ordered' \/ partly \/ shrunk
  <2> SUFFICES ASSUME ~partly, ~shrunk PROVE ordered'
    OBVIOUS
  <2>1. /\ cur_bytes \in Nat /\ tail \in Nat /\ numbers \in Nat /\ cur_bytes <= tail
        /\ expected = numbers - cur_bytes + 1 /\ ordered
        /\ block \in Seq(Nat) /\ tail <= Len(block)
        /\ \A i \in 1 .. tail : block[i] = numbers - tail + i
    BY DEF AutomInv
  <2>2. ASSUME NEW i \in 1 .. n
        PROVE  tail - cur_bytes + i \in DOMAIN block /\ block[tail - cur_bytes + i] = expected + i - 1
    <3>1. tail - cur_bytes + i \in 1 .. tail
      BY <1>1, <1>2, <2>1
    <3>2. block[tail - cur_bytes + i] = numbers - tail + (tail - cur_bytes + i)
      BY <2>1, <3>1
    <3> QED BY <1>1, <2>1, <3>1, <3>2
  <2> QED BY <1>3, <2>1, <2>2
<1>6. /\ cur_bytes' \in Nat /\ cur_bytes' <= tail /\ expected' = numbers - cur_bytes' + 1
  BY <1>1, <1>2 DEF AutomInv
<1> QED BY <1>2, <1>4, <1>5, <1>6 DEF AutomInv

\* autom_reset and autom_breset make all bytes readable again; autom_clear none.
LEMMA AutomResetKeeps ==
  ASSUME AutomInv, broken = "no",
         A!autom_reset \/ (\E n \in Sizes : A!autom_breset(n))
  PROVE  AutomInv'
<1>1. /\ cur_bytes' = tail /\ expected' = numbers - tail + 1
      /\ UNCHANGED <<is_malloc, pre_bytes, tail, numbers, ordered, partly>>
  BY DEF A!autom_reset, A!autom_breset
<1>2. \/ shrunk'
      \/ UNCHANGED <<block, stale, shrunk>> /\ broken' = (IF stale THEN "freed" ELSE broken)
  BY DEF A!autom_reset, A!autom_breset
<1> QED BY <1>1, <1>2 DEF AutomInv

LEMMA AutomClearKeeps ==
  ASSUME AutomInv, broken = "no", A!autom_clear
  PROVE  AutomInv'
<1>1. /\ cur_bytes' = 0 /\ tail' = 0 /\ stale' = FALSE /\ expected' = numbers + 1
      /\ broken' = (IF cur_bytes > Len(block) THEN "overrun" ELSE broken)
      /\ UNCHANGED <<is_malloc, pre_bytes, numbers, ordered, partly, shrunk>>
  BY DEF A!autom_clear
<1>2. block' = [i \in DOMAIN block |-> IF i <= cur_bytes THEN 0 ELSE block[i]]
  BY DEF A!autom_clear
<1>3. ASSUME ~shrunk
      PROVE  block' \in Seq(Nat) /\ Len(block') = Len(block) /\ Len(block) \in Nat /\ broken' = "no"
             /\ pre_bytes = Len(block)
  <2>1. block \in Seq(Nat) /\ cur_bytes \in Nat /\ cur_bytes <= Len(block) /\ pre_bytes = Len(block)
    BY <1>3 DEF AutomInv
  <2>2. block' = [i \in 1 .. Len(block) |-> IF i <= cur_bytes THEN 0 ELSE block[i]]
    BY <1>2, <2>1
  <2>3. \A i \in 1 .. Len(block) : (IF i <= cur_bytes THEN 0 ELSE block[i]) \in Nat
    BY <2>1
  <2> QED BY <1>1, <2>1, <2>2, <2>3
<1> QED BY <1>1, <1>3 DEF AutomInv

LEMMA AutomKept ==
  ASSUME A!AutomAssumption, AutomInv, [A!Next]_(A!vars)
  PROVE  AutomInv'
<1>1. CASE UNCHANGED A!vars
  BY <1>1 DEF A!vars, AutomInv
<1>2. CASE A!Next
  BY <1>2, AutomWriteKeeps, AutomReadKeeps, AutomResetKeeps, AutomClearKeeps DEF A!Next
<1> QED BY <1>1, <1>2

\* The growing buffer stays inside its memory, and what is read is what was written, in
\* order, whatever sizes are asked for, but for the two wrong uses that the properties
\* name: memory handed in that has to grow, or taken away, and a write over bytes that
\* are still to be read.
THEOREM BufferInOrder == A!AutomAssumption => (A!Spec => [](A!InsideMemory /\ A!ReadInOrder))
<1> SUFFICES ASSUME A!AutomAssumption PROVE A!Spec => [](A!InsideMemory /\ A!ReadInOrder)
  OBVIOUS
<1>1. A!Init => AutomInv
  BY AutomStarts
<1>2. AutomInv /\ [A!Next]_(A!vars) => AutomInv'
  BY AutomKept
<1>3. AutomInv => A!InsideMemory /\ A!ReadInOrder
  BY DEF AutomInv, A!InsideMemory, A!ReadInOrder
<1> QED BY <1>1, <1>2, <1>3, PTL DEF A!Spec
-----------------------------------------------------------------------------
\* The voice detector.  Its one counter counts loud chunks in a row until speech has
\* started and quiet ones from then on; neither reaches its bound before it is used.
VadInv ==
  /\ startedConfirmCount \in 0 .. MaxConfirm /\ finishedConfirmCount \in 0 .. MaxConfirm
  /\ loud \in Nat /\ quiet \in Nat
  /\ savedStatus \in {"IDEL", "STARTED", "SPEAKING", "FINISHED"}
  /\ savedStatus = "IDEL" => confirmCount = loud /\ (loud = 0 \/ loud < startedConfirmCount)
  /\ savedStatus = "STARTED" => /\ confirmCount = 0 /\ quiet = 0
                                /\ loud > 0 /\ loud >= startedConfirmCount
  /\ savedStatus = "SPEAKING" =>
       /\ confirmCount = quiet
       /\ quiet = 0 \/ quiet < finishedConfirmCount \/ (quiet = 1 /\ finishedConfirmCount <= 1)
  /\ savedStatus = "FINISHED" => finished

\* get_vad_status for a loud chunk, and for a quiet one.
LEMMA LoudKeeps ==
  ASSUME V!VadAssumption, VadInv, UNCHANGED <<startedConfirmCount, finishedConfirmCount>>,
         V!get_vad_status(TRUE), V!Remember(TRUE)
  PROVE  VadInv'
<1>1. MaxConfirm \in Nat /\ MaxRun \in Nat /\ MaxRun > MaxConfirm
  BY DEF V!VadAssumption
<1>2. loud' = (IF loud < MaxRun THEN loud + 1 ELSE loud) /\ quiet' = 0 /\ (finished => finished')
  BY DEF V!Remember
<1>3. loud' \in Nat /\ quiet' \in Nat
  BY <1>2 DEF VadInv
<1>4. CASE V!Idel(TRUE)
  <2>1. loud' = loud + 1
    BY <1>1, <1>2, <1>4 DEF VadInv, V!Idel
  <2> QED BY <1>2, <1>3, <1>4, <2>1 DEF VadInv, V!Idel
<1>5. CASE V!Started(TRUE)
  BY <1>2, <1>3, <1>5 DEF VadInv, V!Started
<1>6. CASE V!Speaking(TRUE)
  BY <1>2, <1>3, <1>6 DEF VadInv, V!Speaking
<1>7. CASE savedStatus = "FINISHED" /\ UNCHANGED <<savedStatus, confirmCount>>
  BY <1>2, <1>3, <1>7 DEF VadInv
<1> QED BY <1>4, <1>5, <1>6, <1>7 DEF V!get_vad_status

LEMMA QuietKeeps ==
  ASSUME V!VadAssumption, VadInv, UNCHANGED <<startedConfirmCount, finishedConfirmCount>>,
         V!get_vad_status(FALSE), V!Remember(FALSE)
  PROVE  VadInv'
<1>1. MaxConfirm \in Nat /\ MaxRun \in Nat /\ MaxRun > MaxConfirm
  BY DEF V!VadAssumption
<1>2. loud' = 0 /\ quiet' = (IF quiet < MaxRun THEN quiet + 1 ELSE quiet) /\ (finished => finished')
  BY DEF V!Remember
<1>3. loud' \in Nat /\ quiet' \in Nat
  BY <1>2 DEF VadInv
<1>4. CASE V!Idel(FALSE)
  BY <1>2, <1>3, <1>4 DEF VadInv, V!Idel
<1>5. CASE V!Started(FALSE)
  <2>1. quiet' = 1
    BY <1>1, <1>2, <1>5 DEF VadInv, V!Started
  <2> QED BY <1>1, <1>2, <1>3, <1>5, <2>1 DEF VadInv, V!Started
<1>6. CASE V!Speaking(FALSE)
  <2>1. savedStatus = "SPEAKING" /\ confirmCount = quiet
    BY <1>6 DEF VadInv, V!Speaking
  <2>2. CASE confirmCount + 1 >= finishedConfirmCount
    <3>1. savedStatus' = "FINISHED"
      BY <1>6, <2>2 DEF V!Speaking
    <3>2. quiet' > 0 /\ quiet' >= finishedConfirmCount
      BY <1>1, <1>2, <2>1, <2>2 DEF VadInv
    <3>3. finished'
      BY <2>1, <3>2 DEF V!Remember
    <3> QED BY <1>3, <3>1, <3>3 DEF VadInv
  <2>3. CASE ~(confirmCount + 1 >= finishedConfirmCount)
    <3>1. savedStatus' = savedStatus /\ confirmCount' = confirmCount + 1
      BY <1>6, <2>3 DEF V!Speaking
    <3>2. quiet' = quiet + 1 /\ quiet' < finishedConfirmCount
      BY <1>1, <1>2, <2>1, <2>3 DEF VadInv
    <3> QED BY <1>3, <2>1, <3>1, <3>2 DEF VadInv
  <2> QED BY <2>2, <2>3
<1>7. CASE savedStatus = "FINISHED" /\ UNCHANGED <<savedStatus, confirmCount>>
  BY <1>2, <1>3, <1>7 DEF VadInv
<1> QED BY <1>4, <1>5, <1>6, <1>7 DEF V!get_vad_status

LEMMA VadKept ==
  ASSUME V!VadAssumption, \A chunk \in Chunks : V!isChunkSpeaking(chunk) = V!Heard(chunk),
         VadInv, [V!Next]_(V!vars)
  PROVE  VadInv'
<1>1. CASE UNCHANGED V!vars
  BY <1>1 DEF V!vars, VadInv
<1>2. CASE V!Next
  <2>1. PICK chunk \in Chunks : V!get_vad_status(V!isChunkSpeaking(chunk)) /\ V!Remember(V!Heard(chunk))
    BY <1>2 DEF V!Next
  <2>2. UNCHANGED <<startedConfirmCount, finishedConfirmCount>>
    BY <1>2 DEF V!Next
  <2>3. V!isChunkSpeaking(chunk) = V!Heard(chunk)
    OBVIOUS
  <2>4. V!isChunkSpeaking(chunk) \in BOOLEAN
    BY DEF V!isChunkSpeaking
  <2>5. CASE V!isChunkSpeaking(chunk) = TRUE
    <3>1. V!get_vad_status(TRUE) /\ V!Remember(TRUE)
      BY <2>1, <2>3, <2>5
    <3> QED BY <2>2, <3>1, LoudKeeps
  <2>6. CASE V!isChunkSpeaking(chunk) = FALSE
    <3>1. V!get_vad_status(FALSE) /\ V!Remember(FALSE)
      BY <2>1, <2>3, <2>6
    <3> QED BY <2>2, <3>1, QuietKeeps
  <2> QED BY <2>4, <2>5, <2>6
<1> QED BY <1>1, <1>2

\* Speech starts and finishes when the chunks asked for confirm it, for every two counts,
\* when a chunk the code takes for loud is one a tenth of whose units are (arithmetic on
\* folds over all samples, which the runs evaluate for their chunks).
THEOREM SpeechConfirmed ==
  V!VadAssumption /\ (\A chunk \in Chunks : V!isChunkSpeaking(chunk) = V!Heard(chunk))
    => (V!Spec => []V!Confirmed)
<1> SUFFICES ASSUME V!VadAssumption, \A chunk \in Chunks : V!isChunkSpeaking(chunk) = V!Heard(chunk)
             PROVE  V!Spec => []V!Confirmed
  OBVIOUS
<1>1. V!Init => VadInv
  BY DEF V!VadAssumption, V!Init, VadInv
<1>2. VadInv /\ [V!Next]_(V!vars) => VadInv'
  BY VadKept
<1>3. VadInv => V!Confirmed
  BY DEF VadInv, V!Confirmed
<1> QED BY <1>1, <1>2, <1>3, PTL DEF V!Spec
-----------------------------------------------------------------------------
\* The command pipe.  All bytes the pipe has taken make one stream of n frames; off[k]
\* is where the k-th ends, a frame f has Size(f) bytes.
Size(f) == 3 + (f % 2)

Lay(n, a, off) ==
  /\ n \in Nat /\ a \in [1 .. n -> Nat \ {0}] /\ off \in [0 .. n -> Nat] /\ off[0] = 0
  /\ \A k \in 1 .. n : off[k] = off[k - 1] + Size(a[k])
  /\ \A j, k \in 0 .. n : j < k => off[j] < off[k]

\* The m bytes s are what the stream has from t on.
Stream(n, a, off, t, m, s) ==
  /\ Lay(n, a, off) /\ t \in Nat /\ m \in Nat /\ s \in [1 .. m -> Int]
  /\ \A i \in 1 .. m : \E k \in 1 .. n :
       off[k - 1] < t + i /\ t + i <= off[k] /\ s[i] = F!bytes(a[k])[(t + i) - off[k - 1]]

LEMMA Framed ==
  ASSUME NEW x \in Seq(Int), NEW h \in Int, NEW e \in Int, NEW z, z = (<<h>> \o x) \o <<e>>
  PROVE  /\ z \in Seq(Int) /\ Len(z) = Len(x) + 2 /\ z[1] = h /\ z[Len(x) + 2] = e
         /\ \A i \in 1 .. Len(x) : z[i + 1] = x[i]
<1>1. PICK y : y = <<h>> \o x
  OBVIOUS
<1>2. y \in Seq(Int) /\ Len(y) = Len(x) + 1 /\ y[1] = h /\ \A i \in 1 .. Len(x) : y[i + 1] = x[i]
  BY <1>1, ConsFacts DEF Cons
<1>3. z = y \o <<e>> /\ Len(x) \in Nat
  BY <1>1
<1>4. <<e>> \in Seq(Int) /\ Len(<<e>>) = 1 /\ <<e>>[1] = e
  OBVIOUS
<1>5. /\ z \in Seq(Int) /\ Len(z) = Len(y) + 1
      /\ \A i \in 1 .. Len(y) : z[i] = y[i]
      /\ z[Len(y) + 1] = e
  BY <1>2, <1>3, <1>4
<1>6. \A i \in 1 .. Len(x) : i + 1 \in 1 .. Len(y)
  BY <1>2, <1>3
<1> QED BY <1>2, <1>3, <1>5, <1>6

\* A frame is a '^', its text, and a newline.
LEMMA FrameBytes ==
  ASSUME NEW f \in Nat \ {0}
  PROVE  /\ Size(f) \in {3, 4} /\ F!text(f) = [i \in 1 .. Size(f) - 2 |-> f]
         /\ F!bytes(f) \in Seq(Int) /\ Len(F!bytes(f)) = Size(f)
         /\ F!bytes(f)[1] = F!HAT /\ F!bytes(f)[Size(f)] = F!NL
         /\ \A i \in 2 .. Size(f) - 1 : F!bytes(f)[i] = f
<1>1. Size(f) \in {3, 4}
  BY DEF Size
<1>2. F!text(f) = [i \in 1 .. Size(f) - 2 |-> f]
  <2>1. 1 + (f % 2) = Size(f) - 2
    BY DEF Size
  <2> QED BY <2>1 DEF F!text
<1>3. F!bytes(f) = (<<F!HAT>> \o F!text(f)) \o <<F!NL>>
  BY DEF F!bytes
<1>4. F!HAT \in Int /\ F!NL \in Int
  BY DEF F!HAT, F!NL
<1>5. PICK x : x = F!text(f) /\ x \in Seq(Int) /\ Len(x) = Size(f) - 2 /\ \A i \in 1 .. Size(f) - 2 : x[i] = f
  BY <1>1, <1>2
<1>6. PICK z : z = (<<F!HAT>> \o x) \o <<F!NL>>
  OBVIOUS
<1>7. /\ z \in Seq(Int) /\ Len(z) = Len(x) + 2
      /\ z[1] = F!HAT /\ z[Len(x) + 2] = F!NL /\ \A i \in 1 .. Len(x) : z[i + 1] = x[i]
  BY ONLY <1>4, <1>5, <1>6, Framed
<1>8. z = F!bytes(f)
  BY <1>3, <1>5, <1>6
<1>9. \A i \in 2 .. Size(f) - 1 : i - 1 \in 1 .. Size(f) - 2 /\ (i - 1) + 1 = i
  BY <1>1
<1>10. Len(x) + 2 = Size(f)
  BY <1>1, <1>5
<1>11. \A i \in 2 .. Size(f) - 1 : z[i] = f
  BY <1>5, <1>7, <1>9
<1> QED BY <1>1, <1>2, <1>7, <1>8, <1>10, <1>11

\* A place in the stream belongs to one frame.
LEMMA ByteOfFrame ==
  ASSUME NEW n, NEW a, NEW off, NEW t, NEW m, NEW s, Stream(n, a, off, t, m, s)
  PROVE  \A k \in 1 .. n, i \in 1 .. m :
           off[k - 1] < t + i /\ t + i <= off[k] => s[i] = F!bytes(a[k])[(t + i) - off[k - 1]]
<1> SUFFICES ASSUME NEW k \in 1 .. n, NEW i \in 1 .. m, off[k - 1] < t + i /\ t + i <= off[k]
             PROVE  s[i] = F!bytes(a[k])[(t + i) - off[k - 1]]
  OBVIOUS
<1>0. /\ n \in Nat /\ a \in [1 .. n -> Nat \ {0}] /\ off \in [0 .. n -> Nat] /\ t \in Nat
      /\ m \in Nat /\ s \in [1 .. m -> Int]
  BY DEF Stream, Lay
<1> USE <1>0
<1>a. i \in Nat
  OBVIOUS
<1> USE <1>a
<1>1. PICK q \in 1 .. n :
        off[q - 1] < t + i /\ t + i <= off[q] /\ s[i] = F!bytes(a[q])[(t + i) - off[q - 1]]
  BY DEF Stream
<1>2. \A j, l \in 0 .. n : j < l => off[j] < off[l]
  BY DEF Stream, Lay
<1>3. q = k
  <2>1. k \in Int /\ q \in Int /\ k - 1 \in 0 .. n /\ q - 1 \in 0 .. n /\ k \in 0 .. n /\ q \in 0 .. n
    BY <1>2
  <2> DEFINE x == t + i
  <2>0. off[k - 1] \in Nat /\ off[q - 1] \in Nat /\ off[k] \in Nat /\ off[q] \in Nat /\ x \in Nat
    BY <1>0, <1>2, <2>1
  <2>a. off[k - 1] < x /\ x <= off[k] /\ off[q - 1] < x /\ x <= off[q]
    BY <1>1
  <2> HIDE DEF x
  <2>2. off[q - 1] < off[k] /\ off[k - 1] < off[q]
    BY <2>0, <2>a
  <2>3. ~(k < q)
    <3> SUFFICES ASSUME k < q PROVE FALSE
      OBVIOUS
    <3>1. k = q - 1 \/ k < q - 1
      BY ONLY <2>1, k < q
    <3>2. off[k] <= off[q - 1]
      BY ONLY <1>2, <2>0, <2>1, <3>1
    <3> QED BY ONLY <2>0, <2>2, <3>2
  <2>4. ~(q < k)
    <3> SUFFICES ASSUME q < k PROVE FALSE
      OBVIOUS
    <3>1. q = k - 1 \/ q < k - 1
      BY ONLY <2>1, q < k
    <3>2. off[q] <= off[k - 1]
      BY ONLY <1>2, <2>0, <2>1, <3>1
    <3> QED BY ONLY <2>0, <2>2, <3>2
  <2> QED BY <2>1, <2>3, <2>4
<1> QED BY <1>1, <1>3

\* Where the '^' and the newlines are.
LEMMA Marks ==
  ASSUME NEW n, NEW a, NEW off, NEW t, NEW m, NEW s, Stream(n, a, off, t, m, s),
         NEW i \in 1 .. m
  PROVE  /\ s[i] = F!HAT <=> \E k \in 1 .. n : t + i = off[k - 1] + 1
         /\ s[i] = F!NL <=> \E k \in 1 .. n : t + i = off[k]
<1>b. \A k \in 1 .. n : off[k - 1] < t + i /\ t + i <= off[k] => s[i] = F!bytes(a[k])[(t + i) - off[k - 1]]
  BY ByteOfFrame
<1>0. /\ n \in Nat /\ a \in [1 .. n -> Nat \ {0}] /\ off \in [0 .. n -> Nat] /\ t \in Nat
      /\ m \in Nat /\ s \in [1 .. m -> Int]
  BY DEF Stream, Lay
<1> USE <1>0
<1>a. i \in Nat
  OBVIOUS
<1> USE <1>a
<1>1. \A k \in 1 .. n : off[k] = off[k - 1] + Size(a[k])
  BY DEF Stream, Lay
<1>2. ASSUME NEW k \in 1 .. n
      PROVE  /\ k - 1 \in 0 .. n /\ off[k - 1] \in Nat /\ off[k] \in Nat /\ a[k] \in Nat \ {0} /\ Size(a[k]) \in {3, 4}
             /\ off[k] = off[k - 1] + Size(a[k])
  <2>1. a[k] \in Nat \ {0}
    OBVIOUS
  <2>2. Size(a[k]) \in {3, 4}
    BY <2>1, FrameBytes
  <2> QED BY <1>1, <2>1, <2>2
<1>3. ASSUME NEW k \in 1 .. n, t + i = off[k - 1] + 1
      PROVE  s[i] = F!HAT
  <2>0. off[k - 1] \in Nat /\ off[k] = off[k - 1] + Size(a[k]) /\ a[k] \in Nat \ {0} /\ Size(a[k]) \in {3, 4}
    BY <1>2
  <2>1. off[k - 1] < t + i /\ t + i <= off[k] /\ (t + i) - off[k - 1] = 1
    BY <1>1, <1>3, <2>0
  <2>2. s[i] = F!bytes(a[k])[(t + i) - off[k - 1]]
    BY <1>b, <2>1
  <2>3. s[i] = F!bytes(a[k])[1]
    BY <2>1, <2>2
  <2> QED BY <2>0, <2>3, FrameBytes
<1>4. ASSUME NEW k \in 1 .. n, t + i = off[k]
      PROVE  s[i] = F!NL
  <2>0. off[k - 1] \in Nat /\ off[k] = off[k - 1] + Size(a[k]) /\ a[k] \in Nat \ {0} /\ Size(a[k]) \in {3, 4}
    BY <1>2
  <2>1. off[k - 1] < t + i /\ t + i <= off[k] /\ (t + i) - off[k - 1] = Size(a[k])
    BY <1>1, <1>4, <2>0
  <2>2. s[i] = F!bytes(a[k])[(t + i) - off[k - 1]]
    BY <1>b, <2>1
  <2>3. s[i] = F!bytes(a[k])[Size(a[k])]
    BY <2>1, <2>2
  <2> QED BY <2>0, <2>3, FrameBytes
<1>5. PICK k \in 1 .. n : off[k - 1] < t + i /\ t + i <= off[k] /\ s[i] = F!bytes(a[k])[(t + i) - off[k - 1]]
  BY DEF Stream
<1>6. \/ t + i = off[k - 1] + 1
      \/ t + i = off[k]
      \/ (t + i) - off[k - 1] \in 2 .. Size(a[k]) - 1
  <2>1. off[k - 1] \in Nat /\ off[k] = off[k - 1] + Size(a[k]) /\ Size(a[k]) \in {3, 4}
    BY <1>2
  <2>2. off[k - 1] < t + i /\ t + i <= off[k]
    BY <1>5
  <2>3. t \in Nat /\ i \in Nat
    BY <1>0, <1>a
  <2> QED BY ONLY <2>1, <2>2, <2>3
<1>7. CASE (t + i) - off[k - 1] \in 2 .. Size(a[k]) - 1
  <2>1. s[i] = a[k]
    BY <1>2, <1>5, <1>7, FrameBytes
  <2>2. s[i] # F!HAT /\ s[i] # F!NL
    BY <1>2, <2>1 DEF F!HAT, F!NL
  <2> QED BY <1>3, <1>4, <2>2
<1>8. F!HAT # F!NL
  BY DEF F!HAT, F!NL
<1> QED BY <1>3, <1>4, <1>6, <1>7, <1>8

\* g lists S in increasing order.
Lists(n, g, S) ==
  /\ n \in Nat /\ g \in [1 .. n -> Nat] /\ \A j, k \in 1 .. n : j < k => g[j] < g[k]
  /\ S = {g[k] : k \in 1 .. n}

\* The numbers of an increasing list are as many as it has places, and each has as many
\* below it as come before it.
LEMMA Counted1 ==
  ASSUME NEW n \in Nat, NEW g \in [1 .. n -> Nat], \A j, k \in 1 .. n : j < k => g[j] < g[k]
  PROVE  Cardinality({g[k] : k \in 1 .. n}) = n
<1> DEFINE T == {g[k] : k \in 1 .. n}
<1>1. IsFiniteSet(1 .. n) /\ Cardinality(1 .. n) = n
  BY FS_Interval
<1>2. g \in Bijection(1 .. n, T)
  <2>1. \A j, k \in 1 .. n : g[j] = g[k] => j = k
    <3> SUFFICES ASSUME NEW j \in 1 .. n, NEW k \in 1 .. n, g[j] = g[k], j # k PROVE FALSE
      OBVIOUS
    <3>1. j < k \/ k < j
      OBVIOUS
    <3> QED BY <3>1
  <2>2. g \in [1 .. n -> T] /\ \A y \in T : \E k \in 1 .. n : g[k] = y
    OBVIOUS
  <2> QED BY <2>1, <2>2 DEF Bijection, Injection, Surjection, IsInjective
<1>3. ExistsBijection(1 .. n, T)
  BY <1>2 DEF ExistsBijection
<1> QED BY <1>1, <1>3, FS_Bijection

LEMMA Ranks ==
  ASSUME NEW n, NEW g, NEW S, Lists(n, g, S)
  PROVE  /\ Cardinality(S) = n
         /\ \A k \in 1 .. n : Cardinality({x \in S : x < g[k]}) = k - 1
<1>0. n \in Nat /\ g \in [1 .. n -> Nat] /\ (\A j, k \in 1 .. n : j < k => g[j] < g[k]) /\ S = {g[k] : k \in 1 .. n}
  BY DEF Lists
<1> USE <1>0
<1>1. Cardinality(S) = n
  BY Counted1
<1>2. ASSUME NEW k \in 1 .. n PROVE Cardinality({x \in S : x < g[k]}) = k - 1
  <2> DEFINE h == [j \in 1 .. k - 1 |-> g[j]]
  <2>1. k - 1 \in Nat /\ \A j \in 1 .. k - 1 : j \in 1 .. n /\ j < k
    OBVIOUS
  <2>2. h \in [1 .. k - 1 -> Nat] /\ \A i, j \in 1 .. k - 1 : i < j => h[i] < h[j]
    BY <2>1
  <2>3. Cardinality({h[j] : j \in 1 .. k - 1}) = k - 1
    <3> HIDE DEF h
    <3> QED BY <2>1, <2>2, Counted1
  <2>4. ASSUME NEW x PROVE x \in {y \in S : y < g[k]} <=> x \in {h[j] : j \in 1 .. k - 1}
    <3>1. ASSUME x \in S, x < g[k] PROVE x \in {h[j] : j \in 1 .. k - 1}
      <4>1. PICK j \in 1 .. n : x = g[j]
        BY <3>1
      <4>2. j < k
        <5> SUFFICES ASSUME ~(j < k) PROVE FALSE
          OBVIOUS
        <5>1. j = k \/ k < j
          OBVIOUS
        <5>2. g[j] \in Nat /\ g[k] \in Nat /\ g[j] < g[k]
          BY <3>1, <4>1
        <5>3. g[k] <= g[j]
          BY <5>1, <5>2
        <5> QED BY <5>2, <5>3
      <4>3. j \in 1 .. k - 1
        BY <4>2
      <4> QED BY <4>1, <4>3
    <3>2. ASSUME x \in {h[j] : j \in 1 .. k - 1} PROVE x \in S /\ x < g[k]
      <4>1. PICK j \in 1 .. k - 1 : x = g[j]
        BY <3>2
      <4> QED BY <2>1, <4>1
    <3> QED BY <3>1, <3>2
  <2> QED BY <2>3, <2>4
<1> QED BY <1>1, <1>2

\* The frames lo + 1 .. hi are those that lie in s from end to end.
Inside(n, a, off, t, m, s, lo, hi) ==
  /\ Stream(n, a, off, t, m, s) /\ lo \in Nat /\ hi \in Nat /\ lo <= hi /\ hi <= n
  /\ \A k \in 1 .. n : (t <= off[k - 1] /\ off[k] <= t + m) <=> k \in lo + 1 .. hi

\* Where they begin.
LEMMA BeginsAre ==
  ASSUME NEW n, NEW a, NEW off, NEW t, NEW m, NEW s, NEW lo, NEW hi,
         Inside(n, a, off, t, m, s, lo, hi)
  PROVE  F!Begins(s) = {(off[k - 1] - t) + 1 : k \in lo + 1 .. hi}
<1>a. \A i \in 1 .. m : s[i] = F!HAT <=> \E k \in 1 .. n : t + i = off[k - 1] + 1
  BY Marks DEF Inside
<1>b. \A i \in 1 .. m : s[i] = F!NL <=> \E k \in 1 .. n : t + i = off[k]
  BY Marks DEF Inside
<1>0. /\ n \in Nat /\ off \in [0 .. n -> Nat] /\ t \in Nat /\ m \in Nat /\ s \in [1 .. m -> Int]
      /\ lo \in Nat /\ hi \in Nat /\ lo <= hi /\ hi <= n
  BY DEF Inside, Stream, Lay
<1>1. \A j, l \in 0 .. n : j < l => off[j] < off[l]
  BY DEF Inside, Stream, Lay
<1>2. \A k \in 1 .. n : (t <= off[k - 1] /\ off[k] <= t + m) <=> k \in lo + 1 .. hi
  BY DEF Inside
<1>3. ASSUME NEW k \in 1 .. n
      PROVE  /\ k \in Nat /\ k - 1 \in 0 .. n /\ k \in 0 .. n /\ off[k - 1] \in Nat /\ off[k] \in Nat
             /\ off[k - 1] + 3 <= off[k]
  <2>1. k \in Nat /\ k - 1 \in 0 .. n /\ k \in 0 .. n
    BY <1>0
  <2>2. off[k - 1] \in Nat /\ off[k] \in Nat
    BY <1>0, <2>1
  <2>3. off[k] = off[k - 1] + Size(a[k]) /\ a[k] \in Nat \ {0}
    BY DEF Inside, Stream, Lay
  <2>4. Size(a[k]) \in {3, 4}
    BY <2>3, FrameBytes
  <2> QED BY <2>1, <2>2, <2>3, <2>4
<1>4. ASSUME NEW j \in 1 .. n, NEW k \in 1 .. n, off[j - 1] < off[k - 1]
      PROVE  off[j] <= off[k - 1]
  <2>1. j < k
    <3> SUFFICES ASSUME ~(j < k) PROVE FALSE
      OBVIOUS
    <3>1. k - 1 = j - 1 \/ k - 1 < j - 1
      BY <1>3
    <3> QED BY <1>1, <1>3, <1>4, <3>1
  <2>2. j = k - 1 \/ j < k - 1
    BY <1>3, <2>1
  <2> QED BY <1>1, <1>3, <2>2
<1>5. F!Hats(s) = {i \in 1 .. m : s[i] = F!HAT} /\ F!Ends(s) = {i \in 1 .. m : s[i] = F!NL}
  BY <1>0 DEF F!Hats, F!Ends
<1>6. ASSUME NEW i \in F!Begins(s)
      PROVE  \E k \in lo + 1 .. hi : i = (off[k - 1] - t) + 1
  <2>1. i \in 1 .. m /\ s[i] = F!HAT /\ \E e \in F!Ends(s) : i < e
    BY <1>5 DEF F!Begins
  <2>2. PICK k \in 1 .. n : t + i = off[k - 1] + 1
    BY <1>a, <2>1
  <2>3. PICK e \in 1 .. m : s[e] = F!NL /\ i < e
    BY <1>5, <2>1
  <2>4. PICK q \in 1 .. n : t + e = off[q]
    BY <1>b, <2>3
  <2>5. off[k] <= off[q]
    <3> SUFFICES ASSUME ~(off[k] <= off[q]) PROVE FALSE
      OBVIOUS
    <3>1. off[q] < off[k]
      BY <1>3
    <3>2. q < k
      <4> SUFFICES ASSUME ~(q < k) PROVE FALSE
        OBVIOUS
      <4>1. q = k \/ k < q
        BY <1>3
      <4> QED BY <1>1, <1>3, <3>1, <4>1
    <3>3. q = k - 1 \/ q < k - 1
      BY <1>3, <3>2
    <3>4. off[q] <= off[k - 1]
      BY <1>1, <1>3, <3>3
    <3>5. off[k - 1] \in Nat /\ off[q] \in Nat
      BY <1>3
    <3>6. t \in Nat /\ i \in Nat /\ e \in Nat /\ i < e
      BY <1>0, <2>1, <2>3
    <3> QED BY ONLY <2>2, <2>4, <3>4, <3>5, <3>6
  <2>6. off[k - 1] \in Nat /\ off[k] \in Nat /\ off[q] \in Nat
    BY <1>3
  <2>7. t <= off[k - 1] /\ off[k] <= t + m
    <3>1. t \in Nat /\ m \in Nat /\ i \in 1 .. m /\ e \in 1 .. m
      BY <1>0, <2>1
    <3> QED BY ONLY <2>2, <2>4, <2>5, <2>6, <3>1
  <2>8. k \in lo + 1 .. hi
    BY <1>2, <2>7
  <2>9. i = (off[k - 1] - t) + 1
    <3>1. t \in Nat /\ m \in Nat /\ i \in 1 .. m
      BY <1>0, <2>1
    <3> QED BY ONLY <2>2, <2>6, <3>1
  <2> QED BY <2>8, <2>9
<1>7. ASSUME NEW k \in lo + 1 .. hi
      PROVE  (off[k - 1] - t) + 1 \in F!Begins(s)
  <2> DEFINE i == (off[k - 1] - t) + 1
  <2>1. k \in 1 .. n
    BY <1>0
  <2>2. t <= off[k - 1] /\ off[k] <= t + m /\ off[k - 1] \in Nat /\ off[k] \in Nat /\ off[k - 1] + 3 <= off[k]
    BY <1>2, <1>3, <2>1
  <2>3. i \in 1 .. m /\ t + i = off[k - 1] + 1
    <3>1. t \in Nat /\ m \in Nat
      BY <1>0
    <3> QED BY ONLY <2>2, <3>1
  <2>4. i \in F!Hats(s)
    BY <1>a, <1>5, <2>1, <2>3
  <2>5. \E e \in F!Ends(s) : i < e
    <3>1. off[k] - t \in 1 .. m /\ t + (off[k] - t) = off[k] /\ i < off[k] - t
      <4>1. t \in Nat /\ m \in Nat
        BY <1>0
      <4> QED BY ONLY <2>2, <4>1
    <3>2. off[k] - t \in F!Ends(s)
      BY <1>b, <1>5, <2>1, <3>1
    <3> QED BY <3>1, <3>2
  <2> HIDE DEF i
  <2>6. ASSUME NEW j \in F!Hats(s), j < i
        PROVE  \E e \in F!Ends(s) : j < e /\ e < i
    <3>1. j \in 1 .. m
      BY <1>5
    <3>2. PICK q \in 1 .. n : t + j = off[q - 1] + 1
      BY <1>a, <1>5
    <3>3. off[q - 1] \in Nat /\ off[q] \in Nat /\ off[q - 1] + 3 <= off[q]
      BY <1>3
    <3>4. off[q - 1] < off[k - 1]
      <4>1. t \in Nat /\ m \in Nat
        BY <1>0
      <4> QED BY ONLY <2>2, <2>3, <2>6, <3>1, <3>2, <3>3, <4>1
    <3>5. off[q] <= off[k - 1]
      BY <1>4, <2>1, <3>4
    <3>6. off[q] - t \in 1 .. m /\ t + (off[q] - t) = off[q] /\ j < off[q] - t /\ off[q] - t < i
      <4>1. t \in Nat /\ m \in Nat
        BY <1>0
      <4> QED BY ONLY <2>2, <2>3, <3>1, <3>2, <3>3, <3>5, <4>1
    <3>7. off[q] - t \in F!Ends(s)
      BY <1>b, <1>5, <3>6
    <3> QED BY <3>6, <3>7
  <2>7. i \in F!Begins(s)
    BY <2>4, <2>5, <2>6 DEF F!Begins
  <2> QED BY <2>7 DEF i
<1> QED BY <1>6, <1>7

\* The least of a set of numbers is the least of them.
LEMMA LeastIs ==
  ASSUME NEW S, S \subseteq Int, NEW e \in S, \A y \in S : e <= y
  PROVE  F!Min(S) = e
<1>1. \E x \in S : \A y \in S : x <= y
  OBVIOUS
<1>2. F!Min(S) \in S /\ \A y \in S : F!Min(S) <= y
  BY <1>1 DEF F!Min
<1>3. F!Min(S) \in Int /\ e \in Int /\ F!Min(S) <= e /\ e <= F!Min(S)
  BY <1>2
<1> QED BY <1>3

\* The text of a frame that lies in s.
TextAt(s, i) == SubSeq(s, i + 1, F!Min({e \in F!Ends(s) : i < e}) - 1)

LEMMA TextOf ==
  ASSUME NEW n, NEW a, NEW off, NEW t, NEW m, NEW s, NEW lo, NEW hi,
         Inside(n, a, off, t, m, s, lo, hi), s \in Seq(Int), Len(s) = m, NEW k \in lo + 1 .. hi,
         NEW i, i = (off[k - 1] - t) + 1
  PROVE  TextAt(s, i) = F!text(a[k])
<1>a. \A l \in 1 .. m : s[l] = F!NL <=> \E q \in 1 .. n : t + l = off[q]
  BY Marks DEF Inside
<1>b. \A q \in 1 .. n, l \in 1 .. m : off[q - 1] < t + l /\ t + l <= off[q] => s[l] = F!bytes(a[q])[(t + l) - off[q - 1]]
  BY ByteOfFrame DEF Inside
<1>0. /\ n \in Nat /\ off \in [0 .. n -> Nat] /\ t \in Nat /\ m \in Nat /\ s \in [1 .. m -> Int]
      /\ lo \in Nat /\ hi \in Nat /\ lo <= hi /\ hi <= n
  BY DEF Inside, Stream, Lay
<1>1. \A j, l \in 0 .. n : j < l => off[j] < off[l]
  BY DEF Inside, Stream, Lay
<1>2. k \in 1 .. n /\ k \in Nat /\ k - 1 \in 0 .. n /\ k \in 0 .. n
  BY <1>0
<1>3. t <= off[k - 1] /\ off[k] <= t + m
  BY <1>2 DEF Inside
<1>4. off[k - 1] \in Nat /\ off[k] \in Nat /\ off[k] = off[k - 1] + Size(a[k]) /\ a[k] \in Nat \ {0}
  BY <1>0, <1>2 DEF Inside, Stream, Lay
<1>5. Size(a[k]) \in {3, 4}
  BY <1>4, FrameBytes
<1> DEFINE e == off[k] - t
<1>6. i \in 1 .. m /\ e \in 1 .. m /\ i < e /\ t + e = off[k] /\ e - i = Size(a[k]) - 1 /\ t + i = off[k - 1] + 1
  <2>1. t \in Nat /\ m \in Nat
    BY <1>0
  <2> QED BY ONLY <1>3, <1>4, <1>5, <2>1, i = (off[k - 1] - t) + 1
<1>7. F!Ends(s) = {l \in 1 .. m : s[l] = F!NL}
  BY <1>0 DEF F!Ends
<1> HIDE DEF e
<1>8. F!Min({l \in F!Ends(s) : i < l}) = e
  <2>1. e \in {l \in F!Ends(s) : i < l}
    BY <1>a, <1>2, <1>6, <1>7
  <2>2. ASSUME NEW y \in F!Ends(s), i < y PROVE e <= y
    <3>1. y \in 1 .. m
      BY <1>7
    <3>2. PICK q \in 1 .. n : t + y = off[q]
      BY <1>a, <1>7
    <3>3. q \in 0 .. n /\ q \in Nat /\ off[q] \in Nat
      BY <1>0
    <3>4. off[k - 1] < off[q]
      <4>1. t \in Nat /\ m \in Nat
        BY <1>0
      <4> QED BY ONLY <1>4, <1>6, <2>2, <3>1, <3>2, <3>3, <4>1
    <3>5. k <= q
      <4> SUFFICES ASSUME ~(k <= q) PROVE FALSE
        OBVIOUS
      <4>1. q = k - 1 \/ q < k - 1
        BY <1>2, <3>3
      <4> QED BY <1>1, <1>2, <1>4, <3>3, <3>4, <4>1
    <3>6. off[k] <= off[q]
      <4>1. k = q \/ k < q
        BY <1>2, <3>3, <3>5
      <4> QED BY <1>1, <1>2, <1>4, <3>3, <4>1
    <3> QED
      <4>1. t \in Nat /\ m \in Nat
        BY <1>0
      <4> QED BY ONLY <1>4, <1>6, <3>1, <3>2, <3>3, <3>6, <4>1
  <2>3. {l \in F!Ends(s) : i < l} \subseteq Int
    BY <1>0, <1>7
  <2> DEFINE W == {l \in F!Ends(s) : i < l}
  <2>4. e \in W /\ W \subseteq Int /\ \A y \in W : e <= y
    BY <2>1, <2>2, <2>3
  <2> HIDE DEF W
  <2>5. F!Min(W) = e
    BY ONLY <2>4, LeastIs
  <2> QED BY <2>5 DEF W
<1>9. i + 1 \in 1 .. Len(s) + 1 /\ e - 1 \in (i + 1) - 1 .. Len(s) /\ ((e - 1) - (i + 1)) + 1 = Size(a[k]) - 2
  <2>1. m \in Nat /\ Len(s) = m
    BY <1>0
  <2> QED BY ONLY <1>5, <1>6, <2>1
<1>10. PICK z : z = SubSeq(s, i + 1, e - 1)
  OBVIOUS
<1>11. z \in Seq(Int) /\ Len(z) = Size(a[k]) - 2 /\ \A j \in 1 .. Size(a[k]) - 2 : z[j] = s[((i + 1) + j) - 1]
  <2>1. PICK p \in 1 .. Len(s) + 1 : p = i + 1
    BY <1>9
  <2>2. PICK q \in p - 1 .. Len(s) : q = e - 1
    BY <1>9, <2>1
  <2>3. /\ SubSeq(s, p, q) \in Seq(Int) /\ Len(SubSeq(s, p, q)) = q - p + 1
        /\ \A j \in 1 .. q - p + 1 : SubSeq(s, p, q)[j] = s[p + j - 1]
    BY ONLY s \in Seq(Int), p \in 1 .. Len(s) + 1, q \in p - 1 .. Len(s), Part
  <2>4. z = SubSeq(s, p, q)
    BY <1>10, <2>1, <2>2
  <2>5. q - p + 1 = Size(a[k]) - 2
    BY <1>9, <2>1, <2>2
  <2>6. ASSUME NEW j \in 1 .. Size(a[k]) - 2 PROVE p + j - 1 = ((i + 1) + j) - 1
    BY <1>5, <1>6, <2>1
  <2> QED BY <2>3, <2>4, <2>5, <2>6
<1>12. ASSUME NEW j \in 1 .. Size(a[k]) - 2 PROVE z[j] = a[k]
  <2>1. /\ i + j \in 1 .. m /\ ((i + 1) + j) - 1 = i + j /\ off[k - 1] < t + (i + j) /\ t + (i + j) <= off[k]
        /\ (t + (i + j)) - off[k - 1] = j + 1 /\ j + 1 \in 2 .. Size(a[k]) - 1
    <3>1. t \in Nat /\ m \in Nat
      BY <1>0
    <3> QED BY ONLY <1>4, <1>5, <1>6, <3>1, j \in 1 .. Size(a[k]) - 2
  <2>2. z[j] = s[i + j]
    BY <1>11, <2>1
  <2>3. s[i + j] = F!bytes(a[k])[j + 1]
    BY <1>b, <1>2, <2>1
  <2> QED BY <1>4, <2>1, <2>2, <2>3, FrameBytes
<1>13. z = [j \in 1 .. Size(a[k]) - 2 |-> a[k]]
  BY <1>5, <1>11, <1>12
<1> QED BY <1>4, <1>8, <1>10, <1>13, FrameBytes DEF TextAt

\* What user_fifo_read_proc finds: the text of every frame that has arrived whole.
TextsIn(a, lo, hi) == [k \in 1 .. hi - lo |-> F!text(a[lo + k])]

LEMMA TextsAre ==
  ASSUME NEW n, NEW a, NEW off, NEW t, NEW m, NEW s, NEW lo, NEW hi,
         Inside(n, a, off, t, m, s, lo, hi), s \in Seq(Int), Len(s) = m
  PROVE  F!Texts(s) = TextsIn(a, lo, hi)
<1>0. /\ n \in Nat /\ off \in [0 .. n -> Nat] /\ t \in Nat /\ lo \in Nat /\ hi \in Nat /\ lo <= hi /\ hi <= n
  BY DEF Inside, Stream, Lay
<1>1. \A j, l \in 0 .. n : j < l => off[j] < off[l]
  BY DEF Inside, Stream, Lay
<1>2. ASSUME NEW k \in lo + 1 .. hi
      PROVE  k - 1 \in 0 .. n /\ off[k - 1] \in Nat /\ t <= off[k - 1]
  <2>1. k \in 1 .. n /\ k - 1 \in 0 .. n
    BY <1>0
  <2> QED BY <1>0, <2>1 DEF Inside
<1>3. ASSUME NEW k \in 1 .. hi - lo PROVE lo + k \in lo + 1 .. hi
  BY <1>0
<1> DEFINE g == [k \in 1 .. hi - lo |-> (off[(lo + k) - 1] - t) + 1]
<1>4. g \in [1 .. hi - lo -> Nat]
  <2>1. ASSUME NEW k \in 1 .. hi - lo PROVE (off[(lo + k) - 1] - t) + 1 \in Nat
    <3>1. off[(lo + k) - 1] \in Nat /\ t <= off[(lo + k) - 1] /\ t \in Nat
      BY <1>0, <1>2, <1>3
    <3> QED BY ONLY <3>1
  <2> QED BY <2>1
<1>5. ASSUME NEW j \in 1 .. hi - lo, NEW k \in 1 .. hi - lo, j < k
      PROVE  g[j] < g[k]
  <2>1. /\ (lo + j) - 1 \in 0 .. n /\ off[(lo + j) - 1] \in Nat /\ (lo + k) - 1 \in 0 .. n
        /\ off[(lo + k) - 1] \in Nat /\ (lo + j) - 1 < (lo + k) - 1
    BY <1>0, <1>2, <1>3, <1>5
  <2>2. off[(lo + j) - 1] < off[(lo + k) - 1]
    BY <1>1, <2>1
  <2>3. t \in Int
    BY <1>0
  <2>4. (off[(lo + j) - 1] - t) + 1 < (off[(lo + k) - 1] - t) + 1
    BY ONLY <2>1, <2>2, <2>3
  <2> QED BY <2>4
<1>6. F!Begins(s) = {g[k] : k \in 1 .. hi - lo}
  <2>1. F!Begins(s) = {(off[k - 1] - t) + 1 : k \in lo + 1 .. hi}
    BY BeginsAre
  <2>2. ASSUME NEW k \in lo + 1 .. hi PROVE k - lo \in 1 .. hi - lo /\ lo + (k - lo) = k
    BY <1>0
  <2>3. \A k \in lo + 1 .. hi : (off[k - 1] - t) + 1 = g[k - lo]
    BY <2>2
  <2>4. \A k \in 1 .. hi - lo : g[k] = (off[(lo + k) - 1] - t) + 1
    OBVIOUS
  <2> HIDE DEF g
  <2>5. ASSUME NEW x \in F!Begins(s) PROVE x \in {g[k] : k \in 1 .. hi - lo}
    BY <2>1, <2>2, <2>3
  <2>6. ASSUME NEW k \in 1 .. hi - lo PROVE g[k] \in F!Begins(s)
    BY <1>3, <2>1, <2>4
  <2> QED BY <2>5, <2>6
<1>7. ASSUME NEW k \in 1 .. hi - lo PROVE g[k] = (off[(lo + k) - 1] - t) + 1
  OBVIOUS
<1> HIDE DEF g
<1>8. hi - lo \in Nat
  BY <1>0
<1> DEFINE B == F!Begins(s)
<1>9. Cardinality(B) = hi - lo /\ \A k \in 1 .. hi - lo : Cardinality({x \in B : x < g[k]}) = k - 1
  <2>1. B = {g[k] : k \in 1 .. hi - lo}
    BY <1>6
  <2> HIDE DEF B
  <2>2. PICK d \in Nat : d = hi - lo
    BY <1>8
  <2>3. g \in [1 .. d -> Nat] /\ (\A j, k \in 1 .. d : j < k => g[j] < g[k]) /\ B = {g[k] : k \in 1 .. d}
    BY <1>4, <1>5, <2>1, <2>2
  <2>5. Lists(d, g, B)
    BY <2>3 DEF Lists
  <2>4. Cardinality(B) = d /\ \A k \in 1 .. d : Cardinality({x \in B : x < g[k]}) = k - 1
    BY ONLY <2>5, Ranks
  <2> QED BY <2>2, <2>4
<1>10. \A S : F!Cardinality(S) = Cardinality(S)
  BY DEF F!Cardinality, Cardinality
<1> DEFINE nth(k) == CHOOSE i \in B : F!Cardinality({j \in B : j < i}) = k - 1
<1>11. ASSUME NEW k \in 1 .. hi - lo PROVE nth(k) = g[k]
  <2>1. g[k] \in B /\ F!Cardinality({j \in B : j < g[k]}) = k - 1
    BY <1>6, <1>9, <1>10
  <2>2. nth(k) \in B /\ F!Cardinality({j \in B : j < nth(k)}) = k - 1
    BY <2>1
  <2> HIDE DEF nth
  <2>3. PICK q \in 1 .. hi - lo : nth(k) = g[q]
    BY <1>6, <2>2
  <2>4. q - 1 = k - 1
    BY <1>9, <1>10, <2>2, <2>3
  <2> QED BY <1>8, <2>3, <2>4
<1>12. F!Texts(s) = [k \in 1 .. F!Cardinality(B) |->
                       TextAt(s, nth(k))]
  BY DEF F!Texts, TextAt
<1> HIDE DEF nth, B
<1>13. ASSUME NEW k \in 1 .. hi - lo
       PROVE  TextAt(s, nth(k)) = F!text(a[lo + k])
  <2>1. PICK q \in lo + 1 .. hi : q = lo + k
    BY <1>3
  <2>2. PICK x : x = nth(k)
    OBVIOUS
  <2>3. x = (off[q - 1] - t) + 1
    BY <1>7, <1>11, <2>1, <2>2
  <2>4. TextAt(s, x) = F!text(a[q])
    BY ONLY Inside(n, a, off, t, m, s, lo, hi), s \in Seq(Int), Len(s) = m, q \in lo + 1 .. hi, <2>3, TextOf
  <2> QED BY <2>1, <2>2, <2>4
<1> QED BY <1>9, <1>10, <1>12, <1>13 DEF TextsIn

\* Frame f behind the others.
Grown(n, a, off, m, s, f, b, z, new) ==
  /\ b = [k \in 1 .. n + 1 |-> IF k <= n THEN a[k] ELSE f]
  /\ z = [i \in 1 .. m + Size(f) |-> IF i <= m THEN s[i] ELSE F!bytes(f)[i - m]]
  /\ new = [k \in 0 .. n + 1 |-> IF k <= n THEN off[k] ELSE off[n] + Size(f)]

\* A write puts a whole frame at the end of the stream.
LEMMA StreamGrows ==
  ASSUME NEW n, NEW a, NEW off, NEW t, NEW m, NEW s, Stream(n, a, off, t, m, s), t + m = off[n],
         NEW f \in Nat \ {0}, NEW b, NEW z, NEW new, Grown(n, a, off, m, s, f, b, z, new)
  PROVE  Stream(n + 1, b, new, t, m + Size(f), z) /\ t + (m + Size(f)) = new[n + 1]
<1> /\ b = [k \in 1 .. n + 1 |-> IF k <= n THEN a[k] ELSE f]
    /\ z = [i \in 1 .. m + Size(f) |-> IF i <= m THEN s[i] ELSE F!bytes(f)[i - m]]
    /\ new = [k \in 0 .. n + 1 |-> IF k <= n THEN off[k] ELSE off[n] + Size(f)]
  BY DEF Grown
<1>1. /\ n \in Nat /\ a \in [1 .. n -> Nat \ {0}] /\ off \in [0 .. n -> Nat] /\ off[0] = 0
      /\ t \in Nat /\ m \in Nat /\ s \in [1 .. m -> Int]
  BY DEF Stream, Lay
<1>2. /\ \A k \in 1 .. n : off[k] = off[k - 1] + Size(a[k])
      /\ \A j, k \in 0 .. n : j < k => off[j] < off[k]
  BY DEF Stream, Lay
<1>3. Size(f) \in {3, 4} /\ F!bytes(f) \in Seq(Int) /\ Len(F!bytes(f)) = Size(f)
  BY FrameBytes
<1>4. n \in 0 .. n /\ off[n] \in Nat
  BY <1>1
<1>5. b \in [1 .. n + 1 -> Nat \ {0}] /\ b[n + 1] = f /\ \A k \in 1 .. n : b[k] = a[k]
  BY <1>1
<1>6. new \in [0 .. n + 1 -> Nat] /\ new[n + 1] = off[n] + Size(f) /\ \A k \in 0 .. n : new[k] = off[k]
  <2>1. PICK d : d = off[n] + Size(f)
    OBVIOUS
  <2>2. d \in Nat
    BY <1>3, <1>4, <2>1
  <2>3. new = [k \in 0 .. n + 1 |-> IF k <= n THEN off[k] ELSE d]
    BY <2>1
  <2>4. n + 1 \in 0 .. n + 1 /\ ~(n + 1 <= n) /\ \A k \in 0 .. n : k \in 0 .. n + 1 /\ k <= n
    BY <1>1
  <2>5. \A k \in 0 .. n + 1 : k <= n => k \in 0 .. n
    BY <1>1
  <2>6. \A k \in 0 .. n + 1 : (IF k <= n THEN off[k] ELSE d) \in Nat
    BY <1>1, <2>2, <2>5
  <2> QED BY <2>1, <2>3, <2>4, <2>6
<1>7. \A k \in 1 .. n + 1 : new[k] = new[k - 1] + Size(b[k])
  <2> TAKE k \in 1 .. n + 1
  <2>1. CASE k = n + 1
    <3>1. k - 1 = n
      BY <1>1, <2>1
    <3> QED BY <1>4, <1>5, <1>6, <2>1, <3>1
  <2>2. CASE k \in 1 .. n
    <3>1. k - 1 \in 0 .. n /\ k \in 0 .. n
      BY <1>1, <2>2
    <3> QED BY <1>2, <1>5, <1>6, <2>2, <3>1
  <2> QED BY <1>1, <2>1, <2>2
<1>8. \A j, k \in 0 .. n + 1 : j < k => new[j] < new[k]
  <2> SUFFICES ASSUME NEW j \in 0 .. n + 1, NEW k \in 0 .. n + 1, j < k PROVE new[j] < new[k]
    OBVIOUS
  <2>1. CASE k \in 0 .. n
    <3>1. j \in 0 .. n
      BY <1>1, <2>1
    <3> QED BY <1>2, <1>6, <2>1, <3>1
  <2>2. CASE k = n + 1
    <3>1. j \in 0 .. n /\ (j = n \/ j < n)
      BY <1>1, <2>2
    <3>2. off[j] \in Nat /\ off[j] <= off[n]
      BY <1>1, <1>2, <1>4, <3>1
    <3>3. new[j] = off[j] /\ new[k] = off[n] + Size(f)
      BY <1>6, <2>2, <3>1
    <3> QED BY ONLY <1>3, <1>4, <3>2, <3>3
  <2> QED BY <1>1, <2>1, <2>2
<1>9. Lay(n + 1, b, new)
  <2>1. n + 1 \in Nat /\ new[0] = 0
    BY <1>1, <1>6
  <2> QED BY <1>5, <1>6, <1>7, <1>8, <2>1 DEF Lay
<1>10. /\ m + Size(f) \in Nat /\ \A i \in 1 .. m : z[i] = s[i]
       /\ \A i \in m + 1 .. m + Size(f) : z[i] = F!bytes(f)[i - m]
  <2>1. PICK d \in {3, 4} : d = Size(f)
    BY <1>3
  <2>2. z = [i \in 1 .. m + d |-> IF i <= m THEN s[i] ELSE F!bytes(f)[i - m]]
    BY <2>1
  <2>3. \A i \in 1 .. m : i \in 1 .. m + d /\ i <= m
    BY ONLY <1>1, d \in {3, 4}
  <2>4. \A i \in m + 1 .. m + d : i \in 1 .. m + d /\ ~(i <= m)
    BY ONLY <1>1, d \in {3, 4}
  <2>5. m + d \in Nat
    BY ONLY <1>1, d \in {3, 4}
  <2>6. \A i \in 1 .. m : z[i] = s[i]
    BY ONLY <2>2, <2>3
  <2>7. \A i \in m + 1 .. m + d : z[i] = F!bytes(f)[i - m]
    BY ONLY <2>2, <2>4
  <2> QED BY <2>1, <2>5, <2>6, <2>7
<1>11. ASSUME NEW i \in m + 1 .. m + Size(f) PROVE i - m \in 1 .. Size(f) /\ F!bytes(f)[i - m] \in Int
  <2>1. i - m \in 1 .. Size(f)
    BY <1>1, <1>3
  <2> QED BY <1>3, <2>1
<1>12. z \in [1 .. m + Size(f) -> Int]
  <2>1. ASSUME NEW i \in 1 .. m + Size(f) PROVE z[i] \in Int
    <3>1. i \in 1 .. m \/ i \in m + 1 .. m + Size(f)
      BY <1>1, <1>3
    <3> QED BY <1>1, <1>10, <1>11, <3>1
  <2> QED BY <2>1
<1>13. ASSUME NEW i \in 1 .. m + Size(f)
       PROVE  \E k \in 1 .. n + 1 :
                new[k - 1] < t + i /\ t + i <= new[k] /\ z[i] = F!bytes(b[k])[(t + i) - new[k - 1]]
  <2>1. CASE i \in 1 .. m
    <3>1. PICK k \in 1 .. n : off[k - 1] < t + i /\ t + i <= off[k] /\ s[i] = F!bytes(a[k])[(t + i) - off[k - 1]]
      BY <2>1 DEF Stream
    <3>2. k - 1 \in 0 .. n /\ k \in 0 .. n /\ k \in 1 .. n + 1
      BY <1>1
    <3>3. new[k - 1] = off[k - 1] /\ new[k] = off[k] /\ b[k] = a[k] /\ z[i] = s[i]
      BY <1>5, <1>6, <1>10, <2>1, <3>2
    <3> QED BY <3>1, <3>2, <3>3
  <2>2. CASE i \in m + 1 .. m + Size(f)
    <3>1. n + 1 \in 1 .. n + 1 /\ (n + 1) - 1 = n
      BY <1>1
    <3>2. new[n] = off[n] /\ new[n + 1] = off[n] + Size(f) /\ b[n + 1] = f /\ z[i] = F!bytes(f)[i - m]
      BY <1>4, <1>5, <1>6, <1>10, <2>2
    <3>3. off[n] < t + i /\ t + i <= off[n] + Size(f) /\ (t + i) - off[n] = i - m
      BY ONLY <1>1, <1>3, <1>4, <2>2, t + m = off[n]
    <3> QED BY <3>1, <3>2, <3>3
  <2>3. i \in 1 .. m \/ i \in m + 1 .. m + Size(f)
    BY ONLY <1>1, <1>3, i \in 1 .. m + Size(f)
  <2> QED BY <2>1, <2>2, <2>3
<1>14. t + (m + Size(f)) = new[n + 1]
  BY ONLY <1>1, <1>3, <1>4, <1>6, t + m = off[n]
<1> QED BY <1>1, <1>9, <1>10, <1>12, <1>13, <1>14 DEF Stream

\* The beginning of what is there, and the rest of it.
LEMMA StreamParts ==
  ASSUME NEW n, NEW a, NEW off, NEW t, NEW m, NEW s, Stream(n, a, off, t, m, s), NEW d \in 0 .. m,
         NEW y, y = [i \in 1 .. d |-> s[i]], NEW z, z = [i \in 1 .. m - d |-> s[d + i]]
  PROVE  Stream(n, a, off, t, d, y) /\ Stream(n, a, off, t + d, m - d, z)
<1>1. Lay(n, a, off) /\ t \in Nat /\ m \in Nat /\ s \in [1 .. m -> Int]
  BY DEF Stream
<1>2. d \in Nat /\ t + d \in Nat /\ m - d \in Nat
  BY <1>1
<1>3. \A i \in 1 .. m : \E k \in 1 .. n :
        off[k - 1] < t + i /\ t + i <= off[k] /\ s[i] = F!bytes(a[k])[(t + i) - off[k - 1]]
  BY DEF Stream
<1>4. y \in [1 .. d -> Int] /\ \A i \in 1 .. d : i \in 1 .. m /\ y[i] = s[i]
  BY <1>1, <1>2
<1>5. ASSUME NEW i \in 1 .. m - d PROVE d + i \in 1 .. m /\ t + (d + i) = (t + d) + i
  BY <1>1, <1>2
<1>6. z \in [1 .. m - d -> Int] /\ \A i \in 1 .. m - d : z[i] = s[d + i]
  BY <1>1, <1>5
<1>7. Stream(n, a, off, t, d, y)
  BY <1>1, <1>2, <1>3, <1>4 DEF Stream
<1>8. ASSUME NEW i \in 1 .. m - d
      PROVE  \E k \in 1 .. n :
               off[k - 1] < (t + d) + i /\ (t + d) + i <= off[k] /\ z[i] = F!bytes(a[k])[((t + d) + i) - off[k - 1]]
  <2>1. PICK k \in 1 .. n :
          off[k - 1] < t + (d + i) /\ t + (d + i) <= off[k] /\ s[d + i] = F!bytes(a[k])[(t + (d + i)) - off[k - 1]]
    BY <1>3, <1>5
  <2> QED BY <1>5, <1>6, <2>1
<1>9. Stream(n, a, off, t + d, m - d, z)
  BY <1>1, <1>2, <1>6, <1>8 DEF Stream
<1> QED BY <1>7, <1>9

\* x is in frame k, or at the beginning of the stream.
FrameIn(n, off, x, k) == k \in 0 .. n /\ x <= off[k] /\ (k = 0 \/ off[k - 1] < x)

\* Whole frames between t in frame lo and the end in frame mid.
LEMMA FramesInside ==
  ASSUME NEW n, NEW a, NEW off, NEW t, NEW m, NEW s, NEW lo, NEW mid, Stream(n, a, off, t, m, s),
         FrameIn(n, off, t, lo), FrameIn(n, off, t + m, mid)
  PROVE  \E hi \in lo .. mid : Inside(n, a, off, t, m, s, lo, hi) /\ (off[mid] = t + m => hi = mid)
<1>1. n \in Nat /\ off \in [0 .. n -> Nat] /\ t \in Nat /\ m \in Nat
  BY DEF Stream, Lay
<1>2. \A j, k \in 0 .. n : j < k => off[j] < off[k]
  BY DEF Stream, Lay
<1>3. /\ lo \in 0 .. n /\ t <= off[lo] /\ (lo = 0 \/ off[lo - 1] < t)
      /\ mid \in 0 .. n /\ t + m <= off[mid] /\ (mid = 0 \/ off[mid - 1] < t + m)
  BY DEF FrameIn
<1>4. \A j, k \in 0 .. n : j <= k => off[j] <= off[k]
  <2> SUFFICES ASSUME NEW j \in 0 .. n, NEW k \in 0 .. n, j <= k PROVE off[j] <= off[k]
    OBVIOUS
  <2>1. off[j] \in Nat /\ off[k] \in Nat /\ (j = k \/ j < k)
    BY <1>1
  <2> QED BY <1>2, <2>1
<1>5. lo <= mid
  <2> SUFFICES ASSUME ~(lo <= mid) PROVE FALSE
    OBVIOUS
  <2>1. lo - 1 \in 0 .. n /\ mid <= lo - 1 /\ lo # 0
    BY <1>1, <1>3
  <2>2. off[mid] <= off[lo - 1] /\ off[mid] \in Nat /\ off[lo - 1] \in Nat
    BY <1>1, <1>3, <1>4, <2>1
  <2> QED BY ONLY <1>1, <1>3, <2>1, <2>2
<1> DEFINE hi == IF off[mid] = t + m \/ mid = lo THEN mid ELSE mid - 1
<1>6. hi \in lo .. mid /\ hi \in 0 .. n /\ (off[mid] = t + m => hi = mid)
  BY <1>1, <1>3, <1>5
<1>7. ASSUME NEW k \in 1 .. n, t <= off[k - 1], off[k] <= t + m
      PROVE  k \in lo + 1 .. hi
  <2>1. k - 1 \in 0 .. n /\ k \in 0 .. n /\ off[k - 1] \in Nat /\ off[k] \in Nat
    BY <1>1
  <2>2. lo < k
    <3> SUFFICES ASSUME ~(lo < k) PROVE FALSE
      OBVIOUS
    <3>1. lo # 0 /\ k - 1 <= lo - 1 /\ lo - 1 \in 0 .. n
      BY <1>1, <1>3
    <3>2. off[k - 1] <= off[lo - 1] /\ off[lo - 1] \in Nat
      BY <1>1, <1>4, <2>1, <3>1
    <3> QED BY ONLY <1>1, <1>3, <1>7, <2>1, <3>1, <3>2
  <2>3. k <= mid
    <3> SUFFICES ASSUME ~(k <= mid) PROVE FALSE
      OBVIOUS
    <3>1. mid < k
      BY <1>1, <1>3
    <3>2. off[mid] < off[k] /\ off[mid] \in Nat
      BY <1>1, <1>2, <1>3, <2>1, <3>1
    <3> QED BY ONLY <1>1, <1>3, <1>7, <2>1, <3>2
  <2>4. k = mid => off[mid] = t + m
    <3> SUFFICES ASSUME k = mid PROVE off[mid] = t + m
      OBVIOUS
    <3>1. off[mid] <= t + m /\ t + m <= off[mid]
      BY <1>3, <1>7
    <3>2. off[mid] \in Nat /\ t + m \in Nat
      BY <1>1, <1>3
    <3> QED BY ONLY <3>1, <3>2
  <2> QED BY <1>1, <1>3, <1>5, <2>2, <2>3, <2>4
<1>8. ASSUME NEW k \in lo + 1 .. hi
      PROVE  t <= off[k - 1] /\ off[k] <= t + m
  <2>1. k - 1 \in 0 .. n /\ k \in 0 .. n /\ lo <= k - 1 /\ k <= hi
    BY <1>1, <1>3, <1>6
  <2>2. off[k - 1] \in Nat /\ off[k] \in Nat /\ off[lo] \in Nat /\ off[hi] \in Nat /\ off[lo] <= off[k - 1] /\ off[k] <= off[hi]
    BY <1>1, <1>3, <1>4, <1>6, <2>1
  <2>3. off[hi] <= t + m
    <3>1. CASE off[mid] = t + m
      BY <1>1, <3>1
    <3>2. CASE off[mid] # t + m
      <4>1. mid # lo
        BY <1>1, <1>3, <1>6, <2>1, <3>2
      <4>2. hi = mid - 1 /\ mid # 0
        BY <1>1, <1>3, <1>5, <3>2, <4>1
      <4>3. off[mid - 1] < t + m
        BY <1>3, <4>2
      <4> HIDE DEF hi
      <4>4. off[mid - 1] = off[hi]
        BY <4>2
      <4> QED BY ONLY <1>1, <2>2, <4>3, <4>4
    <3> QED BY <3>1, <3>2
  <2> HIDE DEF hi
  <2> QED BY ONLY <1>1, <1>3, <2>2, <2>3
<1> HIDE DEF hi
<1>9. Inside(n, a, off, t, m, s, lo, hi)
  <2>1. lo \in Nat /\ hi \in Nat /\ lo <= hi /\ hi <= n
    BY <1>1, <1>3, <1>6
  <2>2. \A k \in 1 .. n : (t <= off[k - 1] /\ off[k] <= t + m) <=> k \in lo + 1 .. hi
    BY <1>7, <1>8
  <2> QED BY <2>1, <2>2 DEF Inside
<1> QED BY <1>6, <1>9

LEMMA FrameAt ==
  ASSUME NEW n, NEW a, NEW off, NEW t, NEW m, NEW s, NEW lo, Stream(n, a, off, t, m, s),
         FrameIn(n, off, t, lo), NEW d \in 0 .. m
  PROVE  \E k \in 0 .. n : FrameIn(n, off, t + d, k)
<1>1. n \in Nat /\ off \in [0 .. n -> Nat] /\ t \in Nat /\ m \in Nat
  BY DEF Stream, Lay
<1>2. CASE d = 0
  <2>1. t + d = t
    BY <1>1, <1>2
  <2> QED BY <2>1 DEF FrameIn
<1>3. CASE d # 0
  <2>1. d \in 1 .. m
    BY <1>1, <1>3
  <2>2. PICK k \in 1 .. n : off[k - 1] < t + d /\ t + d <= off[k]
    BY <2>1 DEF Stream
  <2>3. k \in 0 .. n
    BY <1>1
  <2> QED BY <2>2, <2>3 DEF FrameIn
<1> QED BY <1>2, <1>3

LEMMA FrameEnd ==
  ASSUME NEW n, NEW a, NEW off, Lay(n, a, off), NEW k \in 0 .. n
  PROVE  FrameIn(n, off, off[k], k) /\ off[k] \in Nat
<1>1. n \in Nat /\ off \in [0 .. n -> Nat] /\ \A j, l \in 0 .. n : j < l => off[j] < off[l]
  BY DEF Lay
<1>2. k # 0 => k - 1 \in 0 .. n /\ k - 1 < k
  BY <1>1
<1>3. off[k] \in Nat /\ off[k] <= off[k]
  BY <1>1
<1> QED BY <1>1, <1>2, <1>3 DEF FrameIn

\* The daemon has rb and the pipe has pi: together they are the stream from t, in frame
\* lo, to its end.  The texts ha are those of frames up to lo, in order; with whole, they
\* are all of them, and rb ends where a frame ends.
Placed(n, a, off, t, lo, from, rb, pi, ha, whole) ==
  /\ Stream(n, a, off, t, Len(rb) + Len(pi), rb \o pi)
  /\ t + (Len(rb) + Len(pi)) = off[n]
  /\ FrameIn(n, off, t, lo)
  /\ from \in [1 .. Len(ha) -> 1 .. lo]
  /\ \A k \in 1 .. Len(ha) : ha[k] = F!text(a[from[k]])
  /\ \A j, k \in 1 .. Len(ha) : j < k => from[j] < from[k]
  /\ whole => /\ t = off[lo] /\ Len(ha) = lo /\ \A k \in 1 .. lo : ha[k] = F!text(a[k])
              /\ \E mid \in 0 .. n : t + Len(rb) = off[mid]

LEMMA Associates ==
  ASSUME NEW s \in Seq(Int), NEW t \in Seq(Int), NEW u \in Seq(Int)
  PROVE  s \o (t \o u) = (s \o t) \o u
<1>1. PICK T : T = Int
  OBVIOUS
<1>2. s \in Seq(T) /\ t \in Seq(T) /\ u \in Seq(T)
  BY <1>1
<1> QED BY ONLY <1>2, ConcatAssociative, SMTT(30)

Written(n, a, f, b, pi, p) ==
  /\ a \in Seq(Nat \ {0}) /\ n = Len(a) /\ f \in Nat \ {0} /\ b = Append(a, f)
  /\ pi \in Seq(Int) /\ p = pi \o F!bytes(f)

LEMMA PlacedWrite ==
  ASSUME NEW n, NEW a, NEW off, NEW t, NEW lo, NEW from, NEW rb \in Seq(Int), NEW pi, NEW ha, NEW whole,
         Placed(n, a, off, t, lo, from, rb, pi, ha, whole),
         NEW f, NEW b, NEW p, Written(n, a, f, b, pi, p)
  PROVE  b \in Seq(Nat \ {0}) /\ p \in Seq(Int) /\ \E o : Placed(Len(b), b, o, t, lo, from, rb, p, ha, whole)
<1> /\ a \in Seq(Nat \ {0}) /\ n = Len(a) /\ f \in Nat \ {0} /\ b = Append(a, f)
    /\ pi \in Seq(Int) /\ p = pi \o F!bytes(f)
  BY DEF Written
<1>1. PICK x : x = F!bytes(f)
  OBVIOUS
<1>2. Size(f) \in {3, 4} /\ x \in Seq(Int) /\ Len(x) = Size(f)
  BY <1>1, FrameBytes
<1>3. PICK s : s = rb \o pi
  OBVIOUS
<1>4. /\ s \in Seq(Int) /\ Len(rb) \in Nat /\ Len(pi) \in Nat /\ Len(s) = Len(rb) + Len(pi)
      /\ \A i \in 1 .. Len(rb) : s[i] = rb[i]
      /\ \A i \in 1 .. Len(pi) : s[Len(rb) + i] = pi[i]
  BY <1>3, Joined
<1>5. p = pi \o x
  BY <1>1
<1>6. /\ p \in Seq(Int) /\ Len(p) = Len(pi) + Len(x)
  BY ONLY pi \in Seq(Int), <1>2, <1>5, Joined
<1>7. PICK z : z = rb \o p
  OBVIOUS
<1>8. z = s \o x
  <2>1. rb \in Seq(Int) /\ pi \in Seq(Int) /\ x \in Seq(Int)
    BY <1>2
  <2>2. rb \o (pi \o x) = (rb \o pi) \o x
    BY <2>1, Associates
  <2> QED BY ONLY <2>2, <1>3, <1>5, <1>7
<1>9. /\ z \in Seq(Int) /\ Len(z) = Len(s) + Len(x)
      /\ \A i \in 1 .. Len(s) : z[i] = s[i]
      /\ \A i \in 1 .. Len(x) : z[Len(s) + i] = x[i]
  <2>1. s \in Seq(Int) /\ x \in Seq(Int)
    BY <1>2, <1>4
  <2> QED BY ONLY <2>1, <1>8, Joined
<1>10. PICK m \in Nat : m = Len(s)
  BY <1>4
<1>11. z = [i \in 1 .. m + Size(f) |-> IF i <= m THEN s[i] ELSE F!bytes(f)[i - m]]
  <2>1. PICK d \in {3, 4} : d = Size(f)
    BY <1>2
  <2>2. z = [i \in 1 .. m + d |-> z[i]]
    BY <1>2, <1>9, <1>10, <2>1
  <2>3. ASSUME NEW i \in 1 .. m + d PROVE z[i] = IF i <= m THEN s[i] ELSE x[i - m]
    <3>1. i <= m => i \in 1 .. m
      BY ONLY m \in Nat, d \in {3, 4}, i \in 1 .. m + d
    <3>2. ~(i <= m) => i - m \in 1 .. d /\ m + (i - m) = i
      BY ONLY m \in Nat, d \in {3, 4}, i \in 1 .. m + d
    <3> QED BY <1>2, <1>9, <1>10, <2>1, <3>1, <3>2
  <2>4. z = [i \in 1 .. m + d |-> IF i <= m THEN s[i] ELSE x[i - m]]
    BY ONLY <2>2, <2>3
  <2> QED BY <1>1, <2>1, <2>4
<1>12. n \in Nat /\ Len(b) = n + 1 /\ b \in Seq(Nat \ {0}) /\ b[n + 1] = f /\ \A k \in 1 .. n : b[k] = a[k]
  OBVIOUS
<1>13. b = [k \in 1 .. n + 1 |-> IF k <= n THEN a[k] ELSE f]
  <2>1. b = [k \in 1 .. n + 1 |-> b[k]]
    <3>1. b = [k \in 1 .. Len(b) |-> b[k]]
      BY <1>12, LenProperties
    <3> QED BY <1>12, <3>1
  <2>2. ASSUME NEW k \in 1 .. n + 1 PROVE b[k] = IF k <= n THEN a[k] ELSE f
    <3>1. k <= n => k \in 1 .. n
      BY <1>12
    <3>2. ~(k <= n) => k = n + 1
      BY <1>12
    <3> QED BY <1>12, <3>1, <3>2
  <2> QED BY <2>1, <2>2
<1>14. Stream(n, a, off, t, m, s) /\ t + m = off[n]
  BY <1>3, <1>4, <1>10 DEF Placed
<1>15. PICK o : o = [k \in 0 .. n + 1 |-> IF k <= n THEN off[k] ELSE off[n] + Size(f)]
  OBVIOUS
<1>16. Stream(n + 1, b, o, t, m + Size(f), z) /\ t + (m + Size(f)) = o[n + 1]
  <2>1. Grown(n, a, off, m, s, f, b, z, o)
    BY <1>11, <1>13, <1>15 DEF Grown
  <2>2. f \in Nat \ {0}
    OBVIOUS
  <2> QED BY ONLY <2>1, <2>2, <1>14, StreamGrows
<1>17. Len(rb) + Len(p) = m + Size(f)
  BY ONLY <1>2, <1>4, <1>6, <1>10
<1>18. FrameIn(n, off, t, lo) /\ from \in [1 .. Len(ha) -> 1 .. lo]
  BY DEF Placed
<1>19. \A k \in 0 .. n : k \in 0 .. n + 1 /\ o[k] = off[k]
  BY <1>12, <1>15
<1>20. lo \in 0 .. n /\ (lo # 0 => lo - 1 \in 0 .. n)
  BY <1>12, <1>18 DEF FrameIn
<1>21. FrameIn(n + 1, o, t, lo)
  BY <1>18, <1>19, <1>20 DEF FrameIn
<1>22. \A k \in 1 .. lo : b[k] = a[k]
  BY <1>12, <1>20
<1>23. \A k \in 1 .. Len(ha) : ha[k] = F!text(b[from[k]])
  <2> TAKE k \in 1 .. Len(ha)
  <2>1. from[k] \in 1 .. lo
    BY <1>18
  <2> QED BY <1>22, <2>1 DEF Placed
<1>24. whole => /\ t = o[lo] /\ Len(ha) = lo /\ \A k \in 1 .. lo : ha[k] = F!text(b[k])
                /\ \E mid \in 0 .. n + 1 : t + Len(rb) = o[mid]
  <2> SUFFICES ASSUME whole
               PROVE  /\ t = o[lo] /\ Len(ha) = lo /\ \A k \in 1 .. lo : ha[k] = F!text(b[k])
                      /\ \E mid \in 0 .. n + 1 : t + Len(rb) = o[mid]
    OBVIOUS
  <2>1. PICK mid \in 0 .. n : t + Len(rb) = off[mid]
    BY DEF Placed
  <2>2. t = off[lo] /\ Len(ha) = lo /\ \A k \in 1 .. lo : ha[k] = F!text(a[k])
    BY DEF Placed
  <2>3. \E l \in 0 .. n + 1 : t + Len(rb) = o[l]
    BY <1>19, <2>1
  <2> QED BY <1>19, <1>20, <1>22, <2>2, <2>3
<1>25. \A j, k \in 1 .. Len(ha) : j < k => from[j] < from[k]
  BY DEF Placed
<1>26. Placed(n + 1, b, o, t, lo, from, rb, p, ha, whole)
  BY <1>7, <1>16, <1>17, <1>18, <1>21, <1>23, <1>24, <1>25 DEF Placed
<1> QED BY <1>6, <1>12, <1>26

\* A read takes d bytes, x, out of s and leaves y.
CutAt(s, d, x, y) ==
  /\ s \in Seq(Int) /\ d \in 0 .. Len(s) /\ x = SubSeq(s, 1, d) /\ y = SubSeq(s, d + 1, Len(s))

LEMMA Cut ==
  ASSUME NEW s, NEW d, NEW x, NEW y, CutAt(s, d, x, y)
  PROVE  x \in Seq(Int) /\ y \in Seq(Int) /\ Len(x) = d /\ Len(y) = Len(s) - d /\ s = x \o y
<1> s \in Seq(Int) /\ d \in 0 .. Len(s) /\ x = SubSeq(s, 1, d) /\ y = SubSeq(s, d + 1, Len(s))
  BY DEF CutAt
<1>1. Len(s) \in Nat /\ d \in Nat
  OBVIOUS
<1>2. PICK p \in 1 .. Len(s) + 1 : p = d + 1
  BY <1>1
<1>3. 1 \in 1 .. Len(s) + 1 /\ d \in 1 - 1 .. Len(s) /\ Len(s) \in p - 1 .. Len(s)
  BY <1>1, <1>2
<1>4. /\ SubSeq(s, 1, d) \in Seq(Int) /\ Len(SubSeq(s, 1, d)) = d - 1 + 1
      /\ \A i \in 1 .. d - 1 + 1 : SubSeq(s, 1, d)[i] = s[1 + i - 1]
  BY ONLY s \in Seq(Int), <1>3, Part
<1>5. x \in Seq(Int) /\ Len(x) = d /\ \A i \in 1 .. d : x[i] = s[i]
  <2>1. d - 1 + 1 = d /\ \A i \in 1 .. d : 1 + i - 1 = i
    BY <1>1
  <2> QED BY <1>4, <2>1
<1>6. /\ SubSeq(s, p, Len(s)) \in Seq(Int) /\ Len(SubSeq(s, p, Len(s))) = Len(s) - p + 1
      /\ \A i \in 1 .. Len(s) - p + 1 : SubSeq(s, p, Len(s))[i] = s[p + i - 1]
  BY ONLY s \in Seq(Int), <1>3, p \in 1 .. Len(s) + 1, Part
<1>7. y \in Seq(Int) /\ Len(y) = Len(s) - d /\ \A i \in 1 .. Len(s) - d : y[i] = s[d + i]
  <2>1. Len(s) - p + 1 = Len(s) - d /\ \A i \in 1 .. Len(s) - d : p + i - 1 = d + i
    BY <1>1, <1>2
  <2> QED BY <1>2, <1>6, <2>1
<1>8. PICK z : z = x \o y
  OBVIOUS
<1>9. /\ z \in Seq(Int) /\ Len(z) = Len(x) + Len(y)
      /\ \A i \in 1 .. Len(x) : z[i] = x[i]
      /\ \A i \in 1 .. Len(y) : z[Len(x) + i] = y[i]
  <2>1. x \in Seq(Int) /\ y \in Seq(Int)
    BY <1>5, <1>7
  <2> QED BY ONLY <2>1, <1>8, Joined
<1>10. Len(z) = Len(s)
  BY <1>1, <1>5, <1>7, <1>9
<1>11. ASSUME NEW i \in 1 .. Len(s) PROVE z[i] = s[i]
  <2>1. i <= d => i \in 1 .. d
    BY <1>1
  <2>2. ~(i <= d) => i - d \in 1 .. Len(s) - d /\ d + (i - d) = i
    BY <1>1
  <2>3. CASE i <= d
    BY <1>5, <1>9, <2>1, <2>3
  <2>4. CASE ~(i <= d)
    <3>1. PICK j \in 1 .. Len(s) - d : j = i - d /\ d + j = i
      BY <2>2, <2>4
    <3>2. z[d + j] = y[j] /\ y[j] = s[d + j]
      BY <1>5, <1>7, <1>9
    <3> QED BY <3>1, <3>2
  <2> QED BY <2>3, <2>4
<1>12. z = s
  <2>1. z = [i \in 1 .. Len(s) |-> z[i]] /\ s = [i \in 1 .. Len(s) |-> s[i]]
    BY <1>9, <1>10
  <2> QED BY <1>11, <2>1
<1> QED BY <1>5, <1>7, <1>8, <1>12

\* A read puts d of the bytes of the pipe behind those that the daemon has.
Taken(rb, pi, d, x, y) ==
  /\ rb \in Seq(Int) /\ pi \in Seq(Int) /\ d \in 0 .. Len(pi)
  /\ x = rb \o SubSeq(pi, 1, d) /\ y = SubSeq(pi, d + 1, Len(pi))

LEMMA PlacedRead ==
  ASSUME NEW n, NEW a, NEW off, NEW t, NEW lo, NEW from, NEW rb, NEW pi, NEW ha, NEW whole,
         Placed(n, a, off, t, lo, from, rb, pi, ha, whole),
         NEW d, NEW x, NEW y, Taken(rb, pi, d, x, y), NEW rest, rest => whole /\ d = Len(pi)
  PROVE  x \in Seq(Int) /\ y \in Seq(Int) /\ Placed(n, a, off, t, lo, from, x, y, ha, rest)
<1> /\ rb \in Seq(Int) /\ pi \in Seq(Int) /\ d \in 0 .. Len(pi)
    /\ x = rb \o SubSeq(pi, 1, d) /\ y = SubSeq(pi, d + 1, Len(pi))
  BY DEF Taken
<1>1. PICK u : u = SubSeq(pi, 1, d)
  OBVIOUS
<1>2. u \in Seq(Int) /\ y \in Seq(Int) /\ Len(u) = d /\ Len(y) = Len(pi) - d /\ pi = u \o y
  <2>1. pi \in Seq(Int) /\ d \in 0 .. Len(pi) /\ y = SubSeq(pi, d + 1, Len(pi))
    OBVIOUS
  <2>2. CutAt(pi, d, u, y)
    BY <1>1, <2>1 DEF CutAt
  <2> QED BY ONLY <2>2, Cut
<1>3. x = rb \o u
  BY <1>1
<1>4. x \in Seq(Int) /\ Len(x) = Len(rb) + Len(u)
  <2>1. rb \in Seq(Int) /\ u \in Seq(Int)
    BY <1>2
  <2> QED BY ONLY <2>1, <1>3, Joined
<1>5. PICK s : s = rb \o pi
  OBVIOUS
<1>6. s = x \o y
  <2>1. rb \in Seq(Int) /\ u \in Seq(Int) /\ y \in Seq(Int) /\ pi = u \o y
    BY <1>2
  <2>2. rb \o (u \o y) = (rb \o u) \o y
    BY <2>1, Associates
  <2> QED BY ONLY <2>1, <2>2, <1>3, <1>5
<1>7. Len(x) + Len(y) = Len(rb) + Len(pi) /\ (d = Len(pi) => Len(x) = Len(rb) + Len(pi))
  <2>1. Len(rb) \in Nat /\ Len(pi) \in Nat /\ d \in Nat
    OBVIOUS
  <2> QED BY ONLY <1>2, <1>4, <2>1
<1>8. n \in 0 .. n
  BY DEF Placed, Stream, Lay
<1>9. ASSUME rest
      PROVE  /\ t = off[lo] /\ Len(ha) = lo /\ \A k \in 1 .. lo : ha[k] = F!text(a[k])
             /\ \E mid \in 0 .. n : t + Len(x) = off[mid]
  <2>1. t + Len(x) = off[n]
    BY <1>7, <1>9 DEF Placed
  <2> QED BY <1>8, <1>9, <2>1 DEF Placed
<1>10. /\ Stream(n, a, off, t, Len(x) + Len(y), x \o y) /\ t + (Len(x) + Len(y)) = off[n]
  BY <1>5, <1>6, <1>7 DEF Placed
<1>11. /\ FrameIn(n, off, t, lo)
       /\ from \in [1 .. Len(ha) -> 1 .. lo]
       /\ \A k \in 1 .. Len(ha) : ha[k] = F!text(a[from[k]])
       /\ \A j, k \in 1 .. Len(ha) : j < k => from[j] < from[k]
  BY DEF Placed
<1> QED BY <1>2, <1>4, <1>9, <1>10, <1>11 DEF Placed

\* What user_fifo_read_proc adds: the texts of frames lo + 1 to hi.
LEMMA PlacedHandle ==
  ASSUME NEW n, NEW a, NEW off, NEW t, NEW lo, NEW from,
         NEW rb \in Seq(Int), NEW pi \in Seq(Int), NEW ha \in Seq(Seq(Int)), NEW whole,
         Placed(n, a, off, t, lo, from, rb, pi, ha, whole),
         NEW new, new = ha \o F!Texts(rb)
  PROVE  /\ new \in Seq(Seq(Int))
         /\ \E u, up, map : Placed(n, a, off, u, up, map, <<>>, pi, new, whole)
<1>1. PICK m \in Nat, p \in Nat, c \in Nat : m = Len(rb) /\ p = Len(pi) /\ c = Len(ha)
  OBVIOUS
<1>2. PICK s : s = rb \o pi
  OBVIOUS
<1>3. /\ s \in Seq(Int) /\ Len(s) = m + p
      /\ \A i \in 1 .. m : s[i] = rb[i]
      /\ \A i \in 1 .. p : s[m + i] = pi[i]
  BY <1>1, <1>2, Joined
<1>4. Stream(n, a, off, t, m + p, s) /\ t + (m + p) = off[n] /\ FrameIn(n, off, t, lo)
  BY <1>1, <1>2 DEF Placed
<1>5. /\ n \in Nat /\ a \in [1 .. n -> Nat \ {0}] /\ off \in [0 .. n -> Nat] /\ t \in Nat /\ Lay(n, a, off)
      /\ lo \in 0 .. n
  BY <1>4 DEF Stream, Lay, FrameIn
<1>6. Stream(n, a, off, t, m, rb) /\ Stream(n, a, off, t + m, p, pi)
  <2>1. m \in 0 .. m + p /\ (m + p) - m = p
    BY <1>1
  <2>2. rb = [i \in 1 .. m |-> s[i]]
    <3>1. rb = [i \in 1 .. m |-> rb[i]]
      BY <1>1
    <3> QED BY <1>3, <3>1
  <2>3. pi = [i \in 1 .. (m + p) - m |-> s[m + i]]
    <3>1. pi = [i \in 1 .. p |-> pi[i]]
      BY <1>1
    <3> QED BY <1>3, <2>1, <3>1
  <2> QED BY <1>4, <2>1, <2>2, <2>3, StreamParts
<1>7. PICK mid \in 0 .. n : FrameIn(n, off, t + m, mid) /\ (whole => t + m = off[mid])
  <2>1. CASE whole
    <3>1. PICK mid \in 0 .. n : t + m = off[mid]
      BY <1>1, <2>1 DEF Placed
    <3>2. FrameIn(n, off, off[mid], mid)
      BY <1>5, FrameEnd
    <3> QED BY <3>1, <3>2
  <2>2. CASE ~whole
    <3>1. m \in 0 .. m + p
      BY <1>1
    <3>2. \E k \in 0 .. n : FrameIn(n, off, t + m, k)
      BY <1>4, <3>1, FrameAt
    <3> QED BY <2>2, <3>2
  <2> QED BY <2>1, <2>2
<1>8. PICK hi \in lo .. mid : Inside(n, a, off, t, m, rb, lo, hi) /\ (off[mid] = t + m => hi = mid)
  BY <1>4, <1>6, <1>7, FramesInside
<1>9. F!Texts(rb) = [k \in 1 .. hi - lo |-> F!text(a[lo + k])]
  <2>1. F!Texts(rb) = TextsIn(a, lo, hi)
    BY <1>1, <1>8, TextsAre
  <2> QED BY <2>1 DEF TextsIn
<1>10. PICK d \in Nat : d = hi - lo
  BY <1>5, <1>8
<1>11. lo + d = hi /\ hi <= mid /\ mid <= n /\ lo \in Nat /\ hi \in Nat /\ mid \in Nat
  BY <1>5, <1>7, <1>8, <1>10
<1>12. PICK x : x = F!Texts(rb)
  OBVIOUS
<1>13. x \in Seq(Seq(Int)) /\ Len(x) = d /\ \A k \in 1 .. d : x[k] = F!text(a[lo + k])
  <2>1. ASSUME NEW k \in 1 .. d PROVE F!text(a[lo + k]) \in Seq(Int)
    <3>1. a[lo + k] \in Nat \ {0}
      <4>1. lo + k \in 1 .. n
        BY <1>5, <1>11
      <4> QED BY <1>5, <4>1
    <3>2. PICK f \in Nat \ {0} : f = a[lo + k]
      BY <3>1
    <3>3. Size(f) \in {3, 4} /\ F!text(f) = [i \in 1 .. Size(f) - 2 |-> f]
      BY FrameBytes
    <3>4. F!text(f) \in Seq(Int)
      BY <3>3
    <3> QED BY <3>2, <3>4
  <2>2. x = [k \in 1 .. d |-> F!text(a[lo + k])]
    BY <1>9, <1>10, <1>12
  <2> QED BY <2>1, <2>2
<1>14. /\ new \in Seq(Seq(Int)) /\ Len(new) = c + d
       /\ \A k \in 1 .. c : new[k] = ha[k]
       /\ \A k \in 1 .. d : new[c + k] = x[k]
  <2>1. new = ha \o x
    BY <1>12
  <2>2. PICK T : T = Seq(Int)
    OBVIOUS
  <2>3. ha \in Seq(T) /\ x \in Seq(T)
    BY <1>13, <2>2
  <2>4. /\ new \in Seq(T) /\ Len(new) = Len(ha) + Len(x)
        /\ \A k \in 1 .. Len(ha) : new[k] = ha[k]
        /\ \A k \in 1 .. Len(x) : new[Len(ha) + k] = x[k]
    BY ONLY <2>1, <2>3, Joined
  <2> QED BY <1>1, <1>13, <2>2, <2>4
<1>15. /\ from \in [1 .. c -> 1 .. lo]
       /\ \A k \in 1 .. c : ha[k] = F!text(a[from[k]])
       /\ \A j, k \in 1 .. c : j < k => from[j] < from[k]
  BY <1>1 DEF Placed
<1> DEFINE map == [k \in 1 .. c + d |-> IF k <= c THEN from[k] ELSE lo + (k - c)]
<1>16. ASSUME NEW k \in 1 .. c + d
       PROVE  \/ k \in 1 .. c /\ map[k] = from[k] /\ map[k] \in 1 .. lo
              \/ ~(k <= c) /\ k - c \in 1 .. d /\ map[k] = lo + (k - c) /\ c + (k - c) = k
  <2>1. CASE k <= c
    <3>1. k \in 1 .. c
      BY <2>1
    <3>2. map[k] = from[k]
      BY <2>1
    <3> QED BY <1>15, <3>1, <3>2
  <2>2. CASE ~(k <= c)
    BY <2>2
  <2> QED BY <2>1, <2>2
<1>17. DOMAIN map = 1 .. c + d /\ map = [k \in 1 .. c + d |-> map[k]]
  OBVIOUS
<1> HIDE DEF map
<1>18. ASSUME NEW k \in 1 .. c + d
       PROVE  map[k] \in 1 .. hi /\ new[k] = F!text(a[map[k]])
  <2>1. CASE k \in 1 .. c /\ map[k] = from[k] /\ map[k] \in 1 .. lo
    <3>1. new[k] = F!text(a[from[k]])
      BY <1>14, <1>15, <2>1
    <3>2. map[k] \in 1 .. hi
      BY ONLY <1>11, <2>1, d \in Nat
    <3> QED BY <2>1, <3>1, <3>2
  <2>2. CASE k - c \in 1 .. d /\ map[k] = lo + (k - c) /\ c + (k - c) = k
    <3>1. new[k] = F!text(a[lo + (k - c)])
      BY <1>13, <1>14, <2>2
    <3>2. map[k] \in 1 .. hi
      BY ONLY <1>11, <2>2, d \in Nat
    <3> QED BY <2>2, <3>1, <3>2
  <2> QED BY <1>16, <2>1, <2>2
<1>19. ASSUME NEW j \in 1 .. c + d, NEW k \in 1 .. c + d, j < k
       PROVE  map[j] < map[k]
  <2>1. CASE k \in 1 .. c /\ map[k] = from[k] /\ map[k] \in 1 .. lo
    <3>1. j \in 1 .. c /\ j <= c
      BY ONLY <1>19, <2>1, j \in 1 .. c + d, k \in 1 .. c + d, c \in Nat, d \in Nat
    <3>2. map[j] = from[j]
      BY <1>16, <3>1
    <3> QED BY <1>15, <1>19, <2>1, <3>1, <3>2
  <2>2. CASE k - c \in 1 .. d /\ map[k] = lo + (k - c) /\ c + (k - c) = k
    <3>1. CASE j \in 1 .. c /\ map[j] = from[j] /\ map[j] \in 1 .. lo
      BY ONLY <1>11, <2>2, <3>1, d \in Nat
    <3>2. CASE j - c \in 1 .. d /\ map[j] = lo + (j - c) /\ c + (j - c) = j
      BY ONLY <1>11, <1>19, <2>2, <3>2, j \in 1 .. c + d, k \in 1 .. c + d, c \in Nat, d \in Nat
    <3> QED BY <1>16, <3>1, <3>2
  <2> QED BY <1>16, <2>1, <2>2
<1>20. map \in [1 .. Len(new) -> 1 .. mid]
  <2>1. \A k \in 1 .. c + d : map[k] \in 1 .. mid
    <3> TAKE k \in 1 .. c + d
    <3>1. map[k] \in 1 .. hi
      BY <1>18
    <3> QED BY ONLY <1>11, <3>1
  <2> QED BY <1>14, <1>17, <2>1
<1>21. whole => /\ t + m = off[mid] /\ Len(new) = mid /\ \A k \in 1 .. mid : new[k] = F!text(a[k])
                /\ \E l \in 0 .. n : (t + m) + Len(<<>>) = off[l]
  <2> SUFFICES ASSUME whole
               PROVE  /\ t + m = off[mid] /\ Len(new) = mid /\ \A k \in 1 .. mid : new[k] = F!text(a[k])
                      /\ \E l \in 0 .. n : (t + m) + Len(<<>>) = off[l]
    OBVIOUS
  <2>1. t + m = off[mid] /\ hi = mid
    BY <1>7, <1>8
  <2>2. c = lo /\ \A k \in 1 .. lo : ha[k] = F!text(a[k])
    BY <1>1 DEF Placed
  <2>3. Len(new) = mid
    BY <1>11, <1>14, <2>1, <2>2
  <2>4. ASSUME NEW k \in 1 .. mid PROVE new[k] = F!text(a[k])
    <3>1. CASE k \in 1 .. lo
      BY <1>14, <2>2, <3>1
    <3>2. CASE k \notin 1 .. lo
      <4>1. PICK j \in 1 .. d : k = lo + j
        <5>1. k - lo \in 1 .. d /\ k = lo + (k - lo)
          BY ONLY <1>11, <2>1, <3>2, d \in Nat, k \in 1 .. mid
        <5> QED BY <5>1
      <4>2. new[c + j] = F!text(a[lo + j])
        BY <1>13, <1>14
      <4> QED BY <2>2, <4>1, <4>2
    <3> QED BY <3>1, <3>2
  <2>5. (t + m) + Len(<<>>) = t + m
    BY <1>5
  <2> QED BY <2>1, <2>3, <2>4, <2>5
<1>22. Len(<<>>) + Len(pi) = p /\ <<>> \o pi = pi /\ (t + m) + p = off[n]
  <2>1. (t + m) + p = t + (m + p)
    BY <1>5
  <2> QED BY <1>1, <1>4, <2>1
<1>23. Placed(n, a, off, t + m, mid, map, <<>>, pi, new, whole)
  <2>1. \A k \in 1 .. Len(new) : new[k] = F!text(a[map[k]])
    BY <1>14, <1>18
  <2>2. \A j, k \in 1 .. Len(new) : j < k => map[j] < map[k]
    BY <1>14, <1>19
  <2>3. Stream(n, a, off, t + m, Len(<<>>) + Len(pi), <<>> \o pi) /\ (t + m) + (Len(<<>>) + Len(pi)) = off[n]
    BY <1>6, <1>22
  <2> QED BY <1>7, <1>20, <1>21, <2>1, <2>2, <2>3 DEF Placed
<1> QED BY <1>14, <1>23

\* When the last one closes the pipe its bytes are gone.
LEMMA PlacedGone ==
  ASSUME NEW n, NEW a, NEW off, NEW t, NEW lo, NEW from, NEW rb, NEW pi, NEW ha \in Seq(Seq(Int)), NEW whole,
         Placed(n, a, off, t, lo, from, rb, pi, ha, whole)
  PROVE  Placed(n, a, off, off[n], n, from, <<>>, <<>>, ha, FALSE)
<1>1. /\ n \in Nat /\ off \in [0 .. n -> Nat] /\ lo \in 0 .. n /\ Lay(n, a, off)
      /\ from \in [1 .. Len(ha) -> 1 .. lo]
  BY DEF Placed, Stream, FrameIn, Lay
<1>2. n \in 0 .. n /\ off[n] \in Nat /\ 1 .. lo \subseteq 1 .. n
  BY <1>1
<1>3. FrameIn(n, off, off[n], n)
  BY <1>1, <1>2, FrameEnd
<1>4. Len(<<>>) + Len(<<>>) = 0 /\ <<>> \o <<>> = <<>> /\ off[n] + 0 = off[n]
  BY <1>2
<1>5. Stream(n, a, off, off[n], 0, <<>>)
  <2>1. <<>> \in [1 .. 0 -> Int]
    OBVIOUS
  <2>2. \A i \in 1 .. 0 : FALSE
    OBVIOUS
  <2> QED BY <1>1, <1>2, <2>1, <2>2 DEF Stream
<1>6. from \in [1 .. Len(ha) -> 1 .. n]
  BY <1>1, <1>2
<1> QED BY <1>3, <1>4, <1>5, <1>6 DEF Placed

\* So the daemon has handled whole frames in order, and if nothing was lost the rest
\* follows.
Ordered(n, a, rb, pi, ha, whole) ==
  /\ \E g \in [1 .. Len(ha) -> 1 .. n] :
       /\ \A k \in 1 .. Len(ha) : ha[k] = F!text(a[g[k]])
       /\ \A j, k \in 1 .. Len(ha) : j < k => g[j] < g[k]
  /\ whole => ha \o F!Texts(rb \o pi) = [k \in 1 .. n |-> F!text(a[k])]

LEMMA PlacedInOrder ==
  ASSUME NEW a \in Seq(Nat \ {0}), NEW n, n = Len(a), NEW off, NEW t, NEW lo, NEW from,
         NEW rb \in Seq(Int), NEW pi \in Seq(Int), NEW ha \in Seq(Seq(Int)), NEW whole,
         Placed(n, a, off, t, lo, from, rb, pi, ha, whole)
  PROVE  Ordered(n, a, rb, pi, ha, whole)
<1>1. n \in Nat /\ off \in [0 .. n -> Nat] /\ lo \in 0 .. n /\ t \in Nat /\ Lay(n, a, off)
  BY DEF Placed, Stream, FrameIn, Lay
<1>2. \E g \in [1 .. Len(ha) -> 1 .. n] :
        /\ \A k \in 1 .. Len(ha) : ha[k] = F!text(a[g[k]])
        /\ \A j, k \in 1 .. Len(ha) : j < k => g[j] < g[k]
  <2>1. from \in [1 .. Len(ha) -> 1 .. lo] /\ 1 .. lo \subseteq 1 .. n
    BY <1>1 DEF Placed
  <2>2. from \in [1 .. Len(ha) -> 1 .. n]
    BY <2>1
  <2>3. /\ \A k \in 1 .. Len(ha) : ha[k] = F!text(a[from[k]])
        /\ \A j, k \in 1 .. Len(ha) : j < k => from[j] < from[k]
    BY DEF Placed
  <2> QED BY <2>2, <2>3
<1>3. ASSUME whole PROVE ha \o F!Texts(rb \o pi) = [k \in 1 .. n |-> F!text(a[k])]
  <2>1. PICK s : s = rb \o pi
    OBVIOUS
  <2>2. PICK m \in Nat : m = Len(rb) + Len(pi)
    OBVIOUS
  <2>3. s \in Seq(Int) /\ Len(s) = m
    BY <2>1, <2>2, Joined
  <2>4. Stream(n, a, off, t, m, s) /\ t + m = off[n] /\ FrameIn(n, off, t, lo)
    BY <2>1, <2>2 DEF Placed
  <2>5. FrameIn(n, off, off[n], n)
    <3>1. n \in 0 .. n
      BY ONLY <1>1
    <3> QED BY ONLY <1>1, <3>1, FrameEnd
  <2>6. FrameIn(n, off, t + m, n)
    BY <2>4, <2>5
  <2>7. PICK hi \in lo .. n : Inside(n, a, off, t, m, s, lo, hi) /\ (off[n] = t + m => hi = n)
    BY <2>4, <2>6, FramesInside
  <2>8. hi = n
    BY <2>4, <2>7
  <2>9. F!Texts(s) = [k \in 1 .. n - lo |-> F!text(a[lo + k])]
    <3>1. F!Texts(s) = TextsIn(a, lo, hi)
      BY <2>3, <2>7, TextsAre
    <3> QED BY <2>8, <3>1 DEF TextsIn
  <2>10. Len(ha) = lo /\ \A k \in 1 .. lo : ha[k] = F!text(a[k])
    BY <1>3 DEF Placed
  <2>11. PICK d \in Nat : d = n - lo /\ lo + d = n
    <3>1. n - lo \in Nat /\ lo + (n - lo) = n
      BY ONLY <1>1
    <3> QED BY ONLY <3>1
  <2>12. PICK x : x = F!Texts(s)
    OBVIOUS
  <2>13. x = [k \in 1 .. d |-> F!text(a[lo + k])]
    BY <2>9, <2>11, <2>12
  <2>14. x \in Seq(Seq(Int)) /\ Len(x) = d
    <3>1. ASSUME NEW k \in 1 .. d PROVE F!text(a[lo + k]) \in Seq(Int)
      <4>1. lo + k \in 1 .. n
        BY <1>1, <2>11
      <4>2. PICK f \in Nat \ {0} : f = a[lo + k]
        BY <4>1
      <4>3. Size(f) \in {3, 4} /\ F!text(f) = [i \in 1 .. Size(f) - 2 |-> f]
        BY FrameBytes
      <4>4. F!text(f) \in Seq(Int)
        BY <4>3
      <4> QED BY <4>2, <4>4
    <3> QED BY <2>13, <3>1
  <2>15. PICK y : y = ha \o x
    OBVIOUS
  <2>16. /\ y \in Seq(Seq(Int)) /\ Len(y) = n
         /\ \A k \in 1 .. lo : y[k] = ha[k]
         /\ \A k \in 1 .. d : y[lo + k] = x[k]
    <3>0. PICK T : T = Seq(Int)
      OBVIOUS
    <3>1. ha \in Seq(T) /\ x \in Seq(T)
      BY <2>14, <3>0
    <3>3. /\ y \in Seq(T) /\ Len(y) = Len(ha) + Len(x)
          /\ \A k \in 1 .. Len(ha) : y[k] = ha[k]
          /\ \A k \in 1 .. Len(x) : y[Len(ha) + k] = x[k]
      BY ONLY <2>15, <3>1, Joined
    <3>2. /\ y \in Seq(Seq(Int)) /\ Len(y) = Len(ha) + Len(x)
          /\ \A k \in 1 .. Len(ha) : y[k] = ha[k]
          /\ \A k \in 1 .. Len(x) : y[Len(ha) + k] = x[k]
      BY <3>0, <3>3
    <3> QED BY ONLY <2>10, <2>11, <2>14, <3>2
  <2>17. ASSUME NEW k \in 1 .. n PROVE y[k] = F!text(a[k])
    <3>1. CASE k \in 1 .. lo
      BY <2>10, <2>16, <3>1
    <3>2. CASE k \notin 1 .. lo
      <4>1. PICK j \in 1 .. d : k = lo + j
        <5>1. k - lo \in 1 .. d /\ k = lo + (k - lo)
          BY ONLY <1>1, <2>11, <3>2, d \in Nat, k \in 1 .. n
        <5> QED BY <5>1
      <4>2. x[j] = F!text(a[lo + j])
        BY <2>13
      <4> QED BY <2>16, <4>1, <4>2
    <3> QED BY <3>1, <3>2
  <2>18. y = [k \in 1 .. n |-> F!text(a[k])]
    BY <2>16, <2>17
  <2> QED BY <2>1, <2>12, <2>15, <2>18
<1> QED BY <1>2, <1>3 DEF Ordered

FifoTypes ==
  /\ pipe \in Seq(Int) /\ rbuf \in Seq(Int) /\ Len(rbuf) <= BufSize
  /\ accepted \in Seq(Nat \ {0}) /\ handled \in Seq(Seq(Int))
  /\ frames \in Nat /\ frame \in [Writers -> Nat]
  /\ proc \in [F!Procs -> {"idle", "open", "mkfifo", "again", "write", "close", "read", "handle"}]
  /\ fullRead \in BOOLEAN /\ vanished \in BOOLEAN
  /\ \A p \in Writers : proc[p] # "idle" => frame[p] # 0
  /\ proc["daemon"] \in {"read", "handle"} => "daemon" \in holders
  /\ proc["daemon"] \notin {"read", "handle"} => rbuf = <<>>

FifoInv ==
  /\ FifoTypes
  /\ \E off, t, lo, from :
       Placed(Len(accepted), accepted, off, t, lo, from, rbuf, pipe, handled, ~fullRead /\ ~vanished)

LEMMA FifoStarts ==
  ASSUME F!FifoAssumption, F!Init
  PROVE  FifoInv
<1>1. /\ pipe = <<>> /\ rbuf = <<>> /\ accepted = <<>> /\ handled = <<>> /\ frames = 0
      /\ fullRead = FALSE /\ vanished = FALSE
      /\ frame = [p \in Writers |-> 0]
      /\ proc = [p \in F!Procs |-> IF p = "daemon" THEN "open" ELSE "idle"]
  BY DEF F!Init
<1>2. "daemon" \notin Writers
  BY DEF F!FifoAssumption
<1>3. "daemon" \in F!Procs /\ \A p \in Writers : p \in F!Procs /\ p # "daemon"
  BY <1>2 DEF F!Procs
<1>4. FifoTypes
  <2>1. proc["daemon"] = "open" /\ \A p \in Writers : proc[p] = "idle"
    BY <1>1, <1>3
  <2>2. proc \in [F!Procs -> {"idle", "open", "mkfifo", "again", "write", "close", "read", "handle"}]
    BY <1>1
  <2>3. /\ pipe \in Seq(Int) /\ rbuf \in Seq(Int) /\ accepted \in Seq(Nat \ {0}) /\ handled \in Seq(Seq(Int))
        /\ Len(rbuf) <= BufSize
    BY <1>1 DEF F!FifoAssumption
  <2>4. frames \in Nat /\ frame \in [Writers -> Nat] /\ fullRead \in BOOLEAN /\ vanished \in BOOLEAN
    BY <1>1
  <2> QED BY <1>1, <2>1, <2>2, <2>3, <2>4 DEF FifoTypes
<1>5. PICK off : off = [k \in 0 .. 0 |-> 0]
  OBVIOUS
<1>6. Lay(0, <<>>, off)
  <2>1. off \in [0 .. 0 -> Nat] /\ off[0] = 0 /\ \A k \in 1 .. 0 : FALSE
    BY <1>5
  <2>2. \A j, k \in 0 .. 0 : ~(j < k)
    OBVIOUS
  <2>3. <<>> \in [1 .. 0 -> Nat \ {0}]
    OBVIOUS
  <2> QED BY <2>1, <2>2, <2>3 DEF Lay
<1>7. Stream(0, <<>>, off, 0, 0, <<>>)
  <2>1. <<>> \in [1 .. 0 -> Int] /\ \A i \in 1 .. 0 : FALSE
    OBVIOUS
  <2> QED BY <1>6, <2>1 DEF Stream
<1>8. off[0] = 0 /\ 0 + 0 = 0 /\ 0 \in 0 .. 0 /\ Len(<<>>) = 0 /\ <<>> \o <<>> = <<>> /\ 0 <= 0
  BY <1>5
<1>9. FrameIn(0, off, 0, 0)
  BY <1>8 DEF FrameIn
<1>10. <<>> \in [1 .. 0 -> 1 .. 0] /\ \A i \in 1 .. 0 : FALSE
  OBVIOUS
<1>11. Placed(0, <<>>, off, 0, 0, <<>>, <<>>, <<>>, <<>>, TRUE)
  BY <1>7, <1>8, <1>9, <1>10 DEF Placed
<1>12. (~fullRead /\ ~vanished) = TRUE
  BY <1>1
<1> QED BY <1>1, <1>4, <1>8, <1>11, <1>12 DEF FifoInv

\* Steps that leave the bytes where they are.
LEMMA FifoCalmKeeps ==
  ASSUME F!FifoAssumption, FifoInv,
         \/ \E p \in Writers : F!Call(p) \/ F!Open(p, "write") \/ F!mkfifo(p)
         \/ F!Open("daemon", "read") \/ F!mkfifo("daemon") \/ F!Interrupt
         \/ UNCHANGED F!vars
  PROVE  FifoInv'
<1>1. UNCHANGED <<pipe, rbuf, accepted, handled, fullRead, vanished>>
  BY DEF F!Call, F!Open, F!mkfifo, F!Interrupt, F!vars, F!daemonVars
<1>2. "daemon" \notin Writers /\ "daemon" \in F!Procs /\ Writers \subseteq F!Procs
  BY DEF F!FifoAssumption, F!Procs
<1>3. FifoTypes
  BY DEF FifoInv
<1>4. ASSUME frames' \in Nat, frame' \in [Writers -> Nat],
             proc' \in [F!Procs -> {"idle", "open", "mkfifo", "again", "write", "close", "read", "handle"}],
             \A p \in Writers : proc'[p] # "idle" => frame'[p] # 0,
             proc'["daemon"] \in {"read", "handle"} => "daemon" \in holders',
             proc'["daemon"] \notin {"read", "handle"} => rbuf = <<>>
      PROVE  FifoTypes'
  BY <1>1, <1>3, <1>4 DEF FifoTypes
<1>5. ASSUME NEW p \in Writers, F!Call(p) \/ F!Open(p, "write") \/ F!mkfifo(p)
      PROVE  FifoTypes'
  <2>1. \E to \in {"open", "mkfifo", "again", "write"} : proc' = [proc EXCEPT ![p] = to]
    BY <1>5 DEF F!Call, F!Open, F!mkfifo, F!Goto
  <2>2. holders \subseteq holders'
    BY <1>5 DEF F!Call, F!Open, F!mkfifo, F!daemonVars
  <2>3. /\ frames' \in Nat /\ frame' \in [Writers -> Nat] /\ frame'[p] # 0
        /\ \A q \in Writers : q # p => frame'[q] = frame[q]
    <3>1. CASE F!Call(p)
      <4>1. frames' = frames + 1 /\ frame' = [frame EXCEPT ![p] = frames + 1]
        BY <3>1 DEF F!Call
      <4> QED BY <1>3, <4>1 DEF FifoTypes
    <3>2. CASE F!Open(p, "write") \/ F!mkfifo(p)
      <4>1. frames' = frames /\ frame' = frame /\ proc[p] # "idle"
        BY <3>2 DEF F!Open, F!mkfifo, F!Goto
      <4> QED BY <1>3, <4>1 DEF FifoTypes
    <3> QED BY <1>5, <3>1, <3>2
  <2>4. /\ proc' \in [F!Procs -> {"idle", "open", "mkfifo", "again", "write", "close", "read", "handle"}]
        /\ \A q \in Writers : q # p => proc'[q] = proc[q]
        /\ proc'["daemon"] = proc["daemon"]
    BY <1>2, <1>3, <2>1 DEF FifoTypes
  <2>5. \A q \in Writers : proc'[q] # "idle" => frame'[q] # 0
    BY <1>3, <2>3, <2>4 DEF FifoTypes
  <2> QED BY <1>3, <1>4, <2>2, <2>3, <2>4, <2>5 DEF FifoTypes
<1>6. ASSUME F!Open("daemon", "read") \/ F!mkfifo("daemon")
      PROVE  FifoTypes'
  <2>1. /\ proc["daemon"] \in {"open", "again", "mkfifo"}
        /\ \E to \in {"mkfifo", "again", "read"} :
             proc' = [proc EXCEPT !["daemon"] = to] /\ (to = "read" => "daemon" \in holders')
    BY <1>6 DEF F!Open, F!mkfifo, F!Goto
  <2>2. UNCHANGED <<frame, frames>>
    BY <1>6 DEF F!Open, F!mkfifo
  <2>3. /\ proc' \in [F!Procs -> {"idle", "open", "mkfifo", "again", "write", "close", "read", "handle"}]
        /\ \A q \in Writers : proc'[q] = proc[q]
        /\ proc'["daemon"] \in {"mkfifo", "again", "read"}
        /\ (proc'["daemon"] = "read" => "daemon" \in holders')
    BY <1>2, <1>3, <2>1 DEF FifoTypes
  <2>4. rbuf = <<>>
    BY <1>3, <2>1 DEF FifoTypes
  <2> QED BY <1>3, <1>4, <2>2, <2>3, <2>4 DEF FifoTypes
<1>7. ASSUME F!Interrupt \/ UNCHANGED F!vars
      PROVE  FifoTypes'
  <2>1. UNCHANGED <<proc, frame, frames, holders>>
    BY <1>7 DEF F!Interrupt, F!vars
  <2> QED BY <1>3, <1>4, <2>1 DEF FifoTypes
<1>8. FifoTypes'
  BY <1>5, <1>6, <1>7
<1> QED BY <1>1, <1>8 DEF FifoInv

LEMMA FifoWriteKeeps ==
  ASSUME F!FifoAssumption, FifoInv, NEW p \in Writers, F!un_fifo_ops_write(p)
  PROVE  FifoInv'
<1>1. FifoTypes /\ "daemon" \notin Writers /\ "daemon" \in F!Procs /\ Writers \subseteq F!Procs
  BY DEF FifoInv, F!FifoAssumption, F!Procs
<1>2. /\ UNCHANGED <<holders, frame, frames, rbuf, handled, fullRead, vanished>>
      /\ proc[p] = "write" /\ proc' = [proc EXCEPT ![p] = "close"]
      /\ \/ pipe' = pipe \o F!bytes(frame[p]) /\ accepted' = Append(accepted, frame[p])
         \/ UNCHANGED <<pipe, accepted>>
  BY DEF F!un_fifo_ops_write, F!Goto, F!daemonVars
<1>3. frame[p] \in Nat \ {0}
  BY <1>1, <1>2 DEF FifoTypes
<1>4. PICK off, t, lo, from :
        Placed(Len(accepted), accepted, off, t, lo, from, rbuf, pipe, handled, ~fullRead /\ ~vanished)
  BY DEF FifoInv
<1>5. /\ accepted' \in Seq(Nat \ {0}) /\ pipe' \in Seq(Int)
      /\ \E o : Placed(Len(accepted'), accepted', o, t, lo, from, rbuf, pipe', handled, ~fullRead /\ ~vanished)
  <2>1. CASE UNCHANGED <<pipe, accepted>>
    BY <1>1, <1>4, <2>1 DEF FifoTypes
  <2>2. CASE pipe' = pipe \o F!bytes(frame[p]) /\ accepted' = Append(accepted, frame[p])
    <3>1. PICK f \in Nat \ {0} : f = frame[p]
      BY <1>3
    <3>2. PICK b : b = accepted'
      OBVIOUS
    <3>3. PICK z : z = pipe'
      OBVIOUS
    <3>4. PICK n : n = Len(accepted)
      OBVIOUS
    <3>5. PICK whole \in BOOLEAN : whole = (~fullRead /\ ~vanished)
      BY Zenon
    <3>6. /\ accepted \in Seq(Nat \ {0}) /\ rbuf \in Seq(Int) /\ pipe \in Seq(Int) /\ handled \in Seq(Seq(Int))
      BY <1>1 DEF FifoTypes
    <3>7. Placed(n, accepted, off, t, lo, from, rbuf, pipe, handled, whole)
      BY <1>4, <3>4, <3>5, Zenon
    <3>8. b = Append(accepted, f) /\ z = pipe \o F!bytes(f)
      BY <2>2, <3>1, <3>2, <3>3
    <3>9. b \in Seq(Nat \ {0}) /\ z \in Seq(Int) /\ \E o : Placed(Len(b), b, o, t, lo, from, rbuf, z, handled, whole)
      <4>1. Written(n, accepted, f, b, pipe, z)
        BY <3>4, <3>6, <3>8 DEF Written
      <4> QED BY ONLY <3>6, <3>7, <4>1, PlacedWrite
    <3> QED BY <3>2, <3>3, <3>5, <3>9, Zenon
  <2> QED BY <1>2, <2>1, <2>2
<1>6. FifoTypes'
  <2>1. /\ proc' \in [F!Procs -> {"idle", "open", "mkfifo", "again", "write", "close", "read", "handle"}]
        /\ \A q \in Writers : q # p => proc'[q] = proc[q]
        /\ proc'["daemon"] = proc["daemon"]
    BY <1>1, <1>2 DEF FifoTypes
  <2>2. \A q \in Writers : proc'[q] # "idle" => frame[q] # 0
    BY <1>1, <1>3, <2>1 DEF FifoTypes
  <2> QED BY <1>1, <1>2, <1>5, <2>1, <2>2 DEF FifoTypes
<1>7. \E o : Placed(Len(accepted), accepted, o, t, lo, from, rbuf, pipe, handled, ~fullRead /\ ~vanished)'
  BY <1>2, <1>5
<1> QED BY <1>6, <1>7 DEF FifoInv

LEMMA FifoCloseKeeps ==
  ASSUME F!FifoAssumption, FifoInv, NEW p \in Writers, F!un_fifo_ops_destory(p)
  PROVE  FifoInv'
<1>1. FifoTypes /\ "daemon" \notin Writers /\ "daemon" \in F!Procs /\ Writers \subseteq F!Procs
  BY DEF FifoInv, F!FifoAssumption, F!Procs
<1>2. /\ UNCHANGED <<frame, frames, accepted, rbuf, handled, fullRead>>
      /\ proc' = [proc EXCEPT ![p] = "idle"] /\ holders' = holders \ {p}
      /\ pipe' = IF holders = {p} THEN <<>> ELSE pipe
      /\ vanished' = (vanished \/ (holders = {p} /\ pipe # <<>>))
  BY DEF F!un_fifo_ops_destory, F!Goto, F!daemonVars
<1>3. FifoTypes'
  <2>1. /\ proc' \in [F!Procs -> {"idle", "open", "mkfifo", "again", "write", "close", "read", "handle"}]
        /\ \A q \in Writers : q # p => proc'[q] = proc[q]
        /\ proc'[p] = "idle" /\ proc'["daemon"] = proc["daemon"]
    BY <1>1, <1>2 DEF FifoTypes
  <2>2. \A q \in Writers : proc'[q] # "idle" => frame[q] # 0
    BY <1>1, <2>1 DEF FifoTypes
  <2>3. pipe' \in Seq(Int)
    BY <1>1, <1>2 DEF FifoTypes
  <2>4. vanished' \in BOOLEAN
    BY <1>2
  <2> QED BY <1>1, <1>2, <2>1, <2>2, <2>3, <2>4 DEF FifoTypes
<1>4. PICK off, t, lo, from :
        Placed(Len(accepted), accepted, off, t, lo, from, rbuf, pipe, handled, ~fullRead /\ ~vanished)
  BY DEF FifoInv
<1>5. CASE holders = {p} /\ pipe # <<>>
  <2>1. rbuf = <<>>
    BY <1>1, <1>5 DEF FifoTypes
  <2>2. pipe' = <<>> /\ vanished'
    BY <1>2, <1>5
  <2>3. PICK n : n = Len(accepted)
    OBVIOUS
  <2>4. Placed(n, accepted, off, off[n], n, from, <<>>, <<>>, handled, FALSE)
    <3>1. handled \in Seq(Seq(Int))
      BY <1>1 DEF FifoTypes
    <3>2. PICK whole : whole = (~fullRead /\ ~vanished)
      OBVIOUS
    <3>3. Placed(n, accepted, off, t, lo, from, rbuf, pipe, handled, whole)
      BY <1>4, <2>3, <3>2, Zenon
    <3> QED BY <3>1, <3>3, PlacedGone
  <2>5. (~fullRead' /\ ~vanished') = FALSE
    BY <2>2
  <2>6. Placed(Len(accepted'), accepted', off, off[n], n, from, rbuf', pipe', handled', ~fullRead' /\ ~vanished')
    BY <1>2, <2>1, <2>2, <2>3, <2>4, <2>5, Zenon
  <2> QED BY <1>3, <2>6 DEF FifoInv
<1>6. CASE ~(holders = {p} /\ pipe # <<>>)
  <2>1. pipe' = pipe /\ vanished' = vanished
    <3>1. pipe' = pipe
      BY <1>2, <1>6
    <3>2. vanished \in BOOLEAN
      BY <1>1 DEF FifoTypes
    <3> QED BY <1>2, <1>6, <3>1, <3>2
  <2>2. Placed(Len(accepted'), accepted', off, t, lo, from, rbuf', pipe', handled', ~fullRead' /\ ~vanished')
    BY <1>2, <1>4, <2>1
  <2> QED BY <1>3, <2>2 DEF FifoInv
<1> QED BY <1>5, <1>6

LEMMA FifoReadKeeps ==
  ASSUME F!FifoAssumption, FifoInv, F!un_read
  PROVE  FifoInv'
<1>1. FifoTypes /\ "daemon" \notin Writers /\ "daemon" \in F!Procs /\ Writers \subseteq F!Procs /\ BufSize \in Nat
  BY DEF FifoInv, F!FifoAssumption, F!Procs
<1>2. PICK d : d = IF Len(pipe) < BufSize - Len(rbuf) THEN Len(pipe) ELSE BufSize - Len(rbuf)
  OBVIOUS
<1>3. /\ UNCHANGED <<frame, frames, accepted, handled, holders, vanished>>
      /\ proc["daemon"] = "read"
      /\ rbuf' = rbuf \o SubSeq(pipe, 1, d) /\ pipe' = SubSeq(pipe, d + 1, Len(pipe))
      /\ fullRead' = (fullRead \/ Len(rbuf') = BufSize)
      /\ proc' = proc \/ proc' = [proc EXCEPT !["daemon"] = "handle"]
  BY <1>2 DEF F!un_read, F!Goto
<1>4. rbuf \in Seq(Int) /\ pipe \in Seq(Int) /\ Len(rbuf) <= BufSize /\ fullRead \in BOOLEAN
  BY <1>1 DEF FifoTypes
<1>5. /\ d \in 0 .. Len(pipe) /\ Len(rbuf) + d <= BufSize
      /\ d # Len(pipe) => Len(rbuf) + d = BufSize
  <2>1. Len(rbuf) \in Nat /\ Len(pipe) \in Nat
    BY <1>4
  <2> QED BY ONLY <1>1, <1>2, <1>4, <2>1
<1>6. Len(rbuf') = Len(rbuf) + d
  <2>1. PICK x : x = SubSeq(pipe, 1, d)
    OBVIOUS
  <2>2. PICK y : y = SubSeq(pipe, d + 1, Len(pipe))
    OBVIOUS
  <2>3. CutAt(pipe, d, x, y)
    BY <1>4, <1>5, <2>1, <2>2 DEF CutAt
  <2>4. x \in Seq(Int) /\ Len(x) = d
    BY ONLY <2>3, Cut
  <2>5. PICK z : z = rbuf \o x
    OBVIOUS
  <2>6. Len(z) = Len(rbuf) + Len(x)
    <3>1. rbuf \in Seq(Int) /\ x \in Seq(Int)
      BY <1>4, <2>4
    <3> QED BY ONLY <2>5, <3>1, Joined
  <2> QED BY <1>3, <2>1, <2>4, <2>5, <2>6
<1>7. fullRead' \in BOOLEAN
  BY <1>3
<1>8. ~fullRead' => ~fullRead /\ d = Len(pipe)
  BY <1>3, <1>5, <1>6
<1>9. PICK off, t, lo, from :
        Placed(Len(accepted), accepted, off, t, lo, from, rbuf, pipe, handled, ~fullRead /\ ~vanished)
  BY DEF FifoInv
<1>10. /\ rbuf' \in Seq(Int) /\ pipe' \in Seq(Int)
       /\ Placed(Len(accepted), accepted, off, t, lo, from, rbuf', pipe', handled, ~fullRead' /\ ~vanished')
  <2>1. PICK n : n = Len(accepted)
    OBVIOUS
  <2>2. PICK whole : whole = (~fullRead /\ ~vanished)
    OBVIOUS
  <2>3. PICK rest : rest = (~fullRead' /\ ~vanished')
    OBVIOUS
  <2>4. Placed(n, accepted, off, t, lo, from, rbuf, pipe, handled, whole)
    BY <1>9, <2>1, <2>2, Zenon
  <2>5. rest => whole /\ d = Len(pipe)
    <3>1. vanished' = vanished
      BY <1>3
    <3> QED BY <1>8, <2>2, <2>3, <3>1
  <2>6. PICK x : x = rbuf'
    OBVIOUS
  <2>7. PICK y : y = pipe'
    OBVIOUS
  <2>8. x = rbuf \o SubSeq(pipe, 1, d) /\ y = SubSeq(pipe, d + 1, Len(pipe))
    BY <1>3, <2>6, <2>7
  <2>9. x \in Seq(Int) /\ y \in Seq(Int) /\ Placed(n, accepted, off, t, lo, from, x, y, handled, rest)
    <3>1. d \in 0 .. Len(pipe) /\ rbuf \in Seq(Int) /\ pipe \in Seq(Int)
      BY <1>4, <1>5
    <3>2. Taken(rbuf, pipe, d, x, y)
      BY <2>8, <3>1 DEF Taken
    <3> QED BY ONLY <2>4, <2>5, <3>2, PlacedRead
  <2> QED BY <2>1, <2>3, <2>6, <2>7, <2>9, Zenon
<1>11. FifoTypes'
  <2>1. /\ proc' \in [F!Procs -> {"idle", "open", "mkfifo", "again", "write", "close", "read", "handle"}]
        /\ \A q \in Writers : proc'[q] = proc[q]
        /\ proc'["daemon"] \in {"read", "handle"}
    BY <1>1, <1>3 DEF FifoTypes
  <2>2. Len(rbuf') <= BufSize
    BY <1>5, <1>6
  <2>3. proc["daemon"] \in {"read", "handle"}
    BY <1>3
  <2> QED BY <1>1, <1>3, <1>7, <1>10, <2>1, <2>2, <2>3 DEF FifoTypes
<1>12. Placed(Len(accepted'), accepted', off, t, lo, from, rbuf', pipe', handled', ~fullRead' /\ ~vanished')
  BY <1>3, <1>10
<1> QED BY <1>11, <1>12 DEF FifoInv

LEMMA FifoHandleKeeps ==
  ASSUME F!FifoAssumption, FifoInv, F!user_fifo_read_proc
  PROVE  FifoInv'
<1>1. FifoTypes /\ "daemon" \notin Writers /\ "daemon" \in F!Procs /\ Writers \subseteq F!Procs /\ BufSize \in Nat
  BY DEF FifoInv, F!FifoAssumption, F!Procs
<1>2. /\ UNCHANGED <<frame, frames, accepted, pipe, holders, fullRead, vanished>>
      /\ proc["daemon"] = "handle" /\ proc' = [proc EXCEPT !["daemon"] = "read"]
      /\ handled' = handled \o F!Texts(rbuf) /\ rbuf' = <<>>
  BY DEF F!user_fifo_read_proc, F!Goto
<1>3. PICK off, t, lo, from :
        Placed(Len(accepted), accepted, off, t, lo, from, rbuf, pipe, handled, ~fullRead /\ ~vanished)
  BY DEF FifoInv
<1>4. /\ handled' \in Seq(Seq(Int))
      /\ \E u, up, map :
           Placed(Len(accepted), accepted, off, u, up, map, <<>>, pipe, handled', ~fullRead /\ ~vanished)
  <2>1. PICK n : n = Len(accepted)
    OBVIOUS
  <2>2. PICK whole : whole = (~fullRead /\ ~vanished)
    OBVIOUS
  <2>3. Placed(n, accepted, off, t, lo, from, rbuf, pipe, handled, whole)
    BY <1>3, <2>1, <2>2, Zenon
  <2>4. PICK new : new = handled'
    OBVIOUS
  <2>5. new = handled \o F!Texts(rbuf) /\ rbuf \in Seq(Int) /\ pipe \in Seq(Int) /\ handled \in Seq(Seq(Int))
    BY <1>1, <1>2, <2>4 DEF FifoTypes
  <2>6. /\ new \in Seq(Seq(Int))
        /\ \E u, up, map : Placed(n, accepted, off, u, up, map, <<>>, pipe, new, whole)
    BY ONLY <2>3, <2>5, PlacedHandle
  <2> QED BY <2>1, <2>2, <2>4, <2>6, Zenon
<1>5. FifoTypes'
  <2>1. /\ proc' \in [F!Procs -> {"idle", "open", "mkfifo", "again", "write", "close", "read", "handle"}]
        /\ \A q \in Writers : proc'[q] = proc[q]
        /\ proc'["daemon"] = "read"
    BY <1>1, <1>2 DEF FifoTypes
  <2>2. rbuf' \in Seq(Int) /\ Len(rbuf') <= BufSize
    BY <1>1, <1>2
  <2> QED BY <1>1, <1>2, <1>4, <2>1, <2>2 DEF FifoTypes
<1>6. \E u, up, map :
        Placed(Len(accepted'), accepted', off, u, up, map, rbuf', pipe', handled', ~fullRead' /\ ~vanished')
  BY <1>2, <1>4
<1> QED BY <1>5, <1>6 DEF FifoInv

LEMMA FifoKeeps ==
  ASSUME F!FifoAssumption, FifoInv, [F!Next]_F!vars
  PROVE  FifoInv'
<1>1. CASE UNCHANGED F!vars
  BY <1>1, FifoCalmKeeps
<1>2. CASE F!daemon
  BY <1>2, FifoCalmKeeps, FifoReadKeeps, FifoHandleKeeps DEF F!daemon
<1>3. CASE F!Interrupt
  BY <1>3, FifoCalmKeeps
<1>4. ASSUME NEW p \in Writers, F!user_fifo_write_fmt(p)
      PROVE  FifoInv'
  BY <1>4, FifoCalmKeeps, FifoWriteKeeps, FifoCloseKeeps DEF F!user_fifo_write_fmt
<1> QED BY <1>1, <1>2, <1>3, <1>4 DEF F!Next

LEMMA FifoInOrder ==
  ASSUME FifoInv
  PROVE  F!HandledInOrder
<1>1. PICK off, t, lo, from :
        Placed(Len(accepted), accepted, off, t, lo, from, rbuf, pipe, handled, ~fullRead /\ ~vanished)
  BY DEF FifoInv
<1>2. PICK n \in Nat : n = Len(accepted)
  BY DEF FifoInv, FifoTypes
<1>3. PICK whole : whole = (~fullRead /\ ~vanished)
  OBVIOUS
<1>4. Placed(n, accepted, off, t, lo, from, rbuf, pipe, handled, whole)
  BY <1>1, <1>2, <1>3, Zenon
<1>5. /\ accepted \in Seq(Nat \ {0}) /\ rbuf \in Seq(Int) /\ pipe \in Seq(Int) /\ handled \in Seq(Seq(Int))
  BY DEF FifoInv, FifoTypes
<1>6. /\ \E g \in [1 .. Len(handled) -> 1 .. n] :
           /\ \A k \in 1 .. Len(handled) : handled[k] = F!text(accepted[g[k]])
           /\ \A j, k \in 1 .. Len(handled) : j < k => g[j] < g[k]
      /\ whole => handled \o F!Texts(rbuf \o pipe) = [k \in 1 .. n |-> F!text(accepted[k])]
  <2>1. accepted \in Seq(Nat \ {0}) /\ n = Len(accepted)
    BY <1>2, <1>5
  <2>2. Ordered(n, accepted, rbuf, pipe, handled, whole)
    BY ONLY <1>4, <1>5, <2>1, PlacedInOrder
  <2> QED BY ONLY <2>2 DEF Ordered
<1>7. DOMAIN handled = 1 .. Len(handled) /\ DOMAIN accepted = 1 .. n
  BY <1>2, <1>5
<1> QED BY <1>3, <1>6, <1>7 DEF F!HandledInOrder, F!Under

\* Through the command pipe only whole frames are handled, each at most once and in the
\* order in which they were written, with any number of writers, any buffer and any pipe
\* that holds a frame; frames are lost only when a full buffer cut one, or when the last
\* process closed a pipe that still had bytes.
THEOREM CommandsInOrder == F!FifoAssumption => (F!Spec => []F!HandledInOrder)
<1> SUFFICES ASSUME F!FifoAssumption PROVE F!Spec => []F!HandledInOrder
  OBVIOUS
<1>1. F!Init => FifoInv
  BY FifoStarts
<1>2. FifoInv /\ [F!Next]_F!vars => FifoInv'
  BY FifoKeeps
<1>3. FifoInv => F!HandledInOrder
  BY FifoInOrder
<1> QED BY <1>1, <1>2, <1>3, PTL DEF F!Spec

-----------------------------------------------------------------------------
\* The library: a behavior of one part changes nothing of the others.
LEMMA PartsStep ==
  ASSUME [LibraryNext]_all
  PROVE  [R!Next]_(R!vars) /\ [A!Next]_(A!vars) /\ [V!Next]_(V!vars) /\ [F!Next]_(F!vars)
<1>1. UNCHANGED rings => UNCHANGED R!vars
  BY DEF rings, R!vars, R!idx, R!counts, R!copies, R!stream
<1>2. UNCHANGED autom => UNCHANGED A!vars
  BY DEF autom, A!vars
<1>3. UNCHANGED vad => UNCHANGED V!vars
  BY DEF vad, V!vars
<1>4. UNCHANGED fifoVars => UNCHANGED F!vars
  BY DEF fifoVars, F!vars
<1>5. CASE UNCHANGED all
  BY <1>1, <1>2, <1>3, <1>4, <1>5 DEF all
<1>6. CASE LibraryNext
  BY <1>1, <1>2, <1>3, <1>4, <1>6 DEF LibraryNext, Fifo, RunRings, RunVad, RunAutom
<1> QED BY <1>5, <1>6

\* The command pipe in the library: see CommandsInOrder.
THEOREM LibraryHandles == F!FifoAssumption => (LibrarySpec => []HandledInOrder)
<1> SUFFICES ASSUME F!FifoAssumption PROVE LibrarySpec => []HandledInOrder
  OBVIOUS
<1>1. LibraryInit => FifoInv
  BY FifoStarts DEF LibraryInit
<1>2. FifoInv /\ [LibraryNext]_all => FifoInv'
  BY PartsStep, FifoKeeps
<1>3. FifoInv => HandledInOrder
  BY FifoInOrder DEF HandledInOrder
<1> QED BY <1>1, <1>2, <1>3, PTL DEF LibrarySpec

\* The rings and the growing buffer in the library: see IndicesFollowCounts,
\* BytesReadInOrder and BufferInOrder.
THEOREM LibraryReads ==
  R!RingsAssumption /\ (\A u \in Uses : R!Suits(u)) /\ A!AutomAssumption
    => (LibrarySpec => []BytesInOrder)
<1> SUFFICES ASSUME R!RingsAssumption, \A u \in Uses : R!Suits(u), A!AutomAssumption
             PROVE  LibrarySpec => []BytesInOrder
  OBVIOUS
<1>1. LibraryInit => ContentInv /\ AutomInv
  BY ContentStart, AutomStarts DEF LibraryInit
<1>2. ContentInv /\ AutomInv /\ [LibraryNext]_all => (ContentInv /\ AutomInv)'
  BY PartsStep, ContentKept, AutomKept
<1>3. ContentInv /\ AutomInv => BytesInOrder
  <2>1. ContentInv => R!IndicesAgree /\ R!ReadsWhatWasWritten
    BY RingAgrees DEF ContentInv, RingInv, RingTypes, R!ReadsWhatWasWritten
  <2>2. AutomInv => A!InsideMemory /\ A!ReadInOrder
    BY DEF AutomInv, A!InsideMemory, A!ReadInOrder
  <2> QED BY <2>1, <2>2 DEF BytesInOrder
<1> QED BY <1>1, <1>2, <1>3, PTL DEF LibrarySpec

\* The voice detector in the library: see SpeechConfirmed.
THEOREM LibraryConfirms ==
  V!VadAssumption /\ (\A chunk \in Chunks : V!isChunkSpeaking(chunk) = V!Heard(chunk))
    => (LibrarySpec => []Confirmed)
<1> SUFFICES ASSUME V!VadAssumption, \A chunk \in Chunks : V!isChunkSpeaking(chunk) = V!Heard(chunk)
             PROVE  LibrarySpec => []Confirmed
  OBVIOUS
<1>1. LibraryInit => VadInv
  BY DEF V!VadAssumption, V!Init, VadInv, LibraryInit
<1>2. VadInv /\ [LibraryNext]_all => VadInv'
  BY PartsStep, VadKept
<1>3. VadInv => Confirmed
  BY DEF VadInv, V!Confirmed, Confirmed
<1> QED BY <1>1, <1>2, <1>3, PTL DEF LibrarySpec
=============================================================================
