---------------------------- MODULE EventServers ----------------------------
(***************************************************************************)
(* The eight servers of ut_socket.c: internet or unix sockets, epoll or    *)
(* select, stream or datagram, and the client sockets next to them.        *)
(*                                                                         *)
(* The callbacks pRcbk and pWcbk belong to the caller and none is in the   *)
(* repository: a callback returns 0 when it did its work, 1 when the peer  *)
(* has closed, something else on an error; closes says whether it closes   *)
(* the descriptor before it returns 1.  A read of a descriptor that has    *)
(* nothing to read blocks the server.                                      *)
(*                                                                         *)
(* Bounds: MaxFd descriptors for connections (or datagram sockets, where   *)
(* it is the length of the table) and MaxConn connections over a run;      *)
(* EVENTS_SIZE is 10 in the code.                                          *)
(***************************************************************************)
EXTENDS Integers, FiniteSets, FiniteSetsExt

CONSTANTS MaxFd, MaxConn, EVENTS_SIZE

ASSUME BoundsAssumption == {MaxFd, MaxConn, EVENTS_SIZE} \subseteq Nat \ {0}

VARIABLES
    kind,     \* [fam, how, proto]: the server, or the clients' create function, that runs
    closes,   \* whether the callback closes a descriptor its peer closed
    pc,       \* where the loop is
    pending,  \* connections in the listener's backlog
    open,     \* open descriptors
    sock,     \* what the kernel holds for each descriptor
    watch,    \* what each descriptor is watched for: epoll interest, allset
    conn_a,   \* the select servers' table, tbl of the datagram servers
    batch,    \* events of this round (epoll) or rset (select)
    nready,   \* the count the wait returned, decremented by select
    pos,      \* next entry of conn_a the select loop looks at
    made,     \* connections attempted (bound)
    clients   \* of a client process: sockets handed out, and left open by a failure
vars == <<kind, closes, pc, pending, open, sock, watch, conn_a, batch, nready,
          pos, made, clients>>

Fds      == 1 .. MaxFd
LISTENER == 0
NoFd     == -1
Kinds    == [fam : {"in", "un"}, how : {"epoll", "select", "client"}, proto : {"tcp", "udp"}]
Tcp      == kind.proto = "tcp"
Epoll    == kind.how = "epoll"
Free     == Fds \ open

Init ==
    /\ kind \in Kinds /\ closes \in (IF kind.how = "client" THEN {FALSE} ELSE BOOLEAN)
    /\ pc = "start"
    /\ pending = 0 /\ made = 0 /\ nready = 0 /\ pos = 1
    /\ open = {} /\ batch = {}
    /\ sock = [f \in Fds |-> "none"]
    /\ watch = [f \in Fds |-> "no"]
    /\ conn_a = [i \in Fds |-> NoFd]
    /\ clients = [used |-> 0, leaked |-> 0]

(* socket, bind, listen: any failure ends the process.  A datagram server  *)
(* opens and watches every socket of its table.                            *)
Start ==
    /\ pc = "start"
    /\ UNCHANGED <<kind, closes, pending, batch, nready, pos, made, clients>>

StartFails == Start /\ pc' = "exited" /\ UNCHANGED <<open, sock, watch, conn_a>>

\* The program may have a descriptor of its own open, so that there is one less for peers.
StartTcp == Start /\ pc' = "wait" /\ open' \in {{}, {1}} /\ UNCHANGED <<sock, watch, conn_a>>

StartUdp ==
    /\ Start /\ pc' = "wait"
    /\ open' = Fds
    /\ sock' = [f \in Fds |-> "idle"]
    /\ watch' = [f \in Fds |-> "in"]
    /\ conn_a' = [i \in Fds |-> i]

(***************************************************************************)
(* The peers.  "last" is unread data with the end of the stream behind it, *)
(* "cut" with a reset behind it; "rst" is a reset that nobody was told of  *)
(* yet, "hup" one that was reported.  A peer that has closed resets the    *)
(* stream too, when something is written to it.  "fin" of a datagram       *)
(* socket is a message the callback answers with 1.                        *)
(***************************************************************************)
Connect ==
    /\ Tcp /\ pc \notin {"start", "exited"} /\ made < MaxConn
    /\ pending' = pending + 1 /\ made' = made + 1
    /\ UNCHANGED <<kind, closes, pc, open, sock, watch, conn_a, batch, nready, pos, clients>>

PeerActs(f) ==
    /\ f \in open /\ watch[f] # "no"
    /\ \/ sock[f] = "idle" /\ \E s \in {"data", "fin"} : sock' = [sock EXCEPT ![f] = s]
       \/ Tcp /\ sock[f] = "data" /\ sock' = [sock EXCEPT ![f] = "last"]
       \/ Tcp /\ sock[f] \in {"idle", "fin"}  /\ sock' = [sock EXCEPT ![f] = "rst"]
       \/ Tcp /\ sock[f] \in {"data", "last"} /\ sock' = [sock EXCEPT ![f] = "cut"]
    /\ UNCHANGED <<kind, closes, pc, pending, open, watch, conn_a, batch, nready, pos, made, clients>>

\* A stream that takes nothing any more: one that was reset, and a unix stream whose peer
\* has closed.
Broken(f) ==
    \/ sock[f] \in {"cut", "rst", "hup"}
    \/ kind.fam = "un" /\ Tcp /\ sock[f] \in {"last", "fin"}

(* What epoll reports: a stream that was reset has EPOLLHUP set from then  *)
(* on, a unix stream also when its peer closed, next to what was asked.    *)
Events(f) ==
    LET asked == IF watch[f] = "out" THEN {"OUT"}
                 ELSE IF watch[f] = "in" /\ sock[f] # "idle" THEN {"IN"} ELSE {}
        hup   == IF Broken(f) THEN {"HUP"} ELSE {}
    IN  IF watch[f] = "no" THEN {} ELSE asked \cup hup

(***************************************************************************)
(* The callbacks: what they return and what becomes of the descriptor.     *)
(***************************************************************************)
Gone(f) == IF closes
           THEN open' = open \ {f} /\ sock' = [sock EXCEPT ![f] = "none"]
           ELSE UNCHANGED <<open, sock>>

\* What is left when unread data has been read.
LeftOver(f) == CASE sock[f] = "data" -> "idle" [] sock[f] = "last" -> "fin" [] sock[f] = "cut" -> "rst"

Reads(f, r) ==
    \/ f \notin open /\ r = -1 /\ UNCHANGED <<open, sock>>
    \/ f \in open /\ sock[f] \in {"data", "last", "cut"} /\ r = 0
       /\ sock' = [sock EXCEPT ![f] = LeftOver(f)] /\ UNCHANGED open
    \/ f \in open /\ sock[f] = "rst" /\ r = -1
       /\ sock' = [sock EXCEPT ![f] = "hup"] /\ UNCHANGED open
    \/ f \in open /\ sock[f] \in {"fin", "hup"} /\ r = 1 /\ Gone(f)

Writes(f, r) ==
    \/ f \in open /\ ~Broken(f) /\ r = 0 /\ UNCHANGED <<open, sock>>
    \/ f \in open /\ Broken(f) /\ r = -1
       /\ sock' = [sock EXCEPT ![f] = IF @ = "rst" THEN "hup" ELSE @] /\ UNCHANGED open
    \/ f \in open /\ sock[f] \in {"fin", "hup"} /\ r = 1 /\ Gone(f)

(***************************************************************************)
(* The epoll servers.                                                      *)
(***************************************************************************)
EpollWait ==
    LET ready == {[fd |-> f, ev |-> Events(f)] : f \in {g \in open : Events(g) # {}}}
                 \cup (IF pending > 0 THEN {[fd |-> LISTENER, ev |-> {"IN"}]} ELSE {})
        n     == Min({Cardinality(ready), EVENTS_SIZE})
    IN  /\ Epoll /\ pc = "wait" /\ ready # {}
        /\ \E b \in kSubset(n, ready) : batch' = b
        /\ nready' = n /\ pc' = "run"
        /\ UNCHANGED <<kind, closes, pending, open, sock, watch, conn_a, pos, made, clients>>

Take(e) == /\ batch' = batch \ {e}
           /\ pc' = IF batch' = {} THEN "wait" ELSE "run"
           /\ UNCHANGED <<kind, closes, conn_a, nready, pos, made, clients>>

\* Mutant: one place more of the array is kept free.
EpollAcceptTight(e) ==
    /\ e.fd = LISTENER
    /\ IF nready + 2 <= EVENTS_SIZE /\ Free # {}
       THEN LET c == Min(Free)
            IN  /\ pending' = pending - 1
                /\ open' = open \cup {c}
                /\ sock' = [sock EXCEPT ![c] = "idle"]
                /\ watch' = [watch EXCEPT ![c] = "in"]
       ELSE UNCHANGED <<pending, open, sock, watch>>

(* The listener is served only in a round that leaves room in the array;   *)
(* accept returns the lowest free number, or -1, which is not tested.      *)
EpollAccept(e) ==
    /\ e.fd = LISTENER
    /\ IF nready + 1 <= EVENTS_SIZE /\ Free # {}
       THEN LET c == Min(Free)
            IN  /\ pending' = pending - 1
                /\ open' = open \cup {c}
                /\ sock' = [sock EXCEPT ![c] = "idle"]
                /\ watch' = [watch EXCEPT ![c] = "in"]
       ELSE UNCHANGED <<pending, open, sock, watch>>

EpollIo(e) ==
    /\ e.fd # LISTENER
    /\ \/ /\ e.ev = {"IN"}
          /\ \E r \in {-1, 0, 1} :
                /\ Reads(e.fd, r)
                /\ watch' = [watch EXCEPT ![e.fd] = CASE r = 0 -> "out" [] r = 1 -> "no" [] OTHER -> @]
       \/ /\ e.ev = {"OUT"}
          /\ \E r \in {-1, 0, 1} :
                /\ Writes(e.fd, r)
                /\ watch' = [watch EXCEPT ![e.fd] = CASE r = 0 -> "in" [] r = 1 -> "no" [] OTHER -> @]
       \/ e.ev \notin {{"IN"}, {"OUT"}} /\ UNCHANGED <<open, sock, watch>>
    /\ UNCHANGED pending

EpollEvent ==
    /\ Epoll /\ pc = "run"
    /\ \E e \in batch : (EpollAccept(e) \/ EpollIo(e)) /\ Take(e)

(***************************************************************************)
(* The select servers.                                                     *)
(***************************************************************************)
SelectWait ==
    LET rset == {f \in Fds : watch[f] = "in" /\ sock[f] # "idle"}
                \cup (IF pending > 0 THEN {LISTENER} ELSE {})
    IN  /\ ~Epoll /\ pc = "wait" /\ rset # {}
        /\ batch' = rset /\ nready' = Cardinality(rset)
        /\ pc' = IF Tcp THEN "accept" ELSE "scan"
        /\ pos' = 1
        /\ UNCHANGED <<kind, closes, pending, open, sock, watch, conn_a, made, clients>>

\* Mutant: the loop over the table never breaks.
StoredEverywhere(c) == [i \in Fds |-> IF conn_a[i] = NoFd THEN c ELSE conn_a[i]]

(* in_select_tcp_server stores the connection in the first free entry,     *)
(* un_select_tcp_server in every free entry: its loop has no break.        *)
Stored(c) ==
    LET room == {i \in Fds : conn_a[i] = NoFd}
        into == IF kind.fam = "un" \/ room = {} THEN room ELSE {Min(room)}
    IN  [i \in Fds |-> IF i \in into THEN c ELSE conn_a[i]]

SelectAccept ==
    /\ pc = "accept"
    /\ IF LISTENER \in batch
       THEN /\ nready' = nready - 1
            /\ IF Free # {}
               THEN LET c == Min(Free)
                    IN  /\ pending' = pending - 1
                        /\ open' = open \cup {c}
                        /\ sock' = [sock EXCEPT ![c] = "idle"]
                        /\ watch' = [watch EXCEPT ![c] = "in"]
                        /\ conn_a' = Stored(c)
               ELSE UNCHANGED <<pending, open, sock, watch, conn_a>>
       ELSE UNCHANGED <<nready, pending, open, sock, watch, conn_a>>
    /\ pc' = IF nready' = 0 THEN "wait" ELSE "scan"
    /\ UNCHANGED <<kind, closes, batch, pos, made, clients>>

Hits == {i \in pos .. MaxFd : conn_a[i] \in batch \ {LISTENER}}

\* Mutant: the closed descriptor stays in allset.
SelectEntryNoClr ==
    /\ pc = "scan" /\ Hits # {}
    /\ LET i == Min(Hits)
       IN  \E r \in {-1, 0, 1} :
             /\ Reads(conn_a[i], r)
             /\ conn_a' = IF r = 1 THEN [conn_a EXCEPT ![i] = NoFd] ELSE conn_a
             /\ pos' = i + 1
    /\ nready' = nready - 1
    /\ pc' = IF nready' = 0 THEN "wait" ELSE "scan"
    /\ UNCHANGED <<kind, closes, pending, batch, watch, made, clients>>

(* One entry of the table whose descriptor is in rset.  The datagram       *)
(* servers keep ret in a size_t, so ret < 0 never holds there; what pWcbk  *)
(* returns is not used.                                                    *)
SelectEntry ==
    /\ pc = "scan" /\ Hits # {}
    /\ LET i == Min(Hits)
           f == conn_a[i]
       IN  \E r \in {-1, 0, 1} :
             /\ Reads(f, r)
             /\ IF r = 1
                THEN conn_a' = [conn_a EXCEPT ![i] = NoFd] /\ watch' = [watch EXCEPT ![f] = "no"]
                ELSE UNCHANGED <<conn_a, watch>>
             /\ pos' = i + 1
    /\ nready' = nready - 1
    /\ pc' = IF nready' = 0 THEN "wait" ELSE "scan"
    /\ UNCHANGED <<kind, closes, pending, batch, made, clients>>

SelectEnd ==
    /\ pc = "scan" /\ Hits = {}
    /\ pc' = "wait"
    /\ UNCHANGED <<kind, closes, pending, open, sock, watch, conn_a, batch, nready, pos, made, clients>>

(***************************************************************************)
(* Client sockets: a failed bind or connect returns -2 or -3 and leaves    *)
(* the socket open, so a client that retries runs out of descriptors       *)
(* (MaxFd of them) and gets -1 from then on.                               *)
(***************************************************************************)
CliCreate ==
    /\ kind.how = "client"
    /\ IF clients.used + clients.leaked < MaxFd
       THEN \/ clients' = [clients EXCEPT !.used = @ + 1]
            \/ clients' = [clients EXCEPT !.leaked = @ + 1]
       ELSE UNCHANGED clients
    /\ UNCHANGED <<kind, closes, pc, pending, open, sock, watch, conn_a, batch, nready, pos, made>>

(***************************************************************************)
(* The eight servers, each from its start to its endless loop.             *)
(***************************************************************************)
Runs(fam, how, proto) == kind = [fam |-> fam, how |-> how, proto |-> proto]

EpollLoop  == EpollWait \/ EpollEvent
SelectLoop == SelectWait \/ SelectAccept \/ SelectEntry \/ SelectEnd

in_epoll_tcp_server  == Runs("in", "epoll", "tcp")  /\ (StartFails \/ StartTcp \/ EpollLoop)
un_epoll_tcp_server  == Runs("un", "epoll", "tcp")  /\ (StartFails \/ StartTcp \/ EpollLoop)
in_epoll_udp_server  == Runs("in", "epoll", "udp")  /\ (StartFails \/ StartUdp \/ EpollLoop)
un_epoll_udp_server  == Runs("un", "epoll", "udp")  /\ (StartFails \/ StartUdp \/ EpollLoop)
in_select_tcp_server == Runs("in", "select", "tcp") /\ (StartFails \/ StartTcp \/ SelectLoop)
un_select_tcp_server == Runs("un", "select", "tcp") /\ (StartFails \/ StartTcp \/ SelectLoop)
in_select_udp_server == Runs("in", "select", "udp") /\ (StartFails \/ StartUdp \/ SelectLoop)
un_select_udp_server == Runs("un", "select", "udp") /\ (StartFails \/ StartUdp \/ SelectLoop)

Next ==
    \/ in_epoll_tcp_server \/ un_epoll_tcp_server \/ in_epoll_udp_server \/ un_epoll_udp_server
    \/ in_select_tcp_server \/ un_select_tcp_server \/ in_select_udp_server \/ un_select_udp_server
    \/ Connect \/ CliCreate \/ \E f \in Fds : PeerActs(f)

(* The loops run as long as the process is scheduled; nothing is assumed   *)
(* of the start, the peers and the clients.                                *)
Spec == Init /\ [][Next]_vars /\ WF_vars(EpollLoop \/ SelectLoop)

(***************************************************************************)
(* Properties.                                                             *)
(***************************************************************************)
UnSelect == Runs("un", "select", "tcp")

\* A callback is only ever called with a descriptor that is open and, when it is to read, has
\* something to read: accept may reuse a number that was closed in the same round, and the round's
\* events must not be taken for the new connection's.  un_select_tcp_server, which leaves copies of
\* the descriptor in its table, is the one that does not keep to it, from its first connection on.
CallbackOnOpen ==
    \/ UnSelect
    \/ /\ Epoll => \A e \in batch :
                       \/ e.fd = LISTENER
                       \/ e.fd \in open /\ (e.ev = {"IN"} => sock[e.fd] # "idle")
       /\ pc = "scan" => \A i \in Hits : conn_a[i] \in open /\ sock[conn_a[i]] # "idle"

\* The epoll servers test events for equality with EPOLLIN and EPOLLOUT: a stream whose events
\* carry EPOLLHUP is neither served nor dropped, and they spin on it.
Hup(f) == Epoll /\ "HUP" \in Events(f)

\* The unix select server serves a single connection.
Confused == UnSelect /\ made > 1

\* What a peer sent is read, whatever the other peers do and also when it closes or resets right
\* behind it, and a connection that its peer has closed or reset is taken out of the watched set;
\* unless an epoll server gets EPOLLHUP for it: the unix one for every connection that was closed,
\* the internet one when it was reset, and so also when it wrote to one that was closed.
Waits(f) == \/ sock[f] \in {"data", "last", "cut"}
            \/ sock[f] \in {"fin", "rst", "hup"} /\ watch[f] # "no"

InputIsServed == \A f \in Fds : Waits(f) ~> (~Waits(f) \/ Hup(f) \/ Confused)

\* The listener is served in a round only when the other events of it leave room in the array:
\* peers that keep an epoll server busy, or on whose descriptors it spins, can keep it out for ever.
NoRoomAgainAndAgain == []<>(Epoll /\ nready + 1 > EVENTS_SIZE)

\* A connection in the backlog is accepted while descriptors last, as long as the rounds of an
\* epoll server are not full again and again.
BacklogAccepted ==
    NoRoomAgainAndAgain \/ (pending > 0 ~> (pending = 0 \/ Free = {} \/ Confused))

\* Every peer has its turn: what it sends is read, who closes is dropped, and who connects is
\* accepted.
EveryPeerServed == InputIsServed /\ BacklogAccepted
=============================================================================
