----------------------------- MODULE SockServer -----------------------------
(***************************************************************************)
(* package/app/SockServer: a main loop accepts connections, starts one     *)
(* handler thread per connection and deletes a client when its handler has *)
(* set RESPONSE_FINISH; Stop ends all of them.                             *)
(*                                                                         *)
(* A SockClient is named by the number of the connection it was accepted   *)
(* for.  It keeps only the number m_sockfd of its descriptor, closes it in *)
(* the handler (closeSocket) and once more in its destructor; the kernel   *)
(* gives the lowest free number to the next accept.                        *)
(*                                                                         *)
(* External: the peers, accept, close, select and recv.  The bytes that a  *)
(* handler sends are the subject of SockSend.                              *)
(***************************************************************************)
EXTENDS Integers, Sequences, FiniteSets, SequencesExt

CONSTANTS
  Fds,      \* the descriptor numbers the process may use for connections
  MaxConn   \* bound: connections that arrive

ASSUME ServerAssumption == Fds \subseteq Nat \ {0} /\ IsFiniteSet(Fds) /\ MaxConn \in Nat

Conn == 1..MaxConn
Nobody == 0

VARIABLES
  arrived,    \* connections made by peers so far, in order
  ready,      \* connections whose peer has sent its request or closed
  file,       \* kernel: the connection each descriptor refers to, or Nobody
  loop,       \* main loop: "select", "accept", "scan", "reap", "exit", "error"
  it,         \* its iterator, a position in m_clients
  clients,    \* m_clients
  accepted,   \* number of connections accepted
  readfds,    \* the clients' descriptors in m_readfds
  sockfd,     \* m_sockfd of each client
  step,       \* m_responseStep, or "none" before and "deleted" after its life
  handler,    \* handler thread: "none", "recv", "wait", "answer", "stream",
              \*   "stuck", "finish", "close", "end"
  hears,      \* while it waits in recv(): the connection that it listens to
  exitWork,   \* clients with m_exitWork set
  owner,      \* who calls SocServer::Stop: "run", "join", "clients", "stopped"
  stolen,     \* connections whose descriptor another client closed
  reused      \* a connection got a descriptor that a listed client still names

kernel  == <<arrived, ready, file, stolen>>
main    == <<loop, it, clients, accepted, readfds, sockfd, reused>>
vars    == <<kernel, main, step, handler, hears, exitWork, owner>>

Init ==
  /\ arrived = 0 /\ ready = {} /\ file = [f \in Fds |-> Nobody] /\ stolen = {}
  /\ loop = "select" /\ it = 1 /\ clients = <<>> /\ accepted = 0 /\ readfds = {}
  /\ sockfd = [c \in Conn |-> 0] /\ reused = FALSE
  /\ step = [c \in Conn |-> "none"]
  /\ handler = [c \in Conn |-> "none"]
  /\ hears = [c \in Conn |-> Nobody]
  /\ exitWork = {} /\ owner = "run"

\* close(m_sockfd) by client c, whatever the number refers to by now.
Close(c) ==
  /\ file' = [file EXCEPT ![sockfd[c]] = Nobody]
  /\ stolen' = stolen \cup ({file[sockfd[c]]} \ {c, Nobody})
-----------------------------------------------------------------------------
\* The peers.
Connect ==
  /\ arrived < MaxConn
  /\ arrived' = arrived + 1
  /\ UNCHANGED <<ready, file, stolen, main, step, handler, hears, exitWork, owner>>

\* All of a request, or the peer closes; when, matters only once somebody waits for it.
Request(c) ==
  /\ c \notin ready /\ \E b \in Conn : hears[b] = c
  /\ ready' = ready \cup {c}
  /\ UNCHANGED <<arrived, file, stolen, main, step, handler, hears, exitWork, owner>>
-----------------------------------------------------------------------------
\* SocServer::Run.

\* The exit flag, then select: an error if m_readfds has a closed descriptor.
Select ==
  /\ loop = "select"
  /\ loop' = IF owner # "run" THEN "exit"
             ELSE IF \E f \in readfds : file[f] = Nobody THEN "error"
             ELSE IF accepted < arrived THEN "accept" ELSE "scan"
  /\ it' = 1
  /\ UNCHANGED <<kernel, clients, accepted, readfds, sockfd, reused, step, handler, hears, exitWork, owner>>

\* accept fails without a free descriptor, and the loop goes on; else the new
\* connection has the lowest one.
Accept ==
  LET free == {f \in Fds : file[f] = Nobody}
      c    == accepted + 1
  IN /\ loop = "accept" /\ loop' = "select"
     /\ \/ /\ free = {}
           /\ UNCHANGED <<file, clients, accepted, readfds, sockfd, reused, step>>
        \/ \E f \in free :
             /\ \A g \in free : f <= g
             /\ file' = [file EXCEPT ![f] = c]
             /\ accepted' = c
             /\ clients' = Append(clients, c)
             /\ sockfd' = [sockfd EXCEPT ![c] = f]
             /\ readfds' = readfds \cup {f}
             /\ step' = [step EXCEPT ![c] = "waiting"]
             /\ reused' = (reused \/ \E b \in ToSet(clients) : sockfd[b] = f)
     /\ UNCHANGED <<arrived, ready, stolen, it, handler, hears, exitWork, owner>>

\* The first pass over m_clients.  isReadable is true also when its select
\* times out, so every waiting client whose descriptor is open gets a handler.
Scan ==
  /\ loop = "scan"
  /\ IF it > Len(clients)
     THEN loop' = "reap" /\ it' = 1 /\ UNCHANGED <<readfds, step, handler>>
     ELSE LET c == clients[it]
          IN /\ it' = it + 1 /\ loop' = loop
             /\ IF step[c] = "waiting" /\ file[sockfd[c]] # Nobody
                THEN /\ readfds' = readfds \ {sockfd[c]}
                     /\ step' = [step EXCEPT ![c] = "start"]
                     /\ handler' = [handler EXCEPT ![c] = "recv"]
                ELSE UNCHANGED <<readfds, step, handler>>
  /\ UNCHANGED <<kernel, clients, accepted, sockfd, reused, hears, exitWork, owner>>

Ended(c) == handler[c] \in {"none", "end"}

\* Mutant: the destructor leaves the descriptor open.
DeleteWithoutClose(c) == step' = [step EXCEPT ![c] = "deleted"] /\ UNCHANGED <<file, stolen>>

\* delete of a client, whose destructor closes the descriptor.
Delete(c) == step' = [step EXCEPT ![c] = "deleted"] /\ Close(c)

\* Mutant: the thread is not joined.
ReapWithoutJoin ==
  /\ loop = "reap"
  /\ IF it > Len(clients)
     THEN loop' = "select" /\ UNCHANGED <<file, stolen, it, clients, step, exitWork>>
     ELSE LET c == clients[it]
          IN /\ loop' = loop
             /\ IF step[c] = "finish"
                THEN /\ exitWork' = exitWork \cup {c}
                     /\ Delete(c)
                     /\ clients' = RemoveAt(clients, it) /\ it' = it
                ELSE it' = it + 1 /\ UNCHANGED <<file, stolen, clients, step, exitWork>>
  /\ UNCHANGED <<arrived, ready, accepted, readfds, sockfd, reused, handler, hears, owner>>

\* Mutant: the pass ends at the first client that is not finished.
ReapUntilBusy ==
  /\ loop = "reap"
  /\ IF it > Len(clients) \/ step[clients[it]] # "finish"
     THEN loop' = "select" /\ UNCHANGED <<file, stolen, clients, step, exitWork>>
     ELSE LET c == clients[it]
          IN /\ loop' = loop
             /\ Ended(c)
             /\ exitWork' = exitWork \cup {c}
             /\ Delete(c)
             /\ clients' = RemoveAt(clients, it)
  /\ UNCHANGED <<arrived, ready, it, accepted, readfds, sockfd, reused, handler, hears, owner>>

\* The second pass: a finished client is stopped (its thread joined), deleted
\* and erased.
Reap ==
  /\ loop = "reap"
  /\ IF it > Len(clients)
     THEN loop' = "select" /\ UNCHANGED <<file, stolen, it, clients, step, exitWork>>
     ELSE LET c == clients[it]
          IN /\ loop' = loop
             /\ IF step[c] = "finish"
                THEN /\ Ended(c)
                     /\ exitWork' = exitWork \cup {c}
                     /\ Delete(c)
                     /\ clients' = RemoveAt(clients, it) /\ it' = it
                ELSE it' = it + 1 /\ UNCHANGED <<file, stolen, clients, step, exitWork>>
  /\ UNCHANGED <<arrived, ready, accepted, readfds, sockfd, reused, handler, hears, owner>>

Run == Select \/ Accept \/ Scan \/ Reap
-----------------------------------------------------------------------------
\* The handler thread of client c.
HGoto(c, from, to) == handler[c] = from /\ handler' = [handler EXCEPT ![c] = to]

\* Recv: the exit flag is tested before the call only, which blocks until there is
\* something to read.  With the flag, or from a closed descriptor, there is nothing.
HRecv(c) ==
  /\ handler[c] = "recv"
  /\ IF c \in exitWork \/ file[sockfd[c]] = Nobody
     THEN HGoto(c, "recv", "end") /\ hears' = hears
     ELSE HGoto(c, "recv", "wait") /\ hears' = [hears EXCEPT ![c] = file[sockfd[c]]]
  /\ UNCHANGED <<kernel, main, step, exitWork, owner>>

\* The peer sends a part of its request, which leads to the next Recv, of 50.
HPart(c) ==
  /\ hears[c] \in Conn \ ready
  /\ HGoto(c, "wait", "recv") \/ HGoto(c, "wait", "end")
  /\ hears' = [hears EXCEPT ![c] = Nobody]
  /\ UNCHANGED <<kernel, main, step, exitWork, owner>>

\* All that the peer sends.  Too short a request, one without an end and one that is
\* overtaken by the exit flag leave the thread with the step at RESPONSE_START.
HRequest(c) ==
  /\ hears[c] \in ready
  /\ \/ HGoto(c, "wait", "end")
     \/ c \notin exitWork /\ HGoto(c, "wait", "answer")
     \/ c \notin exitWork /\ HGoto(c, "wait", "stream")
  /\ hears' = [hears EXCEPT ![c] = Nobody]
  /\ UNCHANGED <<kernel, main, step, exitWork, owner>>

\* HandleResponse with a text, or with nothing to say.
HAnswer(c) ==
  /\ HGoto(c, "answer", "finish")
  /\ UNCHANGED <<kernel, main, step, hears, exitWork, owner>>

\* SendStreaming sends the file again and again until m_exitWork.  The flag
\* makes Send return 0, so a thread in the middle of a piece never leaves the
\* loop around Send; no more does one whose peer is gone.
HStream(c) ==
  /\ \/ c \in exitWork /\ HGoto(c, "stream", "finish")
     \/ HGoto(c, "stream", "stuck")
  /\ UNCHANGED <<kernel, main, step, hears, exitWork, owner>>

HFinish(c) ==
  /\ HGoto(c, "finish", "close")
  /\ step' = [step EXCEPT ![c] = "finish"]
  /\ UNCHANGED <<kernel, main, hears, exitWork, owner>>

\* closeSocket, which keeps m_sockfd.
HClose(c) ==
  /\ HGoto(c, "close", "end")
  /\ Close(c)
  /\ UNCHANGED <<arrived, ready, main, step, hears, exitWork, owner>>

Handler(c) == HRecv(c) \/ HPart(c) \/ HRequest(c) \/ HAnswer(c) \/ HStream(c) \/ HFinish(c) \/ HClose(c)
-----------------------------------------------------------------------------
\* SocServer::Stop, called by another thread.
Stop ==
  /\ owner = "run" /\ owner' = "join"
  /\ UNCHANGED <<kernel, main, step, handler, hears, exitWork>>

StopJoin ==
  /\ owner = "join" /\ loop \in {"exit", "error"} /\ owner' = "clients"
  /\ UNCHANGED <<kernel, main, step, handler, hears, exitWork>>

\* Mutant: the thread is joined before it is told to leave.
StopClientUntold ==
  /\ owner = "clients"
  /\ IF clients = <<>>
     THEN owner' = "stopped" /\ UNCHANGED <<file, stolen, clients, step>>
     ELSE LET c == Head(clients)
          IN owner' = owner /\ Ended(c) /\ Delete(c) /\ clients' = Tail(clients)
  /\ UNCHANGED <<arrived, ready, loop, it, accepted, readfds, sockfd, reused, handler, hears, exitWork>>

\* The clients one after the other: flag, join, delete.
StopClient ==
  /\ owner = "clients"
  /\ IF clients = <<>>
     THEN owner' = "stopped" /\ UNCHANGED <<file, stolen, clients, step, exitWork>>
     ELSE LET c == Head(clients)
          IN /\ owner' = owner
             /\ IF c \notin exitWork
                THEN exitWork' = exitWork \cup {c} /\ UNCHANGED <<file, stolen, clients, step>>
                ELSE Ended(c) /\ Delete(c) /\ clients' = Tail(clients) /\ exitWork' = exitWork
  /\ UNCHANGED <<arrived, ready, loop, it, accepted, readfds, sockfd, reused, handler, hears>>

Owner == StopJoin \/ StopClient
-----------------------------------------------------------------------------
Next ==
  \/ Connect \/ Run \/ Stop \/ Owner
  \/ \E c \in Conn : Request(c) \/ Handler(c)

\* The threads run.  Nobody has to connect, to send anything, to close or to call
\* Stop, and a stream may go on for ever.
Runs(c) == HRecv(c) \/ HRequest(c) \/ HAnswer(c) \/ HFinish(c) \/ HClose(c)

Spec ==
  /\ Init /\ [][Next]_vars
  /\ WF_vars(Run) /\ WF_vars(Owner)
  /\ \A c \in Conn : WF_vars(Runs(c)) /\ WF_vars(c \in exitWork /\ HStream(c))
-----------------------------------------------------------------------------
\* The types, and: m_clients lists the clients that are alive, each once.
TypeOK ==
  /\ arrived \in 0..MaxConn /\ ready \subseteq Conn /\ stolen \subseteq Conn
  /\ file \in [Fds -> Conn \cup {Nobody}]
  /\ loop \in {"select", "accept", "scan", "reap", "exit", "error"} /\ it \in 1..(MaxConn + 1)
  /\ accepted \in 0..arrived /\ readfds \subseteq Fds /\ sockfd \in [Conn -> Fds \cup {0}]
  /\ step \in [Conn -> {"none", "waiting", "start", "finish", "deleted"}]
  /\ handler \in [Conn -> {"none", "recv", "wait", "answer", "stream", "stuck", "finish", "close", "end"}]
  /\ hears \in [Conn -> Conn \cup {Nobody}]
  /\ exitWork \subseteq Conn /\ owner \in {"run", "join", "clients", "stopped"} /\ reused \in BOOLEAN
  /\ IsInjective(clients)
  /\ ToSet(clients) = {c \in Conn : step[c] \notin {"none", "deleted"}}

\* A client is deleted, by the main loop or by Stop, only when its handler
\* thread has ended; no thread runs on a deleted object.
JoinedBeforeDelete == \A c \in Conn : step[c] = "deleted" => Ended(c)

\* The double close is harmless, and select never fails, as long as no
\* connection is accepted between closeSocket in a handler and the deletion of
\* that client.  (Once one is, it may lose its descriptor, and a third connection
\* may then end the main loop.)  Until then an open descriptor belongs to a listed
\* client that has not closed it: neither the handler's early returns nor Stop leak.
DescriptorsOwned ==
  ~reused =>
    /\ stolen = {} /\ loop # "error"
    /\ \A f \in Fds : file[f] # Nobody => file[f] \in ToSet(clients) /\ sockfd[file[f]] = f

\* A connection waits for which there is no descriptor: accept fails in every round.
Starved == accepted < arrived /\ \A f \in Fds : file[f] # Nobody

\* A client whose response is finished is deleted, while the main loop lives, however
\* many connections arrive; unless accept fails from some time on for ever, for want of
\* the descriptors that clients hold whom nobody stops.
FinishedReaped ==
  \A c \in Conn : (step[c] = "finish") ~> (step[c] = "deleted" \/ loop \in {"error", "exit"} \/ []Starved)

\* What keeps Stop from joining a handler: a stream inside its loop around Send, or a
\* peer that says nothing.
Caught(c) ==
  \/ handler[c] = "stuck"
  \/ handler[c] = "wait" /\ hears[c] \notin ready

\* Stop returns, unless the client that it has come to is caught for ever.
StopReturns ==
  (owner = "join") ~>
    (owner = "stopped" \/ [](owner = "clients" /\ clients # <<>> /\ Caught(Head(clients))))
=============================================================================
