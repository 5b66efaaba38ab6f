-------------------------- MODULE SockServerProofs --------------------------
(***************************************************************************)
(* Threads, list and descriptors of SockServer, for any number of          *)
(* connections and descriptors.  Then the loops around its Send, over the  *)
(* bytes of a reply.                                                       *)
(***************************************************************************)
EXTENDS SockServer, SockSend, ListLemmas, TLAPS

Live(c) == step[c] \notin {"none", "deleted"}

Types ==
  /\ arrived \in 0 .. MaxConn /\ accepted \in 0 .. arrived
  /\ loop = "accept" => accepted < arrived
  /\ file \in [Fds -> Conn \cup {Nobody}]
  /\ clients \in Seq(Conn) /\ it \in Nat \ {0} /\ readfds \subseteq Fds
  /\ sockfd \in [Conn -> Fds \cup {0}]
  /\ step \in [Conn -> {"none", "waiting", "start", "finish", "deleted"}]
  /\ handler \in [Conn -> {"none", "recv", "wait", "answer", "stream", "stuck", "finish", "close", "end"}]

\* The list holds the clients that are alive, each once; a handler runs on a client
\* that was started and not deleted; Stop deletes only when the main loop has ended.
Listed ==
  /\ IsInjective(clients)
  /\ \A c \in Conn : c \in ToSet(clients) <=> Live(c)
  /\ \A c \in Conn : c > accepted => step[c] = "none"
  /\ \A c \in Conn : step[c] # "none" => sockfd[c] \in Fds
  /\ \A c \in Conn : ~Ended(c) => step[c] \in {"start", "finish"}
  /\ owner \in {"clients", "stopped"} => loop \in {"exit", "error"}

\* As long as no number was given to a connection while a listed client named it,
\* the clients' numbers differ, an open descriptor belongs to the listed client that
\* names it, and those that select watches are open and belong to waiting clients.
Owned ==
  /\ stolen = {} /\ loop # "error"
  /\ \A b, c \in Conn : Live(b) /\ Live(c) /\ sockfd[b] = sockfd[c] => b = c
  /\ \A f \in Fds : file[f] # Nobody => Live(file[f]) /\ sockfd[file[f]] = f
  /\ loop # "exit" => \A f \in readfds : file[f] # Nobody /\ step[file[f]] = "waiting"

IInv == Types /\ Listed /\ (~reused => Owned)

\* Nobody is not a connection.
LEMMA ConnType == Conn \subseteq Nat \ {0} /\ Nobody \notin Conn /\ MaxConn \in Nat
  BY ServerAssumption DEF Conn, Nobody

\* close() by a live client, whose number nobody else was given, closes its own
\* descriptor or none.
LEMMA CloseOwn ==
  ASSUME IInv, NEW c \in Conn, Live(c), Close(c)
  PROVE  /\ file' \in [Fds -> Conn \cup {Nobody}]
         /\ \A f \in Fds : file'[f] = IF f = sockfd[c] THEN Nobody ELSE file[f]
         /\ ~reused => stolen' = {}
<1>1. sockfd[c] \in Fds /\ file \in [Fds -> Conn \cup {Nobody}]
  BY DEF IInv, Types, Listed, Live
<1>2. ~reused => file[sockfd[c]] \in {c, Nobody}
  <2> SUFFICES ASSUME ~reused, file[sockfd[c]] # Nobody PROVE file[sockfd[c]] = c
    OBVIOUS
  <2>1. file[sockfd[c]] \in Conn
    BY <1>1
  <2> QED BY <1>1, <2>1 DEF IInv, Owned
<1>3. ~reused => stolen' = {}
  BY <1>2 DEF IInv, Owned, Close
<1> QED BY <1>1, <1>3 DEF Close

\* A client is deleted, in the main loop when it is finished, in Stop afterwards.
LEMMA DeleteKeeps ==
  ASSUME IInv, NEW c \in Conn, Live(c), Ended(c), Delete(c),
         clients' \in Seq(Conn), IsInjective(clients'), ToSet(clients') = ToSet(clients) \ {c},
         step[c] = "finish" \/ loop \in {"exit", "error"},
         loop' = loop, it' \in Nat \ {0},
         UNCHANGED <<arrived, accepted, readfds, sockfd, reused, handler, owner>>
  PROVE  IInv'
<1>1. step' = [step EXCEPT ![c] = "deleted"] /\ Close(c)
  BY DEF Delete
<1>2. /\ file' \in [Fds -> Conn \cup {Nobody}]
      /\ \A f \in Fds : file'[f] = IF f = sockfd[c] THEN Nobody ELSE file[f]
      /\ ~reused => stolen' = {}
  BY <1>1, CloseOwn
<1>3. Types'
  BY <1>1, <1>2 DEF IInv, Types
<1>4. \A x \in Conn : step'[x] = IF x = c THEN "deleted" ELSE step[x]
  BY <1>1 DEF IInv, Types
<1>5. Listed'
  BY <1>4 DEF IInv, Listed, Live, Ended
<1>6. ASSUME ~reused PROVE Owned'
  <2>1. Owned
    BY <1>6 DEF IInv
  <2>2. \A b, d \in Conn : Live(b)' /\ Live(d)' /\ sockfd'[b] = sockfd'[d] => b = d
    BY <1>4, <2>1 DEF Owned, Live
  <2>3. \A f \in Fds : file'[f] # Nobody => step'[file'[f]] \notin {"none", "deleted"} /\ sockfd'[file'[f]] = f
    <3> SUFFICES ASSUME NEW f \in Fds, file'[f] # Nobody
                 PROVE  step'[file'[f]] \notin {"none", "deleted"} /\ sockfd'[file'[f]] = f
      OBVIOUS
    <3>1. file'[f] = file[f] /\ f # sockfd[c] /\ file[f] \in Conn
      BY <1>2 DEF IInv, Types
    <3>2. Live(file[f]) /\ sockfd[file[f]] = f
      BY <2>1, <3>1 DEF Owned
    <3>3. file[f] # c
      BY <3>1, <3>2
    <3> QED BY <1>4, <3>1, <3>2, <3>3 DEF Live
  <2>5. loop' # "error" /\ stolen' = {}
    BY <1>2, <1>6, <2>1 DEF Owned
  <2>4. ASSUME loop' # "exit", NEW f \in readfds' PROVE file'[f] # Nobody /\ step'[file'[f]] = "waiting"
    <3>1. f \in Fds /\ file[f] # Nobody /\ step[file[f]] = "waiting" /\ loop # "error"
      BY <2>1, <2>4 DEF Owned, IInv, Types
    <3>2. file[f] \in Conn /\ sockfd[file[f]] = f
      BY <2>1, <3>1 DEF Owned, IInv, Types
    <3>3. step[c] = "finish"
      BY <2>4, <3>1
    <3>4. file[f] # c /\ Live(file[f])
      BY <3>1, <3>3 DEF Live
    <3>5. f # sockfd[c]
      BY <2>1, <3>2, <3>4 DEF Owned
    <3> QED BY <1>2, <1>4, <3>1, <3>2, <3>4, <3>5
  <2> QED BY <2>2, <2>3, <2>4, <2>5 DEF Owned, Live
<1> QED BY <1>3, <1>5, <1>6 DEF IInv

\* The main loop.
LEMMA SelectKeeps == ASSUME IInv, Select PROVE IInv'
<1>1. /\ loop = "select" /\ loop' \in {"exit", "error", "accept", "scan"} /\ it' = 1
      /\ loop' = "exit" \/ owner = "run"
      /\ loop' = "accept" => accepted < arrived
      /\ loop' = "error" => \E f \in readfds : file[f] = Nobody
      /\ UNCHANGED <<kernel, clients, accepted, readfds, sockfd, reused, step, handler, exitWork, owner>>
  BY DEF Select
<1>2. Types'
  BY <1>1 DEF IInv, Types, kernel
<1>3. Listed'
  BY <1>1 DEF IInv, Listed, Live, Ended
<1>4. ~reused => Owned'
  BY <1>1 DEF IInv, Owned, Live, kernel
<1> QED BY <1>1, <1>2, <1>3, <1>4 DEF IInv

\* The first pass starts the handler of a client that select reported.
LEMMA ScanKeeps == ASSUME IInv, Scan PROVE IInv'
<1>1. CASE it > Len(clients)
  <2>1. loop = "scan" /\ loop' = "reap" /\ it' = 1
        /\ UNCHANGED <<kernel, clients, accepted, readfds, sockfd, reused, step, handler, exitWork, owner>>
    BY <1>1 DEF Scan
  <2> QED BY <2>1 DEF IInv, Types, Listed, Owned, Live, Ended, kernel
<1>2. CASE ~(it > Len(clients))
  <2> DEFINE c == clients[it]
  <2>1. c \in Conn /\ c \in ToSet(clients)
    <3>1. Len(clients) \in Nat /\ DOMAIN clients = 1 .. Len(clients) /\ it \in 1 .. Len(clients)
      BY <1>2, LenProperties DEF IInv, Types
    <3> QED BY <3>1, ElementOfSeq DEF ToSet, IInv, Types
  <2>2. /\ it' = it + 1 /\ loop' = loop /\ loop = "scan"
        /\ UNCHANGED <<kernel, clients, accepted, sockfd, reused, exitWork, owner>>
    BY <1>2 DEF Scan
  <2>3. CASE UNCHANGED <<readfds, step, handler>>
    BY <2>2, <2>3 DEF IInv, Types, Listed, Owned, Live, Ended, kernel
  <2>4. CASE /\ step[c] = "waiting"
             /\ readfds' = readfds \ {sockfd[c]}
             /\ step' = [step EXCEPT ![c] = "start"]
             /\ handler' = [handler EXCEPT ![c] = "recv"]
    <3> HIDE DEF c
    <3>1. /\ \A x \in Conn : step'[x] = IF x = c THEN "start" ELSE step[x]
          /\ \A x \in Conn : handler'[x] = IF x = c THEN "recv" ELSE handler[x]
      BY <2>1, <2>4 DEF IInv, Types
    <3>2. Types'
      BY <2>1, <2>2, <2>4 DEF IInv, Types, kernel
    <3>3. Listed'
      BY <2>1, <2>2, <2>4, <3>1 DEF IInv, Listed, Live, Ended
    <3>4. ASSUME ~reused PROVE Owned'
      <4>1. Owned
        BY <3>4 DEF IInv
      <4>2. \A b, d \in Conn : Live(b)' /\ Live(d)' /\ sockfd'[b] = sockfd'[d] => b = d
        BY <2>2, <2>4, <3>1, <4>1 DEF Owned, Live
      <4>3. ASSUME NEW f \in Fds, file'[f] # Nobody PROVE step'[file'[f]] \notin {"none", "deleted"} /\ sockfd'[file'[f]] = f
        <5>1. file[f] \in Conn /\ file'[f] = file[f]
          BY <2>2, <4>3 DEF IInv, Types, kernel
        <5> QED BY <2>2, <3>1, <4>1, <4>3, <5>1 DEF Owned, Live
      <4>4. ASSUME NEW f \in readfds' PROVE file'[f] # Nobody /\ step'[file'[f]] = "waiting"
        <5>1. f \in Fds /\ f # sockfd[c] /\ file[f] # Nobody /\ step[file[f]] = "waiting" /\ file' = file
          BY <2>2, <2>4, <4>1 DEF IInv, Types, Owned, kernel
        <5>2. file[f] \in Conn /\ file[f] # c
          BY <4>1, <5>1 DEF IInv, Types, Owned
        <5> QED BY <3>1, <5>1, <5>2
      <4>5. loop' # "error" /\ stolen' = {}
        BY <2>2, <4>1 DEF Owned, kernel
      <4> QED BY <4>2, <4>3, <4>4, <4>5 DEF Owned, Live
    <3> QED BY <2>2, <3>2, <3>3, <3>4 DEF IInv
  <2> QED BY <1>2, <2>3, <2>4 DEF Scan
<1> QED BY <1>1, <1>2

\* The second pass deletes and erases a client that is finished.
LEMMA ReapKeeps == ASSUME IInv, Reap PROVE IInv'
<1>1. CASE it > Len(clients) \/ step[clients[it]] # "finish"
  <2>1. /\ loop' \in {"reap", "select"} /\ it' \in {it, it + 1} /\ loop = "reap"
        /\ UNCHANGED <<file, stolen, clients, step, exitWork>>
        /\ UNCHANGED <<arrived, ready, accepted, readfds, sockfd, reused, handler, owner>>
    BY <1>1 DEF Reap
  <2> QED BY <2>1 DEF IInv, Types, Listed, Owned, Live, Ended
<1>2. CASE ~(it > Len(clients)) /\ step[clients[it]] = "finish"
  <2> DEFINE c == clients[it]
  <2>1. it \in 1 .. Len(clients) /\ DOMAIN clients = 1 .. Len(clients)
    BY <1>2, LenProperties DEF IInv, Types
  <2>2. c \in Conn /\ c \in ToSet(clients)
    BY <2>1, ElementOfSeq DEF ToSet, IInv, Types
  <2>3. /\ loop' = loop /\ it' = it /\ Ended(c) /\ Delete(c) /\ clients' = RemoveAt(clients, it)
        /\ UNCHANGED <<arrived, accepted, readfds, sockfd, reused, handler, owner>>
    BY <1>2 DEF Reap
  <2>4. /\ clients' \in Seq(Conn) /\ IsInjective(clients')
        /\ ToSet(clients') = ToSet(clients) \ {c}
    BY <2>1, <2>3, Erase DEF IInv, Types, Listed
  <2>5. Live(c) /\ step[c] = "finish" /\ it' \in Nat \ {0}
    BY <1>2, <2>3 DEF Live, IInv, Types
  <2> HIDE DEF c
  <2> QED BY <2>2, <2>3, <2>4, <2>5, DeleteKeeps
<1> QED BY <1>1, <1>2

\* accept: the new client is the next connection, with a number that was free.
LEMMA AcceptKeeps == ASSUME IInv, Accept PROVE IInv'
<1> DEFINE c == accepted + 1
<1>1. loop = "accept" /\ loop' = "select" /\ UNCHANGED <<arrived, ready, stolen, it, handler, exitWork, owner>>
  BY DEF Accept
<1>2. CASE UNCHANGED <<file, clients, accepted, readfds, sockfd, reused, step>>
  BY <1>1, <1>2 DEF IInv, Types, Listed, Owned, Live, Ended
<1>3. CASE ~ UNCHANGED <<file, clients, accepted, readfds, sockfd, reused, step>>
  <2>1. PICK f \in Fds :
          /\ file[f] = Nobody /\ file' = [file EXCEPT ![f] = c]
          /\ accepted' = c /\ clients' = Append(clients, c)
          /\ sockfd' = [sockfd EXCEPT ![c] = f] /\ readfds' = readfds \cup {f}
          /\ step' = [step EXCEPT ![c] = "waiting"]
          /\ reused' = (reused \/ \E b \in ToSet(clients) : sockfd[b] = f)
    BY <1>3 DEF Accept
  <2>2. c \in Conn /\ c > accepted /\ c \in 1 .. arrived /\ c # Nobody
    BY <1>1, ConnType DEF IInv, Types, Conn, Nobody
  <2>3. step[c] = "none" /\ ~Live(c) /\ c \notin ToSet(clients) /\ Ended(c)
    BY <2>2 DEF IInv, Listed, Live
  <2>4. /\ clients' \in Seq(Conn) /\ IsInjective(clients') /\ ToSet(clients') = ToSet(clients) \cup {c}
    <3>1. Len(clients) \in Nat /\ DOMAIN clients = 1 .. Len(clients) /\ clients \in Seq(Conn)
      BY LenProperties DEF IInv, Types
    <3> HIDE DEF c
    <3>2. /\ clients' \in Seq(Conn) /\ Len(clients') = Len(clients) + 1
          /\ \A i \in 1 .. Len(clients) : clients'[i] = clients[i]
          /\ clients'[Len(clients) + 1] = c
      BY <2>1, <2>2, <3>1, AppendProperties
    <3>3. DOMAIN clients' = 1 .. Len(clients) + 1
      BY <3>2, LenProperties
    <3>4. IsInjective(clients')
      BY <2>3, <3>1, <3>2, <3>3 DEF IsInjective, ToSet, IInv, Listed
    <3>5. ToSet(clients') = ToSet(clients) \cup {c}
      BY <3>1, <3>2, <3>3 DEF ToSet
    <3> QED BY <3>2, <3>4, <3>5
  <2> HIDE DEF c
  <2>5. /\ \A x \in Conn : step'[x] = IF x = c THEN "waiting" ELSE step[x]
        /\ \A x \in Conn : sockfd'[x] = IF x = c THEN f ELSE sockfd[x]
        /\ \A g \in Fds : file'[g] = IF g = f THEN c ELSE file[g]
    BY <2>1, <2>2 DEF IInv, Types
  <2>6. Types'
    BY <1>1, <2>1, <2>2, <2>4 DEF IInv, Types, c
  <2>7. Listed'
    <3>1. \A x \in Conn : x > accepted' => step'[x] = "none"
      BY <2>1, <2>2, <2>5, ConnType DEF IInv, Types, Listed, c
    <3>2. \A x \in Conn : x \in ToSet(clients') <=> Live(x)'
      BY <2>4, <2>5 DEF IInv, Listed, Live
    <3>3. \A x \in Conn : step'[x] # "none" => sockfd'[x] \in Fds
      BY <2>5 DEF IInv, Listed
    <3>4. \A x \in Conn : ~Ended(x)' => step'[x] \in {"start", "finish"}
      BY <1>1, <2>3, <2>5 DEF IInv, Listed, Ended
    <3> QED BY <1>1, <2>4, <3>1, <3>2, <3>3, <3>4 DEF IInv, Listed
  <2>8. ASSUME ~reused' PROVE Owned'
    <3>1. Owned /\ \A b \in Conn : Live(b) => sockfd[b] # f
      BY <2>1, <2>8 DEF IInv, Listed
    <3>2. \A b, d \in Conn : Live(b)' /\ Live(d)' /\ sockfd'[b] = sockfd'[d] => b = d
      BY <2>5, <3>1 DEF Owned, Live
    <3>3. ASSUME NEW g \in Fds, file'[g] # Nobody
          PROVE  step'[file'[g]] \notin {"none", "deleted"} /\ sockfd'[file'[g]] = g
      <4>1. CASE g = f
        BY <2>2, <2>5, <4>1
      <4>2. CASE g # f
        <5>1. file'[g] = file[g] /\ file[g] \in Conn
          BY <2>5, <3>3, <4>2 DEF IInv, Types
        <5>2. file[g] # c
          BY <2>3, <3>1, <3>3, <5>1 DEF Owned
        <5> QED BY <2>5, <3>1, <3>3, <5>1, <5>2 DEF Owned, Live
      <4> QED BY <4>1, <4>2
    <3>4. ASSUME NEW g \in readfds' PROVE file'[g] # Nobody /\ step'[file'[g]] = "waiting"
      <4>1. CASE g = f
        BY <2>2, <2>5, <4>1
      <4>2. CASE g # f
        <5>1. g \in readfds /\ g \in Fds /\ file[g] # Nobody /\ step[file[g]] = "waiting"
          BY <1>1, <2>1, <3>1, <4>2 DEF IInv, Types, Owned
        <5>2. file'[g] = file[g] /\ file[g] \in Conn /\ file[g] # c
          BY <2>3, <2>5, <4>2, <5>1 DEF IInv, Types
        <5> QED BY <2>5, <5>1, <5>2
      <4> QED BY <4>1, <4>2
    <3>5. loop' # "error" /\ stolen' = {}
      BY <1>1, <3>1 DEF Owned
    <3> QED BY <3>2, <3>3, <3>4, <3>5 DEF Owned, Live
  <2> QED BY <2>1, <2>6, <2>7, <2>8 DEF IInv
<1> QED BY <1>2, <1>3

\* A handler goes from step to step, and closes its descriptor at the end.
LEMMA HandlerKeeps == ASSUME IInv, NEW c \in Conn, Handler(c) PROVE IInv'
<1>1. handler[c] \notin {"none", "end"} /\ step[c] \in {"start", "finish"} /\ Live(c)
  <2>1. ~Ended(c)
    BY DEF Handler, HRecv, HPart, HRequest, HAnswer, HStream, HFinish, HClose, HGoto, Ended
  <2> QED BY <2>1 DEF IInv, Listed, Live, Ended
<1>2. CASE HRecv(c) \/ HPart(c) \/ HRequest(c) \/ HAnswer(c) \/ HStream(c)
  <2>1. PICK to \in {"recv", "wait", "answer", "stream", "stuck", "finish", "end"} : handler' = [handler EXCEPT ![c] = to]
    BY <1>2 DEF HRecv, HPart, HRequest, HAnswer, HStream, HGoto
  <2>2. UNCHANGED <<kernel, main, step, exitWork, owner>>
    BY <1>2 DEF HRecv, HPart, HRequest, HAnswer, HStream
  <2>3. Types'
    BY <2>1, <2>2 DEF IInv, Types, kernel, main
  <2>4. Listed'
    BY <1>1, <2>1, <2>2 DEF IInv, Types, Listed, Live, Ended, kernel, main
  <2>5. ~reused => Owned'
    BY <2>2 DEF IInv, Owned, Live, kernel, main
  <2> QED BY <2>2, <2>3, <2>4, <2>5 DEF IInv, main
<1>3. CASE HFinish(c)
  <2>1. /\ handler' = [handler EXCEPT ![c] = "close"] /\ step' = [step EXCEPT ![c] = "finish"]
        /\ UNCHANGED <<kernel, main, exitWork, owner>>
    BY <1>3 DEF HFinish, HGoto
  <2>2. \A x \in Conn : step'[x] = IF x = c THEN "finish" ELSE step[x]
    BY <2>1 DEF IInv, Types
  <2>3. Types'
    BY <2>1 DEF IInv, Types, kernel, main
  <2>4. Listed'
    <3>1. \A x \in Conn : handler'[x] = IF x = c THEN "close" ELSE handler[x]
      BY <2>1 DEF IInv, Types
    <3> QED BY <1>1, <2>1, <2>2, <3>1 DEF IInv, Listed, Live, Ended, kernel, main
  <2>5. ASSUME ~reused PROVE Owned'
    <3>1. Owned
      BY <2>5 DEF IInv
    <3>2. \A b, d \in Conn : Live(b)' /\ Live(d)' /\ sockfd'[b] = sockfd'[d] => b = d
      BY <1>1, <2>1, <2>2, <3>1 DEF Owned, Live, main
    <3>3. ASSUME NEW f \in Fds, file'[f] # Nobody
          PROVE  step'[file'[f]] \notin {"none", "deleted"} /\ sockfd'[file'[f]] = f
      <4>1. file'[f] = file[f] /\ file[f] \in Conn
        BY <2>1, <3>3 DEF IInv, Types, kernel
      <4> QED BY <2>1, <2>2, <3>1, <3>3, <4>1 DEF Owned, Live, main
    <3>4. ASSUME loop' # "exit", NEW f \in readfds' PROVE file'[f] # Nobody /\ step'[file'[f]] = "waiting"
      <4>1. f \in Fds /\ file'[f] = file[f] /\ file[f] # Nobody /\ step[file[f]] = "waiting"
        BY <2>1, <3>1, <3>4 DEF IInv, Types, Owned, kernel, main
      <4>2. file[f] \in Conn /\ file[f] # c
        BY <1>1, <4>1 DEF IInv, Types
      <4> QED BY <2>2, <4>1, <4>2
    <3>5. loop' # "error" /\ stolen' = {}
      BY <2>1, <3>1 DEF Owned, kernel, main
    <3> QED BY <3>2, <3>3, <3>4, <3>5 DEF Owned, Live
  <2> QED BY <2>1, <2>3, <2>4, <2>5 DEF IInv, main
<1>4. CASE HClose(c)
  <2>1. /\ handler' = [handler EXCEPT ![c] = "end"] /\ Close(c)
        /\ UNCHANGED <<arrived, ready, main, step, exitWork, owner>>
    BY <1>4 DEF HClose, HGoto
  <2>2. /\ file' \in [Fds -> Conn \cup {Nobody}]
        /\ \A f \in Fds : file'[f] = IF f = sockfd[c] THEN Nobody ELSE file[f]
        /\ ~reused => stolen' = {}
    BY <1>1, <2>1, CloseOwn
  <2>3. Types'
    BY <2>1, <2>2 DEF IInv, Types, main
  <2>4. Listed'
    BY <2>1 DEF IInv, Types, Listed, Live, Ended, main
  <2>5. ASSUME ~reused PROVE Owned'
    <3>1. Owned
      BY <2>5 DEF IInv
    <3>2. \A b, d \in Conn : Live(b)' /\ Live(d)' /\ sockfd'[b] = sockfd'[d] => b = d
      BY <2>1, <3>1 DEF Owned, Live, main
    <3>3. ASSUME NEW f \in Fds, file'[f] # Nobody
          PROVE  step'[file'[f]] \notin {"none", "deleted"} /\ sockfd'[file'[f]] = f
      BY <2>1, <2>2, <3>1, <3>3 DEF Owned, Live, main
    <3>4. ASSUME loop' # "exit", NEW f \in readfds' PROVE file'[f] # Nobody /\ step'[file'[f]] = "waiting"
      <4>1. f \in Fds /\ file[f] # Nobody /\ step[file[f]] = "waiting"
        BY <2>1, <3>1, <3>4 DEF IInv, Types, Owned, main
      <4>2. file[f] # c /\ file[f] \in Conn /\ sockfd[file[f]] = f /\ Live(file[f])
        BY <1>1, <3>1, <4>1 DEF IInv, Types, Owned
      <4>3. f # sockfd[c]
        BY <1>1, <3>1, <4>2 DEF Owned
      <4> QED BY <2>1, <2>2, <4>1, <4>3
    <3>5. loop' # "error" /\ stolen' = {}
      BY <2>1, <2>2, <2>5, <3>1 DEF Owned, main
    <3> QED BY <3>2, <3>3, <3>4, <3>5 DEF Owned, Live
  <2> QED BY <2>1, <2>3, <2>4, <2>5 DEF IInv, main
<1> QED BY <1>2, <1>3, <1>4 DEF Handler

\* Stop: the clients are deleted one after the other, when the main loop has ended.
LEMMA StopKeeps == ASSUME IInv, Stop \/ StopJoin \/ StopClient PROVE IInv'
<1>1. CASE UNCHANGED <<kernel, main, step, handler>> /\ (owner' = "join" \/ loop \in {"exit", "error"})
  BY <1>1 DEF IInv, Types, Listed, Owned, Live, Ended, kernel, main
<1>2. CASE /\ owner = "clients" /\ owner' = owner /\ clients # <<>>
           /\ Ended(Head(clients)) /\ Delete(Head(clients)) /\ clients' = Tail(clients)
           /\ UNCHANGED <<arrived, ready, loop, it, accepted, readfds, sockfd, reused, handler>>
  <2> DEFINE c == Head(clients)
  <2>1. /\ c \in Conn /\ c \in ToSet(clients)
        /\ clients' \in Seq(Conn) /\ IsInjective(clients') /\ ToSet(clients') = ToSet(clients) \ {c}
    BY <1>2, Behead DEF IInv, Types, Listed
  <2>2. Live(c) /\ loop \in {"exit", "error"} /\ it' \in Nat \ {0} /\ loop' = loop
    BY <1>2, <2>1 DEF IInv, Types, Listed
  <2>3. /\ Ended(c) /\ Delete(c)
        /\ UNCHANGED <<arrived, accepted, readfds, sockfd, reused, handler, owner>>
    BY <1>2
  <2> HIDE DEF c
  <2> QED BY <2>1, <2>2, <2>3, DeleteKeeps
<1>3. CASE Stop \/ StopJoin
  BY <1>1, <1>3 DEF Stop, StopJoin
<1>4. CASE StopClient
  <2>1. owner = "clients" /\ loop \in {"exit", "error"}
    BY <1>4 DEF StopClient, IInv, Listed
  <2> QED BY <1>1, <1>2, <1>4, <2>1 DEF StopClient, kernel, main
<1> QED BY <1>3, <1>4

\* The inductive invariant.
LEMMA Inductive == Spec => []IInv
<1>1. Init => IInv
  <2> SUFFICES ASSUME Init PROVE IInv
    OBVIOUS
  <2>1. clients \in Seq(Conn) /\ IsInjective(clients) /\ ToSet(clients) = {}
    BY EmptySeq DEF Init, IsInjective, ToSet
  <2>2. Types
    BY <2>1, ConnType DEF Init, Types
  <2>3. Listed
    BY <2>1 DEF Init, Listed, Live, Ended
  <2>4. Owned
    BY DEF Init, Owned, Live
  <2> QED BY <2>2, <2>3, <2>4 DEF IInv
<1>2. IInv /\ [Next]_vars => IInv'
  <2> SUFFICES ASSUME IInv, [Next]_vars PROVE IInv'
    OBVIOUS
  <2>1. CASE Connect
    BY <2>1, ConnType DEF Connect, IInv, Types, Listed, Owned, Live, Ended, main
  <2>2. CASE \E c \in Conn : Request(c)
    BY <2>2 DEF Request, IInv, Types, Listed, Owned, Live, Ended, main
  <2>3. CASE UNCHANGED vars
    BY <2>3 DEF vars, IInv, Types, Listed, Owned, Live, Ended, main, kernel
  <2> QED
    BY <2>1, <2>2, <2>3, SelectKeeps, AcceptKeeps, ScanKeeps, ReapKeeps, HandlerKeeps, StopKeeps
    DEF Next, Run, Owner
<1> QED BY <1>1, <1>2, PTL DEF Spec

\* No client is deleted under its handler, whoever deletes it.
THEOREM ThreadsJoined == Spec => []JoinedBeforeDelete
<1>1. IInv => JoinedBeforeDelete
  BY DEF IInv, Listed, JoinedBeforeDelete
<1> QED BY <1>1, Inductive, PTL

\* The descriptor that every client closes twice does no harm until its number has been
\* given to another connection in between, with any number of descriptors.
THEOREM ClosedTwiceHarmless == Spec => []DescriptorsOwned
<1>1. IInv => DescriptorsOwned
  <2> SUFFICES ASSUME IInv, ~reused PROVE DescriptorsOwned
    BY DEF DescriptorsOwned
  <2>1. ASSUME NEW f \in Fds, file[f] # Nobody PROVE file[f] \in ToSet(clients) /\ sockfd[file[f]] = f
    <3>1. file[f] \in Conn
      BY <2>1 DEF IInv, Types
    <3> QED BY <2>1, <3>1 DEF IInv, Owned, Listed
  <2> QED BY <2>1 DEF DescriptorsOwned, IInv, Owned
<1> QED BY <1>1, Inductive, PTL
-----------------------------------------------------------------------------
\* The send loops of SockSend.
\* Before the first failure what went out is all that lies in front of idx.  The loop over a
\* text keeps inside its buffer afterwards too: its next bytes are behind all those it sent.
SendInv ==
  /\ sendLoop \in {"text", "stream"} /\ pc \in {"send", "done", "overrun"}
  /\ idx \in Int /\ rem \in Int /\ failures \in Nat /\ sent \in Seq(Int)
  /\ failures = 0 => /\ pc # "overrun" /\ idx \in Nat /\ rem \in Nat /\ idx + rem = Size
                     /\ sent = [i \in 1 .. idx |-> i]
  /\ sendLoop = "text" =>
       /\ pc # "overrun" /\ (pc = "send" => idx + rem = Size)
       /\ \A i, j \in 1 .. Len(sent) : i < j => sent[i] < sent[j]
       /\ \A i \in 1 .. Len(sent) : sent[i] <= idx /\ sent[i] <= Size

\* A list of the first numbers goes on with the next ones.
LEMMA CountsOn ==
  ASSUME NEW n \in Nat, NEW r \in Nat, NEW old, old = [i \in 1 .. n |-> i],
         NEW p, p = [i \in 1 .. r |-> n + i], NEW new, new = old \o p
  PROVE  new = [i \in 1 .. n + r |-> i]
<1>1. old \in Seq(Int) /\ p \in Seq(Int)
  <2>1. old \in [1 .. n -> Int] /\ p \in [1 .. r -> Int]
    OBVIOUS
  <2> QED BY ONLY <2>1, SeqDef, n \in Nat, r \in Nat
<1>2. Len(old) = n /\ Len(p) = r
  <2>1. DOMAIN old = 1 .. n /\ DOMAIN p = 1 .. r
    OBVIOUS
  <2> QED BY ONLY <1>1, <2>1, n \in Nat, r \in Nat, LenProperties
<1>3. /\ new \in Seq(Int) /\ Len(new) = n + r
      /\ (\A i \in 1 .. n : new[i] = old[i]) /\ \A i \in 1 .. r : new[n + i] = p[i]
  <2>1. old \in Seq(Int) /\ p \in Seq(Int) /\ new = old \o p
    BY <1>1
  <2>2. /\ new \in Seq(Int) /\ Len(new) = Len(old) + Len(p)
        /\ \A i \in 1 .. Len(old) : new[i] = old[i]
        /\ \A i \in 1 .. Len(p) : new[Len(old) + i] = p[i]
    BY ONLY <2>1, Joined
  <2> QED BY <1>2, <2>2
<1>4. ASSUME NEW i \in 1 .. n + r PROVE new[i] = i
  <2>1. CASE i <= n
    BY <1>3, <2>1
  <2>2. CASE i > n
    <3>1. i - n \in 1 .. r /\ n + (i - n) = i
      BY <2>2
    <3>2. new[n + (i - n)] = p[i - n] /\ p[i - n] = n + (i - n)
      BY <1>3, <3>1
    <3> QED BY <3>1, <3>2
  <2> QED BY <2>1, <2>2
<1>5. DOMAIN new = 1 .. n + r /\ new = [i \in DOMAIN new |-> new[i]]
  BY ONLY <1>3, LenProperties, n \in Nat, r \in Nat
<1> QED BY <1>4, <1>5

\* What one Send adds to the bytes that are out, all of which lie in front of idx.
LEMMA SendAdds ==
  ASSUME SendAssumption, SendInv, NEW r \in 1 .. rem,
         sent' = sent \o [i \in 1 .. r |-> idx + i]
  PROVE  /\ sent' \in Seq(Int)
         /\ failures = 0 => sent' = [i \in 1 .. idx + r |-> i]
         /\ sendLoop = "text" /\ pc = "send" =>
              /\ \A i, j \in 1 .. Len(sent') : i < j => sent'[i] < sent'[j]
              /\ \A i \in 1 .. Len(sent') : sent'[i] <= idx + r /\ sent'[i] <= Size
<1>1. PICK p : p = [i \in 1 .. r |-> idx + i]
  OBVIOUS
<1>2. r \in Nat /\ idx \in Int /\ rem \in Int /\ r <= rem /\ sent \in Seq(Int)
  BY DEF SendInv
<1>3. p \in Seq(Int)
  <2>1. p \in [1 .. r -> Int]
    BY <1>1, <1>2
  <2> QED BY ONLY <1>2, <2>1, SeqDef
<1>4. Len(p) = r /\ \A i \in 1 .. r : p[i] = idx + i
  <2>1. DOMAIN p = 1 .. r
    BY <1>1
  <2>2. Len(p) = r
    BY ONLY <1>2, <1>3, <2>1, LenProperties
  <2> QED BY <1>1, <2>2
<1>5. sent' = sent \o p
  BY <1>1
<1>6. /\ sent' \in Seq(Int) /\ Len(sent) \in Nat /\ Len(sent') = Len(sent) + Len(p)
      /\ \A i \in 1 .. Len(sent) : sent'[i] = sent[i]
      /\ \A i \in 1 .. Len(p) : sent'[Len(sent) + i] = p[i]
  <2> PICK new : new = sent'
    OBVIOUS
  <2>1. sent \in Seq(Int) /\ new = sent \o p
    BY <1>2, <1>5
  <2>2. /\ new \in Seq(Int) /\ Len(sent) \in Nat /\ Len(new) = Len(sent) + Len(p)
        /\ \A i \in 1 .. Len(sent) : new[i] = sent[i]
        /\ \A i \in 1 .. Len(p) : new[Len(sent) + i] = p[i]
    BY ONLY <1>3, <2>1, Joined
  <2> QED BY <2>2
<1>7. failures = 0 => sent' = [i \in 1 .. idx + r |-> i]
  <2> SUFFICES ASSUME failures = 0 PROVE sent' = [i \in 1 .. idx + r |-> i]
    OBVIOUS
  <2>1. idx \in Nat /\ sent = [i \in 1 .. idx |-> i]
    BY DEF SendInv
  <2> QED BY ONLY <1>1, <1>2, <1>5, <2>1, CountsOn
<1>8. ASSUME sendLoop = "text", pc = "send"
      PROVE  /\ \A i, j \in 1 .. Len(sent') : i < j => sent'[i] < sent'[j]
             /\ \A i \in 1 .. Len(sent') : sent'[i] <= idx + r /\ sent'[i] <= Size
  <2>1. Size \in Nat /\ idx + r <= Size
    BY <1>2, <1>8 DEF SendInv, SendAssumption
  <2>2. \A i \in 1 .. Len(sent) : sent'[i] = sent[i] /\ sent[i] \in Int /\ sent[i] <= idx
    <3>1. \A i \in 1 .. Len(sent) : sent[i] \in Int
      BY <1>2, ElementOfSeq
    <3> QED BY <1>6, <1>8, <3>1 DEF SendInv
  <2>3. \A k \in 1 .. r : sent'[Len(sent) + k] = idx + k
    BY <1>4, <1>6
  <2>4. \A i \in 1 .. Len(sent') : i \in 1 .. Len(sent) \/ \E k \in 1 .. r : i = Len(sent) + k
    <3> TAKE i \in 1 .. Len(sent')
    <3>1. Len(sent) \in Nat /\ Len(sent') = Len(sent) + r
      BY <1>4, <1>6
    <3>2. CASE i > Len(sent)
      <4>1. i - Len(sent) \in 1 .. r /\ i = Len(sent) + (i - Len(sent))
        BY <1>2, <3>1, <3>2
      <4> QED BY <4>1
    <3> QED BY <3>1, <3>2
  <2>5. ASSUME NEW i \in 1 .. Len(sent') PROVE sent'[i] <= idx + r
    <3>1. CASE i \in 1 .. Len(sent)
      BY <1>2, <2>2, <3>1
    <3>2. CASE \E k \in 1 .. r : i = Len(sent) + k
      BY <1>2, <2>3, <3>2
    <3> QED BY <2>4, <3>1, <3>2
  <2>6. \A i \in 1 .. Len(sent') : sent'[i] \in Int
    BY <1>6, ElementOfSeq
  <2>7. ASSUME NEW i \in 1 .. Len(sent'), NEW j \in 1 .. Len(sent'), i < j PROVE sent'[i] < sent'[j]
    <3>1. CASE j \in 1 .. Len(sent)
      <4>1. i \in 1 .. Len(sent)
        BY <1>6, <2>7, <3>1
      <4> QED BY <1>8, <2>2, <2>7, <3>1, <4>1 DEF SendInv
    <3>2. CASE \E k \in 1 .. r : j = Len(sent) + k
      <4> PICK k \in 1 .. r : j = Len(sent) + k
        BY <3>2
      <4>1. sent'[j] = idx + k /\ k \in Nat \ {0}
        BY <1>2, <2>3
      <4>2. CASE i \in 1 .. Len(sent)
        BY <1>2, <2>2, <4>1, <4>2
      <4>3. CASE \E h \in 1 .. r : i = Len(sent) + h
        <5> PICK h \in 1 .. r : i = Len(sent) + h
          BY <4>3
        <5>1. sent'[i] = idx + h /\ h < k /\ h \in Nat
          <6>1. sent'[i] = idx + h
            BY <2>3
          <6>2. Len(sent) \in Nat /\ h \in Int /\ k \in Int /\ Len(sent) + h < Len(sent) + k
            BY <1>2, <1>6, <2>7
          <6> QED BY <1>2, <6>1, <6>2
        <5> QED BY <1>2, <4>1, <5>1
      <4> QED BY <2>4, <4>2, <4>3
    <3> QED BY <2>4, <3>1, <3>2
  <2>8. ASSUME NEW i \in 1 .. Len(sent') PROVE sent'[i] <= Size
    <3>1. sent'[i] \in Int /\ sent'[i] <= idx + r
      BY <2>5, <2>6
    <3> QED BY <1>2, <2>1, <3>1
  <2> QED BY <2>5, <2>7, <2>8
<1> QED BY <1>6, <1>7, <1>8

\* size_t arithmetic that does not wrap.
LEMMA NoWrap ==
  ASSUME NEW w \in Nat, w > 0
  PROVE  /\ \A x \in Int : x % w \in Int
         /\ \A x \in Nat : x < w => x % w = x
  OBVIOUS

LEMMA TextKeeps ==
  ASSUME SendAssumption, SendInv, NEW r \in Int, Text(r)
  PROVE  SendInv'
<1>1. /\ sendLoop = "text" /\ pc = "send" /\ Send(r) /\ sendLoop' = sendLoop
      /\ IF r <= 0
         THEN pc' = "done" /\ UNCHANGED <<idx, rem>>
         ELSE /\ idx' = idx + r /\ rem' = rem - r
              /\ pc' = IF rem - r > 0 THEN "send" ELSE "done"
  BY DEF Text
<1>2. /\ idx \in Int /\ rem \in Int /\ failures \in Nat /\ Size \in Nat /\ idx + rem = Size
      /\ sent \in Seq(Int)
  BY <1>1 DEF SendInv, SendAssumption
<1>3. CASE (failures' = failures \/ failures' = failures + 1) /\ sent' = sent /\ (r > 0 => failures' # 0)
  <2>1. /\ idx' \in Int /\ rem' \in Int /\ failures' \in Nat /\ sent' \in Seq(Int)
        /\ pc' \in {"send", "done"} /\ idx' + rem' = Size /\ idx <= idx'
    BY <1>1, <1>2, <1>3
  <2>2. failures' = 0 => failures = 0 /\ UNCHANGED <<idx, rem, sent>>
    BY <1>1, <1>2, <1>3
  <2>3. \A i \in 1 .. Len(sent) : sent[i] \in Int
    BY <1>2, ElementOfSeq
  <2>4. \A i \in 1 .. Len(sent) : sent[i] <= idx'
    BY <1>1, <1>2, <2>1, <2>3 DEF SendInv
  <2> QED BY <1>1, <1>3, <2>1, <2>2, <2>4 DEF SendInv
<1>4. CASE r \in 1 .. rem /\ sent' = sent \o [i \in 1..r |-> idx + i] /\ failures' = failures
  <2>1. /\ idx' = idx + r /\ rem' = rem - r /\ pc' \in {"send", "done"} /\ idx' + rem' = Size
        /\ idx' \in Int /\ rem' \in Nat
    <3>1. r > 0 /\ r <= rem /\ ~(r <= 0)
      BY <1>2, <1>4
    <3>2. idx' = idx + r /\ rem' = rem - r /\ pc' \in {"send", "done"}
      BY <1>1, <3>1
    <3> QED BY <1>2, <3>1, <3>2
  <2>2. /\ sent' \in Seq(Int)
        /\ failures = 0 => sent' = [i \in 1 .. idx + r |-> i]
        /\ \A i, j \in 1 .. Len(sent') : i < j => sent'[i] < sent'[j]
        /\ \A i \in 1 .. Len(sent') : sent'[i] <= idx + r /\ sent'[i] <= Size
    BY <1>1, <1>4, SendAdds
  <2>3. failures = 0 => idx' \in Nat
    <3>1. r \in Nat
      BY <1>2, <1>4
    <3> QED BY <2>1, <3>1 DEF SendInv
  <2>4. failures' = 0 => /\ pc' # "overrun" /\ idx' \in Nat /\ rem' \in Nat /\ idx' + rem' = Size
                         /\ sent' = [i \in 1 .. idx' |-> i]
    BY <1>4, <2>1, <2>2, <2>3
  <2>5. /\ pc' \in {"send", "done", "overrun"} /\ failures' \in Nat /\ rem' \in Int
        /\ sendLoop' = "text"
    BY <1>1, <1>2, <1>4, <2>1
  <2>6. \A i \in 1 .. Len(sent') : sent'[i] <= idx' /\ sent'[i] <= Size
    BY <2>1, <2>2
  <2> QED BY <2>1, <2>2, <2>4, <2>5, <2>6 DEF SendInv
<1>5. \/ told /\ r = 0 /\ UNCHANGED <<sent, failures>>
      \/ failures' = failures + 1 /\ sent' = sent
      \/ r \in 1 .. rem /\ sent' = sent \o [i \in 1..r |-> idx + i] /\ failures' = failures
  BY <1>1 DEF Send
<1>6. CASE r = 0 /\ UNCHANGED <<sent, failures>>
  <2>1. failures' = failures /\ sent' = sent /\ ~(r > 0)
    BY <1>6
  <2> QED BY <1>3, <2>1
<1>7. CASE failures' = failures + 1 /\ sent' = sent
  <2>1. failures + 1 # 0
    BY <1>2
  <2> QED BY <1>3, <1>7, <2>1
<1> QED BY <1>4, <1>5, <1>6, <1>7

LEMMA StreamKeeps ==
  ASSUME SendAssumption, SendInv, NEW r \in Int, Stream(r)
  PROVE  SendInv'
<1>1. /\ sendLoop = "stream" /\ pc = "send" /\ Send(r) /\ sendLoop' = sendLoop
      /\ idx' = idx + r /\ rem' = (rem - r) % Width
      /\ pc' = IF rem' = 0 THEN "done"
               ELSE IF idx' < 0 \/ idx' + rem' > Size THEN "overrun" ELSE "send"
  BY DEF Stream
<1>2. /\ idx \in Int /\ rem \in Int /\ failures \in Nat /\ Size \in Nat /\ sent \in Seq(Int)
      /\ Width \in Nat /\ Width > Size
  BY DEF SendInv, SendAssumption
<1>3. idx' \in Int /\ rem' \in Int /\ pc' \in {"done", "overrun", "send"}
  BY <1>1, <1>2, NoWrap
<1>4. CASE failures' = failures + 1 /\ sent' = sent
  <2>1. failures' \in Nat /\ failures' # 0
    BY <1>2, <1>4
  <2> QED BY <1>1, <1>2, <1>3, <1>4, <2>1 DEF SendInv
<1>5. ASSUME failures' = failures, sent' \in Seq(Int), r \in 0 .. rem,
             failures = 0 => sent' = [i \in 1 .. idx + r |-> i]
      PROVE  SendInv'
  <2>1. ASSUME failures = 0 PROVE pc' # "overrun" /\ idx' \in Nat /\ rem' \in Nat /\ idx' + rem' = Size
    <3>1. idx \in Nat /\ rem \in Nat /\ idx + rem = Size
      BY <2>1 DEF SendInv
    <3>2. rem - r \in Nat /\ rem - r < Width
      BY <1>2, <1>5, <3>1
    <3>3. rem' = rem - r
      BY <1>1, <1>2, <3>2, NoWrap
    <3>4. r \in Nat /\ idx' = idx + r
      BY <1>1, <1>5, <3>1
    <3>5. idx' \in Nat /\ rem' \in Nat /\ idx' + rem' = Size
      BY <3>1, <3>2, <3>3, <3>4
    <3>6. ~(idx' < 0 \/ idx' + rem' > Size)
      <4>1. Size \in Nat /\ ~(Size > Size)
        BY <1>2
      <4>2. ~(idx' < 0)
        BY <3>5
      <4> QED BY <3>5, <4>1, <4>2
    <3> QED BY <1>1, <3>5, <3>6
  <2> QED BY <1>1, <1>2, <1>3, <1>5, <2>1 DEF SendInv
<1>6. CASE r = 0 /\ UNCHANGED <<sent, failures>>
  <2>1. failures = 0 => rem \in Nat /\ idx + 0 = idx /\ sent = [i \in 1 .. idx |-> i]
    BY <1>2 DEF SendInv
  <2>2. failures = 0 => sent' = [i \in 1 .. idx + r |-> i] /\ r \in 0 .. rem
    BY <1>6, <2>1
  <2>3. CASE failures = 0
    BY <1>2, <1>5, <1>6, <2>2, <2>3
  <2>4. CASE failures # 0
    BY <1>1, <1>2, <1>3, <1>6, <2>4 DEF SendInv
  <2> QED BY <2>3, <2>4
<1>7. CASE r \in 1 .. rem /\ sent' = sent \o [i \in 1..r |-> idx + i] /\ failures' = failures
  <2>1. sent' \in Seq(Int) /\ (failures = 0 => sent' = [i \in 1 .. idx + r |-> i])
    BY <1>7, SendAdds
  <2>2. r \in 0 .. rem
    BY <1>2, <1>7
  <2> QED BY <1>5, <1>7, <2>1, <2>2
<1> QED BY <1>1, <1>4, <1>6, <1>7 DEF Send

\* What a client is sent arrives in order, whatever Send returns, as far as SentInOrder says,
\* for every size of the buffer and every number of failures.
THEOREM RepliesInOrder == SendAssumption => (SendSpec => []SentInOrder)
<1> SUFFICES ASSUME SendAssumption PROVE SendSpec => []SentInOrder
  OBVIOUS
<1>1. SendInit => SendInv
  <2> SUFFICES ASSUME SendInit PROVE SendInv
    OBVIOUS
  <2>1. Size \in Nat /\ <<>> \in Seq(Int) /\ Len(<<>>) = 0
    BY EmptySeq DEF SendAssumption
  <2>2. /\ sendLoop \in {"text", "stream"} /\ pc = "send" /\ idx = 0 /\ rem = Size
        /\ sent = <<>> /\ failures = 0
    BY DEF SendInit
  <2>3. sent = [i \in 1 .. idx |-> i]
    <3> DEFINE upTo(n) == [i \in 1 .. n |-> i]
    <3>1. upTo(0) \in [1 .. 0 -> Int]
      OBVIOUS
    <3>2. upTo(0) \in Seq(Int) /\ DOMAIN upTo(0) = 1 .. 0
      BY <3>1, SeqDef
    <3> HIDE DEF upTo
    <3>3. upTo(0) = <<>>
      BY ONLY <3>2, LenProperties, EmptySeq
    <3>4. sent = upTo(idx)
      BY <2>2, <3>3
    <3> QED BY <3>4 DEF upTo
  <2> QED BY <2>1, <2>2, <2>3 DEF SendInv
<1>2. SendInv /\ [SendNext]_sendVars => SendInv'
  <2> SUFFICES ASSUME SendInv, [SendNext]_sendVars PROVE SendInv'
    OBVIOUS
  <2>1. CASE Sending
    <3>1. PICK r \in {-1, 0, NOT_WRITEABLE} \cup 1 .. Size : Text(r) \/ Stream(r)
      BY <2>1 DEF Sending
    <3>2. r \in Int
      BY DEF NOT_WRITEABLE, SendAssumption
    <3> QED BY <3>1, <3>2, TextKeeps, StreamKeeps
  <2>2. CASE TellExit \/ UNCHANGED sendVars
    <3>1. UNCHANGED <<sendLoop, pc, idx, rem, sent, failures>>
      BY <2>2 DEF TellExit, sendVars
    <3> QED BY <3>1 DEF SendInv
  <2> QED BY <2>1, <2>2 DEF SendNext
<1>3. SendInv => SentInOrder
  <2> SUFFICES ASSUME SendInv PROVE SentInOrder
    OBVIOUS
  <2> QED BY DEF SendInv, SentInOrder
<1> QED BY <1>1, <1>2, <1>3, PTL DEF SendSpec
=============================================================================
