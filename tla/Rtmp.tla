-------------------------------- MODULE Rtmp --------------------------------
(***************************************************************************)
(* package/app/rtmpServer, main.cc: one thread polls the listening socket  *)
(* and the clients, and forwards what the publisher sends to the others.   *)
(* Messages are handled inside the loop over the poll table, and a handler *)
(* that throws costs the client whose message it handles its connection,   *)
(* also when what failed was the send to another client.                   *)
(*                                                                         *)
(* clients[1] is NULL, the listening socket.  revents[j] holds the events  *)
(* of clients[j] that this round has not looked at yet.  Frames are        *)
(* numbered from 1 for each publisher.                                     *)
(***************************************************************************)
EXTENDS Integers, Sequences, FiniteSets, SequencesExt

CONSTANTS
  Conns,      \* connections, each used once
  Slow,       \* those whose send() may leave a rest in send_queue
  NULL,
  MaxFrames   \* bound: video frames of one publisher

ASSUME RtmpAssumption == NULL \notin Conns /\ Slow \subseteq Conns /\ MaxFrames \in Nat

VARIABLES
  clients, revents,  \* clients and poll_table, two parallel vectors
  pc,                \* "poll", "scan", "handshake" or "killed"
  i,                 \* the index of do_poll's second loop
  publisher,
  metadata,          \* the present publisher has set the metadata
  playing, ready,    \* Client::playing and Client::ready
  pending,           \* send_queue is not empty
  peer,              \* "none", "up", "gone" or "closed"
  frames, keys,      \* frames of the publisher; the key frames among them
  since, got,        \* while a client plays: frames when it began, and the
                     \* frames queued for it since then
  told,              \* the clients that were told this metadata
  due                \* clients with an event that this round has not served

loop   == <<pc, i, clients, revents, due>>
stream == <<publisher, metadata, playing, ready, frames, keys, since, got, told>>
vars   == <<loop, stream, pending, peer>>

Init ==
  /\ clients = <<NULL>> /\ revents = <<{}>>
  /\ pc = "poll" /\ i = 1 /\ due = {}
  /\ publisher = NULL /\ metadata = FALSE
  /\ playing = [c \in Conns |-> FALSE] /\ ready = playing /\ pending = playing
  /\ peer = [c \in Conns |-> "none"]
  /\ frames = 0 /\ keys = {}
  /\ since = [c \in Conns |-> 0]
  /\ got = [c \in Conns |-> <<>>]
  /\ told = {}

\* A peer leaves; what it sent before may still be unread.
Leave(c) ==
  /\ peer[c] = "up"
  /\ peer' = [peer EXCEPT ![c] = "gone"]
  /\ UNCHANGED <<loop, stream, pending>>
-----------------------------------------------------------------------------
Listed == ToSet(clients) \ {NULL}
client == clients[i]

\* The loop goes on with the first entry from j on that has an event left, or
\* do_poll returns.
GoOn(j) ==
  LET next == {k \in j..Len(clients') : revents'[k] # {}} IN
  \/ next = {} /\ pc' = "poll" /\ i' = 1
  \/ pc' = "scan" /\ \E k \in next : i' = k /\ \A m \in next : k <= m

Advance == GoOn(i + 1) /\ due' = due \ {client}

\* What poll() may report: a client that left is readable, another one and
\* the listening socket may be, as long as there are peers to connect; POLLOUT
\* is asked for only while something is queued.
Poll ==
  LET Idx  == 2..Len(clients)
      must == {j \in Idx : peer[clients[j]] = "gone"}
      may  == {j \in Idx : peer[clients[j]] = "up"} \cup {j \in {1} : \E c \in Conns : peer[c] = "none"}
      full == {j \in Idx : pending[clients[j]]}
  IN /\ pc = "poll"
     /\ \E more \in SUBSET may, writable \in SUBSET full :
          LET readable == must \cup more IN
          /\ readable \cup writable # {}
          /\ revents' = [j \in 1..Len(clients) |->
                           (IF j \in readable THEN {"in"} ELSE {}) \cup (IF j \in writable THEN {"out"} ELSE {})]
          /\ due' = {clients[j] : j \in (readable \cup writable) \ {1}}
     /\ clients' = clients
     /\ GoOn(1)
     /\ UNCHANGED <<stream, pending, peer>>
-----------------------------------------------------------------------------
\* Mutant: only the publisher's own entry is reset.
StreamEndsQuietly ==
  /\ publisher' = NULL
  /\ ready' = [ready EXCEPT ![client] = FALSE]
  /\ frames' = 0 /\ keys' = {}
  /\ since' = [c \in Conns |-> 0]
  /\ got' = [c \in Conns |-> <<>>]
  /\ metadata' = FALSE /\ told' = {}

\* Mutant: publisher keeps pointing at the deleted client.
StreamEndsDangling ==
  /\ publisher' = publisher
  /\ ready' = [c \in Conns |-> FALSE]
  /\ frames' = 0 /\ keys' = {}
  /\ since' = [c \in Conns |-> 0]
  /\ got' = [c \in Conns |-> <<>>]
  /\ metadata' = FALSE /\ told' = {}

\* The publisher's departure ends the stream for everybody.
StreamEnds ==
  /\ publisher' = NULL
  /\ ready' = [c \in Conns |-> FALSE]
  /\ frames' = 0 /\ keys' = {}
  /\ since' = [c \in Conns |-> 0]
  /\ got' = [c \in Conns |-> <<>>]
  /\ metadata' = FALSE /\ told' = {}

\* Mutant: the loop goes on behind the erased entry.
CloseAndSkip(queued) ==
  /\ clients' = RemoveAt(clients, i) /\ revents' = RemoveAt(revents, i)
  /\ GoOn(i + 1) /\ due' = due \ {client}
  /\ pending' = [queued EXCEPT ![client] = FALSE]
  /\ peer' = [peer EXCEPT ![client] = "closed"]
  /\ playing' = [playing EXCEPT ![client] = FALSE]
  /\ IF client = publisher THEN StreamEnds
     ELSE /\ ready' = [ready EXCEPT ![client] = FALSE]
          /\ got' = [got EXCEPT ![client] = <<>>]
          /\ since' = [since EXCEPT ![client] = 0]
          /\ told' = told \ {client}
          /\ UNCHANGED <<publisher, metadata, frames, keys>>

\* catch in do_poll: close_client(client, i), and --i.
CloseClient(queued) ==
  /\ clients' = RemoveAt(clients, i) /\ revents' = RemoveAt(revents, i)
  /\ GoOn(i) /\ due' = due \ {client}
  /\ pending' = [queued EXCEPT ![client] = FALSE]
  /\ peer' = [peer EXCEPT ![client] = "closed"]
  /\ playing' = [playing EXCEPT ![client] = FALSE]
  /\ IF client = publisher THEN StreamEnds
     ELSE /\ ready' = [ready EXCEPT ![client] = FALSE]
          /\ got' = [got EXCEPT ![client] = <<>>]
          /\ since' = [since EXCEPT ![client] = 0]
          /\ told' = told \ {client}
          /\ UNCHANGED <<publisher, metadata, frames, keys>>

Throw == CloseClient(pending)

\* rtmp_send to each member of rs: it is queued, and send() takes all of the
\* queue or leaves a rest.
Queues(rs) ==
  {[c \in Conns |-> IF c \in ToSet(rs) THEN c \in rest ELSE pending[c]] :
     rest \in SUBSET (ToSet(rs) \cap Slow)}

Sent(rs) == pending' \in Queues(rs)

\* The process is gone, and its memory and descriptors with it.
Killed ==
  /\ pc' = "killed"
  /\ clients' = <<NULL>> /\ revents' = <<{}>> /\ i' = 1 /\ due' = {}
  /\ StreamEnds
  /\ playing' = [c \in Conns |-> FALSE] /\ pending' = playing'
  /\ peer' = [c \in Conns |-> "closed"]

\* send() fails for a member of rs that has left: the exception reaches
\* do_poll, or the signal SIGPIPE, which nobody handles, ends the program.
SendFails(rs) ==
  \E k \in {j \in 1..Len(rs) : peer[rs[j]] = "gone"} :
    \/ \E q \in Queues(SubSeq(rs, 1, k - 1)) : CloseClient([q EXCEPT ![rs[k]] = TRUE])
    \/ Killed

\* poll_table[i].revents & POLLOUT.
TrySend ==
  /\ pc = "scan" /\ "out" \in revents[i]
  /\ \/ /\ Sent(<<client>>)
        /\ revents' = [revents EXCEPT ![i] = @ \ {"out"}] /\ clients' = clients
        /\ IF "in" \in revents[i] THEN UNCHANGED <<pc, i, due>> ELSE Advance
        /\ UNCHANGED <<stream, peer>>
     \/ SendFails(<<client>>)

\* new_client: accept, and a handshake during which nobody else is served.
Accept ==
  /\ pc = "scan" /\ client = NULL /\ "in" \in revents[i]
  /\ pc' = "handshake"
  /\ revents' = [revents EXCEPT ![i] = {}]
  /\ UNCHANGED <<i, clients, due, stream, pending, peer>>

Handshake(c) ==
  /\ pc = "handshake" /\ peer[c] = "none"
  /\ \/ /\ clients' = Append(clients, c) /\ revents' = Append(revents, {})
        /\ peer' = [peer EXCEPT ![c] = "up"]
     \/ /\ UNCHANGED <<clients, revents>>
        /\ peer' = [peer EXCEPT ![c] = "closed"]
  /\ Advance
  /\ UNCHANGED <<stream, pending>>

Readable == pc = "scan" /\ client # NULL /\ revents[i] = {"in"}

\* The message is done, and with it the entry.
Done ==
  /\ clients' = clients /\ revents' = [revents EXCEPT ![i] = {}]
  /\ Advance
  /\ peer' = peer

Receivers(p) == SelectSeq(Tail(clients), LAMBDA c : p[c])

\* connect, createStream, publish.
Reply == Sent(<<client>>) /\ Done /\ UNCHANGED stream

\* A message that nobody answers, or recv() completes none.
Ignored == Done /\ UNCHANGED <<stream, pending>>

FCPublish ==
  /\ publisher = NULL
  /\ Sent(<<client>>) /\ Done
  /\ publisher' = client
  /\ UNCHANGED <<metadata, playing, ready, frames, keys, since, got, told>>

\* play, play2 and the end of a pause.
StartPlayback ==
  /\ Sent(<<client>>) /\ Done
  /\ playing' = [playing EXCEPT ![client] = TRUE]
  /\ ready' = [ready EXCEPT ![client] = FALSE]
  /\ since' = [since EXCEPT ![client] = frames]
  /\ got' = [got EXCEPT ![client] = <<>>]
  /\ told' = IF metadata THEN told \cup {client} ELSE told
  /\ UNCHANGED <<publisher, metadata, frames, keys>>

\* ready keeps its value.
Pause ==
  /\ Sent(<<client>>) /\ Done
  /\ playing' = [playing EXCEPT ![client] = FALSE]
  /\ since' = [since EXCEPT ![client] = 0]
  /\ got' = [got EXCEPT ![client] = <<>>]
  /\ told' = told \ {client}
  /\ UNCHANGED <<publisher, metadata, ready, frames, keys>>

SetDataFrame ==
  /\ client = publisher
  /\ \/ /\ Sent(Receivers(playing)) /\ Done
        /\ metadata' = TRUE /\ told' = {c \in Conns : playing[c]}
        /\ UNCHANGED <<publisher, playing, ready, frames, keys, since, got>>
     \/ SendFails(Receivers(playing))

Audio ==
  /\ client = publisher
  /\ \/ Sent(Receivers(ready)) /\ Done /\ UNCHANGED stream
     \/ SendFails(Receivers(ready))

\* A key frame makes every playing client ready.
Video(key) ==
  LET to == [c \in Conns |-> playing[c] /\ (key \/ ready[c])] IN
  /\ client = publisher /\ frames < MaxFrames
  /\ \/ /\ Sent(Receivers(to)) /\ Done
        /\ frames' = frames + 1
        /\ keys' = IF key THEN keys \cup {frames + 1} ELSE keys
        /\ ready' = [c \in Conns |-> ready[c] \/ to[c]]
        /\ got' = [c \in Conns |-> IF to[c] THEN Append(got[c], frames + 1) ELSE got[c]]
        /\ UNCHANGED <<publisher, metadata, playing, since, told>>
     \/ SendFails(Receivers(to))

\* The end of the stream, a message that is not valid, a second FCPublish,
\* data from a client that is not the publisher: it costs the connection.
Refused == Throw

\* poll_table[i].revents & POLLIN: recv_from_client and handle_message, where
\* the answer to a message may fail, too.  Several messages in one recv() are
\* several rounds here.
Recv ==
  /\ Readable
  /\ \/ Reply \/ Ignored \/ FCPublish \/ StartPlayback \/ Pause \/ SetDataFrame
     \/ Audio \/ \E key \in BOOLEAN : Video(key)
     \/ Refused \/ SendFails(<<client>>)

Server == Poll \/ TrySend \/ Accept \/ Recv

Next ==
  \/ \E c \in Conns : Leave(c) \/ Handshake(c)
  \/ Server

Spec == Init /\ [][Next]_vars
-----------------------------------------------------------------------------
\* The two vectors are parallel and start with the listening socket.
TypeOK ==
  /\ clients \in Seq(Conns \cup {NULL}) /\ clients[1] = NULL /\ IsInjective(clients)
  /\ revents \in Seq(SUBSET {"in", "out"}) /\ Len(revents) = Len(clients)
  /\ i \in 1..Len(clients) /\ due \subseteq Conns
  /\ pc \in {"poll", "scan", "handshake", "killed"}
  /\ publisher \in Conns \cup {NULL} /\ frames \in 0..MaxFrames /\ keys \subseteq 1..frames

\* No pointer dangles and no descriptor leaks: the publisher is one of the
\* clients, and the clients are the connections that are open.
ClientsAreOpen ==
  /\ publisher # NULL => publisher \in Listed
  /\ Listed = {c \in Conns : peer[c] \in {"up", "gone"}}

\* Although entries leave the vectors while the loop runs over them, a round
\* serves every client that poll() reported.
RoundServesAll == due \subseteq {clients[j] : j \in {k \in i..Len(clients) : pc # "poll"}}

\* A client gets exactly the frames from the first key frame on that follows
\* its play, of the present publisher and without a gap, whichever clients
\* and publishers come, pause and leave; nor does it get sound before one.
StreamFromKey ==
  \A c \in Listed :
    /\ ready[c] => keys # {}
    /\ playing[c] =>
         LET first == {k \in keys : since[c] < k}
         IN got[c] = IF first = {} THEN <<>> ELSE [n \in 1..frames - Min(first) + 1 |-> Min(first) + n - 1]

\* Whoever plays knows the metadata that the present publisher has set.
MetadataKnown == metadata => \A c \in Listed : playing[c] => c \in told

\* What a client needs to show the stream: its metadata, and it from a key frame on.
StreamComplete == StreamFromKey /\ MetadataKnown

\* main.cc:39: ready means "Wants to receive and seen a keyframe".
ReadyMeansPlaying == \A c \in Listed : ready[c] => playing[c]

=============================================================================
