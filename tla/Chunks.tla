------------------------------- MODULE Chunks -------------------------------
(***************************************************************************)
(* The chunk streams of package/app/rtmpServer (main.cc): a peer cuts its  *)
(* messages into chunks and mixes those of several channels; the bytes     *)
(* arrive in any portions, and recv_from_client puts the messages together *)
(* again.                                                                  *)
(*                                                                         *)
(* A header field of two, three or four bytes is one cell, so headers have *)
(* 5, 4, 2 and 1 cells (HEADER_LENGTH: 12, 8, 4, 1).  Byte i of message n  *)
(* is <<n, i>>.  A peer does not break off a message for another one of    *)
(* the same channel, and the first header of a channel is a full one (type *)
(* and endpoint have no value before it).                                  *)
(***************************************************************************)
EXTENDS Integers, Sequences

CONSTANTS
  Channels,     \* chunk streams, 64 in the code
  Kinds,        \* messages that begin with a full header
  CHUNK_LEN,    \* DEFAULT_CHUNK_LEN, 128
  SIZE_LEN,     \* bytes of a chunk size, 4
  EXT,          \* 0xffffff, the time stamp that says that a longer one follows
  MaxMessages,  \* bound: messages sent
  MaxWire       \* bound: cells on their way

\* size is what a message of type "set chunk" announces.
ChunksAssumption ==
  /\ Kinds \subseteq [type : {"media", "set chunk"}, len : Nat, size : Nat \ {0},
                      endpoint : Nat, timestamp : Nat]
  /\ CHUNK_LEN \in Nat \ {0}
  /\ EXT \in Nat \ {0, 1}     \* more than the difference of two times
  /\ {SIZE_LEN, MaxMessages, MaxWire} \subseteq Nat

VARIABLES
  said,      \* the peer's messages: kind, header, difference of the times, drifted
  under,     \* channel -> its last message and how much of it was sent
  speak,     \* the size at which the peer cuts
  wire,      \* what was sent and not received
  client     \* struct Client, and whether its connection is open

\* History variables.
VARIABLES
  spoken,    \* the messages sent, in the order of their ends
  handled    \* the messages given to handle_message

vars == <<said, under, speak, wire, client, spoken, handled>>

HEADER_LENGTH == [fmt \in 0 .. 3 |-> <<5, 4, 2, 1>>[fmt + 1]]

RTMP_Message == [type |-> "media", len |-> 0, timestamp |-> 0, endpoint |-> 0, buf |-> <<>>]

Init ==
  /\ said = <<>> /\ under = [ch \in Channels |-> [msg |-> 0, pos |-> 0]]
  /\ speak = CHUNK_LEN /\ wire = <<>>
  /\ client = [buf |-> <<>>, messages |-> [ch \in Channels |-> RTMP_Message],
               chunk_len |-> CHUNK_LEN, open |-> TRUE]
  /\ spoken = <<>> /\ handled = <<>>

Least(a, b) == IF a < b THEN a ELSE b
-----------------------------------------------------------------------------
\* The peer.  A time stamp that does not fit follows the header in a cell of its own.
Header(fmt, ch, m) ==
  SubSeq(<<<<"flags", fmt, ch>>,
           <<"timestamp", IF fmt = 0 THEN Least(m.kind.timestamp, EXT) ELSE m.delta>>,
           <<"msg_len", m.kind.len>>, <<"msg_type", m.kind.type>>,
           <<"endpoint", m.kind.endpoint>>>>, 1, HEADER_LENGTH[fmt])
  \o (IF fmt = 0 /\ m.kind.timestamp >= EXT THEN <<<<"extended", m.kind.timestamp>>>> ELSE <<>>)

Bytes(n, from, to) == [j \in 1 .. to - from |-> <<n, from + j>>]

\* The next chunk of message n of the messages ms, behind its first pos bytes.
SendChunk(ms, n, pos, fmt, ch) ==
  LET m    == ms[n]
      end  == Least(m.kind.len, pos + speak)
      send == Header(fmt, ch, m) \o Bytes(n, pos, end)
      last == end = m.kind.len
  IN /\ client.open /\ Len(wire) + Len(send) <= MaxWire
     /\ wire' = wire \o send
     /\ under' = [under EXCEPT ![ch] = [msg |-> n, pos |-> end]]
     /\ spoken' = IF last THEN Append(spoken, n) ELSE spoken
     /\ speak' = IF last /\ m.kind.type = "set chunk" THEN m.kind.size ELSE speak
     /\ said' = ms
     /\ UNCHANGED <<client, handled>>

Under(ch) == under[ch].msg # 0 /\ under[ch].pos < said[under[ch].msg].kind.len

\* A message begins, with a full header or with what differs from the one before it on
\* its channel.  drifted: one byte repeats the difference of the times, and the server
\* does not add it again.
Begin(ch) ==
  /\ Len(said) < MaxMessages /\ ~Under(ch)
  /\ LET old == said[under[ch].msg]
         Say(fmt, kind, delta, drifted) ==
           SendChunk(Append(said, [kind |-> kind, fmt |-> fmt, delta |-> delta, drifted |-> drifted]),
                     Len(said) + 1, 0, fmt, ch)
         After(kind, delta) ==
           [kind EXCEPT !.endpoint = old.kind.endpoint, !.timestamp = old.kind.timestamp + delta]
     IN \/ \E k \in Kinds : Say(0, k, 0, FALSE)
        \/ /\ under[ch].msg # 0
           /\ \/ \E k \in Kinds : Say(1, After(k, 1), 1, old.drifted)
              \/ Say(2, After(old.kind, 1), 1, old.drifted)
              \/ Say(3, After(old.kind, old.delta), old.delta, old.drifted \/ old.delta # 0)

Continue(ch) == Under(ch) /\ SendChunk(said, under[ch].msg, under[ch].pos, 3, ch)
-----------------------------------------------------------------------------
\* The server: the header at the head of c.buf.
Fmt(c)   == c.buf[1][2]
Chan(c)  == c.buf[1][3]
Msg(c)   == c.messages[Chan(c)]
HeaderLen(c)  == HEADER_LENGTH[Fmt(c)]

Refuse(c) == [c EXCEPT !.open = FALSE]

\* What is taken over from the header before the chunk is there.
TakeHeader(c) ==
  LET m == [Msg(c) EXCEPT !.len      = IF Fmt(c) <= 1 THEN c.buf[3][2] ELSE @,
                          !.type     = IF Fmt(c) <= 1 THEN c.buf[4][2] ELSE @,
                          !.endpoint = IF Fmt(c) = 0 THEN c.buf[5][2] ELSE @]
  IN [c EXCEPT !.messages[Chan(c)] = m]

\* Mutant: the chunk size is compared with the whole message.
ChunkOfWhole(c) == Least(Msg(c).len, c.chunk_len)

\* chunk: what is missing of the message, but no more than a chunk.
Chunk(c) == Least(Msg(c).len - Len(Msg(c).buf), c.chunk_len)

Time(c) == IF Fmt(c) = 3 THEN Msg(c).timestamp
           ELSE IF Fmt(c) = 0 THEN c.buf[2][2] ELSE c.buf[2][2] + Msg(c).timestamp

\* The message with the chunk, and the client without it.
Grown(c) ==
  [Msg(c) EXCEPT !.timestamp = Time(c),
                 !.buf = @ \o SubSeq(c.buf, HeaderLen(c) + 1, HeaderLen(c) + Chunk(c))]

Put(c, m) == [c EXCEPT !.messages[Chan(c)] = m,
                       !.buf = SubSeq(@, HeaderLen(c) + Chunk(c) + 1, Len(@))]

\* load_be32: what the bytes of message n say.
Announced(m) == said[m.buf[1][1]].kind.size

\* One round of while (!client->buf.empty()); p.c is the client, p.handled what was
\* handled.  Where the loop ends, nothing changes any more.
Round(p) ==
  IF ~p.c.open \/ p.c.buf = <<>> \/ Len(p.c.buf) < HeaderLen(p.c) THEN p
  ELSE LET c == TakeHeader(p.c) IN
    IF Msg(c).len < Len(Msg(c).buf) \/ Msg(c).len = 0 THEN [p EXCEPT !.c = Refuse(c)]
    ELSE IF Len(c.buf) < HeaderLen(c) + Chunk(c) THEN [p EXCEPT !.c = c]
    ELSE IF Fmt(c) <= 2 /\ c.buf[2][2] = EXT THEN [p EXCEPT !.c = Refuse(c)]
    ELSE LET m == Grown(c) IN
      IF Len(m.buf) < m.len THEN [p EXCEPT !.c = Put(c, m)]
      ELSE IF m.type = "set chunk" /\ m.len < SIZE_LEN
        THEN [p EXCEPT !.c = Refuse(Put(c, m))]
      ELSE [handled |-> Append(p.handled, m),
            c |-> [Put(c, [m EXCEPT !.buf = <<>>]) EXCEPT
                     !.chunk_len = IF m.type = "set chunk" THEN Announced(m) ELSE @]]

\* The loop: a round that does not end it takes at least a cell from the buffer.
Parse(p) ==
  LET rounds[n \in 0 .. Len(p.c.buf)] == IF n = 0 THEN p ELSE Round(rounds[n - 1])
  IN rounds[Len(p.c.buf)]

recv_from_client ==
  /\ client.open
  /\ \E n \in 1 .. Len(wire) :
       LET p == Parse([c       |-> [client EXCEPT !.buf = @ \o SubSeq(wire, 1, n)],
                       handled |-> handled])
       IN /\ client' = p.c /\ handled' = p.handled
          /\ wire' = SubSeq(wire, n + 1, Len(wire))
  /\ UNCHANGED <<said, under, speak, spoken>>

Next == (\E ch \in Channels : Begin(ch) \/ Continue(ch)) \/ recv_from_client
-----------------------------------------------------------------------------
\* With a byte behind every chunk but the last, of n bytes in all.
Spaced(ch, buf, size, n) ==
  [j \in 1 .. n |-> IF j % (size + 1) = 0 THEN <<"flags", 3, ch>> ELSE buf[j - (j \div (size + 1))]]

\* Mutant: a byte also behind a last chunk that is full.
CutEagerly(ch, buf, size) == Spaced(ch, buf, size, Len(buf) + (Len(buf) \div size))

\* rtmp_send: a full header, then chunks with a byte between them.
Cut(ch, buf, size) == Spaced(ch, buf, size, Len(buf) + ((Len(buf) - 1) \div size))

rtmp_send(ch, m, size) ==
  <<<<"flags", 0, ch>>, <<"timestamp", m.timestamp % (EXT + 1)>>, <<"msg_len", Len(m.buf)>>,
    <<"msg_type", m.type>>, <<"endpoint", m.endpoint>>>> \o Cut(ch, m.buf, size)
-----------------------------------------------------------------------------
IsRefused(m) ==
  \/ m.kind.len = 0
  \/ m.fmt = 0 /\ m.kind.timestamp >= EXT
  \/ m.kind.type = "set chunk" /\ m.kind.len < SIZE_LEN

SameMessage(m, n) ==
  LET k == said[n].kind IN
  /\ m.type = k.type /\ m.endpoint = k.endpoint /\ m.buf = Bytes(n, 0, k.len)
  /\ ~said[n].drifted => m.timestamp = k.timestamp

\* In whatever portions the bytes come and however the channels are mixed, the messages
\* are handled in the order of their ends, each with its own bytes, type, endpoint and
\* time; when all has come, nothing is left over, and only a peer that sent a message
\* the server has no use for is closed.
ChunksAssembled ==
  /\ Len(handled) <= Len(spoken)
  /\ \A k \in 1 .. Len(handled) : SameMessage(handled[k], spoken[k])
  /\ wire = <<>> /\ client.open => Len(handled) = Len(spoken)
  /\ ~client.open => \E n \in 1 .. Len(said) : IsRefused(said[n])

\* What the server sends it would read itself, when it cuts as the reader expects: the
\* message comes back, with the low bits of its time, unless these ask for a longer one.
SentIsReadable ==
  \A k \in 1 .. Len(handled) : \A ch \in Channels :
    LET m     == handled[k]
        fresh == [c |-> [client EXCEPT !.messages = [x \in Channels |-> RTMP_Message], !.open = TRUE,
                                       !.buf = rtmp_send(ch, m, client.chunk_len)],
                  handled |-> <<>>]
        got   == Parse(fresh)
    IN m.type = "media" =>
         IF m.timestamp % (EXT + 1) = EXT THEN ~got.c.open
         ELSE /\ got.c.open /\ got.c.buf = <<>>
              /\ got.handled = <<[m EXCEPT !.timestamp = @ % (EXT + 1)]>>
=============================================================================
