----------------------------- MODULE UartFrames -----------------------------
(***************************************************************************)
(* package/app/uartd, HardReadProcess: cuts the bytes that read() returns  *)
(* into commands.  A command starts at a '^' and ends before the next      *)
(* newline; bytes between commands are skipped.  One pass of the loop      *)
(* reads once and extracts at most ONE command; what follows it stays in   *)
(* req until more bytes arrive.                                            *)
(*                                                                         *)
(* `req += buf` appends buf as a C string: it stops at a NUL byte, and     *)
(* when read() filled all of buf no terminator is left, so the bytes       *)
(* behind buf (Junk) are appended too.                                     *)
(***************************************************************************)
EXTENDS Integers, Sequences, FiniteSets, SequencesExt

CONSTANTS
  Chars,    \* the bytes that the line may carry
  BufSize,  \* sizeof(buf)
  Chunks,   \* what one read() may return: 1 to BufSize bytes
  Junk,     \* the strings that may follow buf on the stack
  MaxBytes  \* bound: bytes received

HAT == "^"
NL  == "\n"
NUL == "\\0"

VARIABLES
  req,                   \* the characters not yet consumed
  need_to_get_new_cmd,   \* no command has been started
  cmds,                  \* what went to rFifo->writeOne, in order
  wire,                  \* every byte that read() has returned
  clean                  \* no read() filled buf or met a NUL byte

vars == <<req, need_to_get_new_cmd, cmds, wire, clean>>

Init ==
  /\ req = <<>>
  /\ need_to_get_new_cmd = TRUE
  /\ cmds = <<>>
  /\ wire = <<>>
  /\ clean = TRUE

\* string::find_first_of, with 0 for npos.
Find(s, c) == SelectInSeq(s, LAMBDA x : x = c)

\* The C strings that buf may be read as after read() has stored `bytes`.
Strings(bytes) ==
  IF Find(bytes, NUL) # 0 THEN {SubSeq(bytes, 1, Find(bytes, NUL) - 1)}
  ELSE IF Len(bytes) = BufSize THEN {bytes \o j : j \in Junk}
  ELSE {bytes}

\* if(need_to_get_new_cmd): everything before the first '^' is dropped.
FromHat(s) ==
  IF ~need_to_get_new_cmd THEN s
  ELSE IF Find(s, HAT) = 0 THEN <<>>
  ELSE SubSeq(s, Find(s, HAT), Len(s))

\* No command is started and there is none to start.
Skip(s) ==
  /\ FromHat(s) = <<>>
  /\ req' = <<>>
  /\ need_to_get_new_cmd' = TRUE
  /\ cmds' = cmds

\* The command is not complete yet.
Collect(s) ==
  /\ FromHat(s) # <<>>
  /\ Find(FromHat(s), NL) = 0
  /\ req' = FromHat(s)
  /\ need_to_get_new_cmd' = FALSE
  /\ cmds' = cmds

\* Mutant: the rest of the line buffer is dropped with the command.
CutAndForget(s) ==
  LET tIdx == Find(FromHat(s), NL) IN
  /\ tIdx # 0
  /\ cmds' = Append(cmds, SubSeq(FromHat(s), 1, tIdx - 1))
  /\ req' = <<>>
  /\ need_to_get_new_cmd' = TRUE

\* The first complete command is handed on, the rest is kept for later.
Cut(s) ==
  LET tIdx == Find(FromHat(s), NL) IN
  /\ tIdx # 0
  /\ cmds' = Append(cmds, SubSeq(FromHat(s), 1, tIdx - 1))
  /\ req' = SubSeq(FromHat(s), tIdx + 1, Len(FromHat(s)))
  /\ need_to_get_new_cmd' = TRUE

\* One pass of the loop with a successful read().
Read(bytes) ==
  /\ Len(wire) + Len(bytes) <= MaxBytes
  /\ wire' = wire \o bytes
  /\ clean' = (clean /\ Strings(bytes) = {bytes} /\ Len(bytes) < BufSize)
  /\ \E s \in Strings(bytes) : Skip(req \o s) \/ Collect(req \o s) \/ Cut(req \o s)

-----------------------------------------------------------------------------
\* The places of the commands in a text, said without a parser: in every line that
\* ends in a newline, what stands from the first '^' to the newline.
Plain(text, i, j) == \A k \in i..j : text[k] # NL
Spans(text) ==
  {p \in (1..Len(text)) \X (1..Len(text)) :
     /\ p[1] < p[2] /\ text[p[1]] = HAT /\ text[p[2]] = NL
     /\ Plain(text, p[1], p[2] - 1)
     /\ \A k \in 1..p[1] - 1 : text[k] = HAT => ~Plain(text, k, p[1])}

\* The n-th of them, and the commands in their order.
Nth(S, n) == CHOOSE p \in S : Cardinality({s \in S : s[1] <= p[1]}) = n
CommandsIn(text) ==
  LET S == Spans(text)
  IN  [n \in 1..Cardinality(S) |-> SubSeq(text, Nth(S, n)[1], Nth(S, n)[2] - 1)]

\* The parser's state is well typed, and a started command begins at its '^'
\* and has no newline yet.
TypeOK ==
  /\ req \in Seq(Chars) /\ cmds \in Seq(Seq(Chars)) /\ wire \in Seq(Chars)
  /\ clean \in BOOLEAN
  /\ need_to_get_new_cmd \in BOOLEAN
  /\ ~need_to_get_new_cmd => req # <<>> /\ req[1] = HAT /\ Find(req, NL) = 0

\* However read() splits the line: the commands handed on, followed by those
\* that still wait in req, are exactly the commands that were received.
NoCommandLost == clean => CommandsIn(wire) = cmds \o CommandsIn(req)

\* CmdparseProcess drops the first character of a command without looking:
\* whatever the line carries, that character exists and is the '^', and the
\* command holds no newline.
StartsWithHat == \A i \in 1..Len(cmds) : cmds[i] # <<>> /\ cmds[i][1] = HAT /\ Find(cmds[i], NL) = 0

\* A command that waits behind another one needs only further bytes, and no
\* particular ones: every read takes one complete command out of req.
EveryReadDelivers ==
  [][clean' /\ CommandsIn(req \o SubSeq(wire', Len(wire) + 1, Len(wire'))) # <<>>
       => Len(cmds') = Len(cmds) + 1]_vars
=============================================================================
