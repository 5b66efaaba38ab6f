-------------------------------- MODULE Uartd --------------------------------
(***************************************************************************)
(* package/app/uartd: a daemon on a serial line.  HardReadProcess puts the *)
(* commands that its parser (UartFrames) cuts out of the line into rFifo   *)
(* and ignores whether they fit; CmdparseProcess executes them and, for    *)
(* the commands that answer, puts a reply into wFifo and ignores whether   *)
(* it fits; TtMasterProcess puts lines of stdin into wFifo;                *)
(* HardWriteProcess writes the strings of wFifo to the line, in pieces.    *)
(*                                                                         *)
(* A command in rFifo is <<"query", n>> (usbDetect, hornDetect: sendCmd is *)
(* called exactly once) or <<"note", n>> (reply, unknown or empty: no      *)
(* answer), n its place in cmds.  A string for the line is <<"reply", n>>  *)
(* for query n or <<"line", n>>, and consists of Pieces pieces.            *)
(***************************************************************************)
EXTENDS Integers, Sequences, FiniteSets, SequencesExt

CONSTANTS
  Chars, BufSize, Chunks, Junk, MaxBytes,  \* see UartFrames
  Queries,     \* the commands whose handlers answer
  RMax, WMax,  \* capacities of rFifo and wFifo (50 and 25)
  Pieces,      \* pieces in which a string may go out
  MaxLines     \* bound: lines of stdin; 0 without ttMasterFlag

ASSUME UartdAssumption ==
  /\ {"^", "\n"} \subseteq Chars /\ Junk \subseteq Seq(Chars)
  /\ BufSize \in Nat \ {0} /\ MaxBytes \in Nat
  /\ \A b \in Chunks : b \in Seq(Chars) /\ Len(b) \in 1..BufSize
  /\ RMax \in Nat \ {0} /\ WMax \in Nat \ {0} /\ Pieces \in Nat \ {0}
  /\ MaxLines \in Nat

VARIABLES
  req, need_to_get_new_cmd, cmds, wire, clean,  \* HardReadProcess
  rq, rat, rput, rtook,  \* rFifo
  wq, wat, wput, wtook,  \* wFifo
  lines,                 \* lines that TtMasterProcess has read
  cmd,                   \* the command in CmdparseProcess, or NONE
  count,                 \* pieces of Last(wtook) that are on the line
  out,                   \* the pieces written to the line, in order
  lost,                  \* numbers of the commands that rFifo refused
  refused                \* numbers of the queries whose reply wFifo refused

rvars == <<rq, rat, rput, rtook>>
wvars == <<wq, wat, wput, wtook>>
fvars == <<req, need_to_get_new_cmd, cmds, wire, clean>>
own   == <<lines, cmd, count, out, lost, refused>>
vars  == <<fvars, rvars, wvars, own>>

F == INSTANCE UartFrames

R == INSTANCE CondFifo WITH Threads <- {"read", "parse"}, maxCount <- RMax,
       q <- rq, at <- rat, put <- rput, took <- rtook
W == INSTANCE CondFifo WITH Threads <- {"parse", "tty", "write"}, maxCount <- WMax,
       q <- wq, at <- wat, put <- wput, took <- wtook

NONE == <<"none", 0>>

Commands == {"query", "note"} \X (1..MaxBytes)
Strings  == {"reply"} \X (1..MaxBytes) \cup {"line"} \X (1..MaxLines)

Init ==
  /\ F!Init /\ R!Init /\ W!Init
  /\ lines = 0
  /\ cmd = NONE /\ count = Pieces
  /\ out = <<>>
  /\ lost = {} /\ refused = {}

\* What is queued for a command: the handlers differ only in whether they answer.
Kind(c) == IF c \in Queries THEN "query" ELSE "note"

\* One pass of HardReadProcess; the result of rFifo->writeOne(cmd) is ignored.
Read(bytes) ==
  /\ rat["read"] = "idle"
  /\ F!Read(bytes)
  /\ LET n == Len(cmds') IN
       \/ cmds' = cmds /\ UNCHANGED <<rvars, lost>>
       \/ cmds' # cmds /\ R!WriteOne("read", <<Kind(cmds'[n]), n>>) /\ lost' = lost
       \/ cmds' # cmds /\ R!WriteFails("read") /\ lost' = lost \cup {n}
  /\ UNCHANGED <<wvars, lines, cmd, count, out, refused>>

\* Mutant: HardReadProcess does not wake the parser.
ReadSilent ==
  /\ rat["read"] = "notify"
  /\ rat' = [rat EXCEPT !["read"] = "idle"]
  /\ UNCHANGED <<rq, rput, rtook, fvars, wvars, own>>

ReadNotify == R!NotifyOne("read") /\ UNCHANGED <<fvars, wvars, own>>

\* CmdparseProcess is in rFifo->readOne, and so not in a handler.
ParseTake ==
  /\ cmd = NONE /\ wat["parse"] = "idle"
  /\ \E v \in Commands : R!ReadOne("parse", v) /\ cmd' = v
  /\ UNCHANGED <<fvars, wvars, lines, count, out, lost, refused>>

ParseWait ==
  /\ cmd = NONE /\ wat["parse"] = "idle"
  /\ R!ReadWaits("parse")
  /\ UNCHANGED <<fvars, wvars, own>>

\* Mutant: the loop over mCmdVct has no break, the handler may run again.
ReplyAgain ==
  /\ cmd[1] = "query"
  /\ \/ W!WriteOne("parse", <<"reply", cmd[2]>>) /\ refused' = refused
     \/ W!WriteFails("parse") /\ refused' = refused \cup {cmd[2]}
  /\ cmd' \in {NONE, cmd}
  /\ UNCHANGED <<fvars, rvars, lines, count, out, lost>>

\* A handler that answers: sendCmd, its result is ignored.
Reply ==
  /\ cmd[1] = "query"
  /\ \/ W!WriteOne("parse", <<"reply", cmd[2]>>) /\ refused' = refused
     \/ W!WriteFails("parse") /\ refused' = refused \cup {cmd[2]}
  /\ cmd' = NONE
  /\ UNCHANGED <<fvars, rvars, lines, count, out, lost>>

NoReply ==
  /\ cmd[1] = "note"
  /\ cmd' = NONE
  /\ UNCHANGED <<fvars, rvars, wvars, lines, count, out, lost, refused>>

ParseNotify == W!NotifyOne("parse") /\ UNCHANGED <<fvars, rvars, own>>

\* TtMasterProcess: fgets and sendCmd.
Tty ==
  /\ wat["tty"] = "idle"
  /\ lines < MaxLines
  /\ lines' = lines + 1
  /\ W!WriteOne("tty", <<"line", lines + 1>>) \/ W!WriteFails("tty")
  /\ UNCHANGED <<fvars, rvars, cmd, count, out, lost, refused>>

TtyNotify == W!NotifyOne("tty") /\ UNCHANGED <<fvars, rvars, own>>

\* HardWriteProcess takes the next string when the last one is out.
WriteTake ==
  /\ count = Pieces
  /\ \E v \in Strings : W!ReadOne("write", v)
  /\ count' = 0
  /\ UNCHANGED <<fvars, rvars, lines, cmd, out, lost, refused>>

WriteWait ==
  /\ count = Pieces
  /\ W!ReadWaits("write")
  /\ UNCHANGED <<fvars, rvars, own>>

\* A write() of n pieces; one that fails is repeated and changes nothing.
Write(n) ==
  /\ count + n <= Pieces
  /\ out' = out \o [i \in 1..n |-> <<Last(wtook), count + i>>]
  /\ count' = count + n
  /\ UNCHANGED <<fvars, rvars, wvars, lines, cmd, lost, refused>>

SpuriousWakeup ==
  \/ R!SpuriousWakeup("parse") /\ UNCHANGED <<fvars, wvars, own>>
  \/ W!SpuriousWakeup("write") /\ UNCHANGED <<fvars, rvars, own>>

Parser == ParseTake \/ ParseWait \/ Reply \/ NoReply \/ ParseNotify
Writer == WriteTake \/ WriteWait \/ \E n \in 1..Pieces : Write(n)

Next ==
  \/ \E bytes \in Chunks : Read(bytes)
  \/ ReadNotify \/ Parser \/ Tty \/ TtyNotify \/ Writer \/ SpuriousWakeup

\* Threads run, and the line takes bytes again and again.
Spec ==
  /\ Init /\ [][Next]_vars
  /\ WF_vars(ReadNotify) /\ WF_vars(TtyNotify) /\ WF_vars(Parser) /\ WF_vars(Writer)
-----------------------------------------------------------------------------
Numbers(kind, s) == {s[i][2] : i \in {j \in 1..Len(s) : s[j][1] = kind}}

\* Commands, strings and counters are well typed.
TypeOK ==
  /\ rq \in Seq(Commands) /\ rput \in Seq(Commands) /\ rtook \in Seq(Commands)
  /\ wq \in Seq(Strings) /\ wput \in Seq(Strings) /\ wtook \in Seq(Strings)
  /\ cmd \in Commands \cup {NONE}
  /\ count \in 0..Pieces /\ lines \in 0..MaxLines /\ F!TypeOK

\* Every command that was cut out is lost, queued or taken, never two of these,
\* and every query that was taken has exactly one reply, is the one being
\* executed, or had its reply refused; the replies keep the queries' order.
OneReplyEach ==
  LET taken == Numbers("query", rtook)
      done  == Numbers("reply", wput)
      now   == IF cmd[1] = "query" THEN {cmd[2]} ELSE {}
  IN /\ 1..Len(cmds) = lost \cup {rput[i][2] : i \in 1..Len(rput)}
     /\ Len(rput) + Cardinality(lost) = Len(cmds)
     /\ rput = rtook \o Reverse(rq)
     /\ taken = done \cup refused \cup now
     /\ Cardinality(done) + Cardinality(refused) + Cardinality(now) = Cardinality(taken)
     /\ \A i, j \in 1..Len(wput) :
          i < j /\ wput[i][1] = "reply" /\ wput[j][1] = "reply" => wput[i][2] < wput[j][2]

\* The properties of the parser in the running daemon: the commands handed on are
\* those that were received, and each begins with the character the parser drops.
NoCommandLost == F!NoCommandLost /\ F!StartsWithHat

\* Every read takes a complete command out of req, and a query that found room in
\* rFifo is answered on the line, unless wFifo was full when its handler replied.
QueryAnswered ==
  /\ F!EveryReadDelivers
  /\ \A n \in 1..MaxBytes :
       (n \in Numbers("query", rput))
         ~> (n \in refused \/ <<<<"reply", n>>, Pieces>> \in ToSet(out))
=============================================================================
