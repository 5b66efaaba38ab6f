------------------------------ MODULE SockSend ------------------------------
(***************************************************************************)
(* package/app/SockServer: the loops around TCPSocket::Send.  ResponseText *)
(* and ResponseMime send a string until Send returns 0 or less;            *)
(* SendOneStream sends a piece of a file and tests the wrong variable, so  *)
(* that nothing but an exhausted rem_size ends its loop.                   *)
(*                                                                         *)
(* Send returns the number of bytes sent, -1, 0 once m_exitWork is set, or *)
(* after a timeout ERROR_NOT_WRITEABLE, eight values after ERROR_GETADDR   *)
(* in an enumeration that sets this one to -1: 7.  rem_size is a size_t.   *)
(***************************************************************************)
EXTENDS Integers, Sequences

CONSTANTS
  Size,        \* bytes in the buffer
  Width,       \* size_t counts modulo this number
  MaxFailures  \* bound: timeouts and errors of Send

SendAssumption == Size \in Nat \ {0} /\ Width \in Nat /\ Width > 2 * Size + 8 /\ MaxFailures \in Nat

NOT_WRITEABLE == 7

VARIABLES
  sendLoop,      \* "text" or "stream"
  pc,        \* "send", "done" or "overrun"
  idx,       \* sendIdx, or wi as an offset into buf
  rem,       \* totalLen or rem_size
  told,  \* m_exitWork
  sent,      \* the offsets of the bytes that went out, in order
  failures   \* number of timeouts and errors

sendVars == <<sendLoop, pc, idx, rem, told, sent, failures>>

SendInit ==
  /\ sendLoop \in {"text", "stream"}
  /\ pc = "send" /\ idx = 0 /\ rem = Size
  /\ told = FALSE /\ sent = <<>> /\ failures = 0

\* What Send(&buf[idx], rem) may return, and what it sends.
Send(r) ==
  \/ told /\ r = 0 /\ UNCHANGED <<sent, failures>>
  \/ /\ ~told /\ failures < MaxFailures
     /\ r \in {-1, NOT_WRITEABLE}
     /\ failures' = failures + 1 /\ sent' = sent
  \/ /\ ~told
     /\ r \in 1..rem
     /\ sent' = sent \o [i \in 1..r |-> idx + i]
     /\ failures' = failures

\* Mutant: the index is not advanced after a partial send.
TextFromStart(r) ==
  /\ sendLoop = "text" /\ pc = "send"
  /\ Send(r)
  /\ IF r <= 0
     THEN pc' = "done" /\ rem' = rem
     ELSE rem' = rem - r /\ pc' = IF rem - r > 0 THEN "send" ELSE "done"
  /\ UNCHANGED <<sendLoop, idx, told>>

\* while (totalLen > 0) { sendLen = Send(...); if (sendLen <= 0) break; ... }
Text(r) ==
  /\ sendLoop = "text" /\ pc = "send"
  /\ Send(r)
  /\ IF r <= 0
     THEN pc' = "done" /\ UNCHANGED <<idx, rem>>
     ELSE /\ idx' = idx + r /\ rem' = rem - r
          /\ pc' = IF rem - r > 0 THEN "send" ELSE "done"
  /\ UNCHANGED <<sendLoop, told>>

\* do { wret = Send(wi, rem_size); rem_size -= wret; wi += wret; }
\* while (rem_size > 0);  A next Send outside buf is undefined.
Stream(r) ==
  /\ sendLoop = "stream" /\ pc = "send"
  /\ Send(r)
  /\ idx' = idx + r /\ rem' = (rem - r) % Width
  /\ pc' = IF rem' = 0 THEN "done"
           ELSE IF idx' < 0 \/ idx' + rem' > Size THEN "overrun" ELSE "send"
  /\ UNCHANGED <<sendLoop, told>>

TellExit ==
  /\ ~told /\ told' = TRUE
  /\ UNCHANGED <<sendLoop, pc, idx, rem, sent, failures>>

Sending == \E r \in {-1, 0, NOT_WRITEABLE} \cup 1..Size : Text(r) \/ Stream(r)

SendNext == Sending \/ TellExit

SendSpec == SendInit /\ [][SendNext]_sendVars /\ WF_sendVars(Sending)
-----------------------------------------------------------------------------
\* Whatever fails, a text goes out in order, at most once and from within its
\* buffer; a piece of a file does, as long as no Send fails, and then nothing
\* of it is skipped either.
SentInOrder ==
  /\ failures = 0 => pc # "overrun" /\ sent = [i \in 1..idx |-> i] /\ idx + rem = Size
  /\ sendLoop = "text" =>
       /\ pc # "overrun"
       /\ \A i, j \in 1..Len(sent) : i < j => sent[i] < sent[j]
       /\ \A i \in 1..Len(sent) : sent[i] <= Size

\* The text loop ends, also when Send only fails.
TextEnds == (sendLoop = "text") ~> (pc = "done")

\* The comment on Send says that what it returns on success is the number of
\* characters sent: what the caller adds up is what went out.
CountedIsSent == sendLoop = "text" => idx = Len(sent)
=============================================================================
