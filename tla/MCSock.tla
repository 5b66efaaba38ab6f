------------------------------- MODULE MCSock -------------------------------
(***************************************************************************)
(* SockServer: in every behavior `part` says what is looked at, the server *)
(* with its client threads, or one send loop inside a client (SockSend).   *)
(* The variables of the other part keep their initial values.              *)
(***************************************************************************)
EXTENDS SockServer, SockSend

VARIABLE part

ASSUME SendAssumption

TwoFds == {1, 2}

all == <<part, vars, sendVars>>

SockInit ==
  /\ Init /\ SendInit /\ part \in {"server", "send"}
  /\ part = "server" => sendLoop = "stream"

Server(A) == part = "server" /\ A /\ UNCHANGED <<part, sendVars>>
Sender(A) == part = "send"   /\ A /\ UNCHANGED <<part, vars>>

\* See Spec of SockServer and of SockSend.
SockSpec ==
  /\ SockInit /\ [][Server(Next) \/ Sender(SendNext)]_all
  /\ WF_all(Server(Run)) /\ WF_all(Server(Owner))
  /\ \A c \in Conn :
       /\ WF_all(Server(Runs(c)))
       /\ WF_all(Server(c \in exitWork /\ HStream(c)))
  /\ WF_all(Sender(Sending))
-----------------------------------------------------------------------------
\* The loops that Stop waits for end, but for a stream that is caught in its own and
\* a thread whose peer says nothing.
LoopsEnd == StopReturns /\ TextEnds
=============================================================================
