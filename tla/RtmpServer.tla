----------------------------- MODULE RtmpServer -----------------------------
(***************************************************************************)
(* rtmpServer in parts, `part` says which one runs: the poll loop with its *)
(* connections, or the chunk parser with one.  The variables of a part     *)
(* that does not run keep their initial values.                            *)
(***************************************************************************)
EXTENDS Rtmp

CONSTANTS Channels, Kinds, CHUNK_LEN, SIZE_LEN, EXT, MaxMessages, MaxWire   \* of Chunks

VARIABLES
  part,
  said, under, speak, wire, parsed, spoken, handled  \* of Chunks; parsed is its client

C == INSTANCE Chunks WITH client <- parsed

chunkVars == <<said, under, speak, wire, parsed, spoken, handled>>
serverVars == <<part, vars, chunkVars>>

PartsInit == part \in {"loop", "chunks", "amf"} /\ Init /\ C!Init

RunLoop   == part = "loop"   /\ Next   /\ UNCHANGED <<part, chunkVars>>
RunChunks == part = "chunks" /\ C!Next /\ UNCHANGED <<part, vars>>

PartsSpec == PartsInit /\ [][RunLoop \/ RunChunks]_serverVars

\* Chunks: the messages of a peer are put together again, and what is forwarded of them
\* can be read.
ChunksCarry == C!ChunksAssembled /\ C!SentIsReadable
=============================================================================
