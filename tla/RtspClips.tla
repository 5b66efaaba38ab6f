------------------------------ MODULE RtspClips ------------------------------
(***************************************************************************)
(* The versions v0.1 to v0.5 of package/app/RtspPullHandle, which are kept *)
(* beside the current one.  The pull thread keeps the last packets of a    *)
(* camera in the ring befor; SIGUSR1 asks for a clip; the packets after    *)
(* the next key frame fill the ring after, and when that one is full a     *)
(* detached thread writes both into a file (v0.3 and later upload it).     *)
(*                                                                         *)
(* Neither the rings nor the BAStream that holds them have a lock: a clip  *)
(* thread is alone with its BAStream because the pull thread makes a new   *)
(* one for the next packet - if the status still says so.                  *)
(*                                                                         *)
(* Packets are numbered.  The model stops where the program has undefined  *)
(* behaviour, with the reason in `broken`.                                 *)
(***************************************************************************)
EXTENDS AnyStream, FiniteSets

CONSTANTS
  Versions,     \* the versions looked at
  MaxPackets,   \* bound: video packets received
  MaxTriggers   \* bound: deliveries of SIGUSR1

ASSUME ClipsAssumption ==
  /\ Versions \subseteq {"v0.1", "v0.2", "v0.3", "v0.4", "v0.5"}
  /\ mMax > 1       \* 10 * fps; 0 when the frame rate is given or computed as 0
  /\ MaxPackets \in Nat /\ MaxTriggers \in Nat

VARIABLES
  version,   \* which of the programs runs
  status,    \* mBAStream_status
  mainAt,    \* "new" until g_RtspClientPtr is set, then "pause"
  pull,      \* the next step of pullSteamLoop
  keys,      \* for each packet received: has it AV_PKT_FLAG_KEY; the last is pkt
  streams,   \* the BAStreams allocated; mVbas is the last one
  packs,     \* the clip threads: where they are, their BAStream and their file
  triggers,  \* number of signals delivered
  early,     \* a signal came before g_RtspClientPtr or mVbas was set
  broken     \* "no", or what the program did wrong

vars == <<version, status, mainAt, pull, keys, streams, packs, triggers, early, broken>>

pkt   == Len(keys)
mVbas == Len(streams)

Init ==
  /\ version \in Versions
  /\ status = "unset" /\ mainAt = "new" /\ pull = "open"
  /\ keys = <<>> /\ streams = <<>> /\ packs = <<>>
  /\ triggers = 0 /\ early = FALSE /\ broken = "no"
-----------------------------------------------------------------------------
\* The pull thread.  mVbas is written without a lock: a clip thread that works
\* on the same BAStream makes it a data race.
Shared == \E u \in DOMAIN packs : packs[u].bas = mVbas /\ packs[u].at \in {"open", "write"}

Misuse == IF mVbas = 0 THEN "null" ELSE IF Shared THEN "race" ELSE "no"

BAStream == [befor |-> anyStream, after |-> anyStream, is_befor_read_done |-> FALSE]

writeBefor == streams' = [streams EXCEPT ![mVbas].befor = cycWrite(@, pkt)]
writeAfter == streams' = [streams EXCEPT ![mVbas].after = writeOne(@, pkt)]

\* The stream is open: the status starts, whatever it was set to before.
Open ==
  /\ pull = "open" /\ pull' = "recv"
  /\ status' = "START"
  /\ UNCHANGED <<keys, streams, packs, broken>>

\* A video packet arrives, or the stream ends and its context is closed.
Receive ==
  /\ pull = "recv"
  /\ \/ /\ pkt < MaxPackets
        /\ \E key \in BOOLEAN : keys' = Append(keys, key)
        /\ pull' = "START?"
     \/ pull' = "end" /\ keys' = keys
  /\ UNCHANGED <<status, streams, packs, broken>>

\* Each test reads the volatile status anew.
Test ==
  /\ \E t \in {<<"START?", "START", "new", "CYCW?">>, <<"CYCW?", "CYCW", "cycw", "GETI?">>,
               <<"GETI?", "GETI", "geti", "DUMP?">>, <<"DUMP?", "DUMP", "dump", "recv">>} :
        pull = t[1] /\ pull' = IF status = t[2] THEN t[3] ELSE t[4]
  /\ UNCHANGED <<status, keys, streams, packs, broken>>

\* Mutant: the BAStream of the last clip is used again.
NewReuses ==
  /\ pull = "new" /\ pull' = "circulate"
  /\ streams' = IF streams = <<>> THEN <<BAStream>> ELSE streams
  /\ UNCHANGED <<status, keys, packs, broken>>

New ==
  /\ pull = "new" /\ pull' = "circulate"
  /\ streams' = Append(streams, BAStream)
  /\ UNCHANGED <<status, keys, packs, broken>>

Circulate ==
  /\ pull = "circulate" /\ pull' = "CYCW?"
  /\ status' = "CYCW"
  /\ UNCHANGED <<keys, streams, packs, broken>>

Cycle ==
  /\ pull = "cycw" /\ pull' = "recv"
  /\ broken' = Misuse
  /\ IF Misuse = "no" THEN writeBefor ELSE UNCHANGED streams
  /\ UNCHANGED <<status, keys, packs>>

\* Up to v0.4 the clip's second part starts behind the next key packet, which
\* itself is the last one of befor.
GetKeyPacket ==
  /\ pull = "geti" /\ pull' = "recv"
  /\ status' = IF keys[pkt] THEN "DUMP" ELSE status
  /\ broken' = Misuse
  /\ IF Misuse = "no" THEN writeBefor ELSE UNCHANGED streams
  /\ UNCHANGED <<keys, packs>>

\* v0.5 waits until the oldest packet of befor is a key packet.
getRiFlag == oldest(streams[mVbas].befor) # NULL /\ keys[oldest(streams[mVbas].befor)]

\* Mutant: the packet that ends the wait is not kept.
GetKeyOldestDrops ==
  /\ pull = "geti" /\ pull' = "recv"
  /\ broken' = Misuse
  /\ IF Misuse # "no" THEN UNCHANGED <<status, streams>>
     ELSE IF getRiFlag THEN status' = "DUMP" /\ UNCHANGED streams
     ELSE UNCHANGED status /\ writeBefor
  /\ UNCHANGED <<keys, packs>>

GetKeyOldest ==
  /\ pull = "geti" /\ pull' = "recv"
  /\ broken' = Misuse
  /\ IF Misuse # "no" THEN UNCHANGED <<status, streams>>
     ELSE IF getRiFlag THEN status' = "DUMP" /\ writeAfter
     ELSE UNCHANGED status /\ writeBefor
  /\ UNCHANGED <<keys, packs>>

\* A packet that finds after full is lost, and starts the clip thread.
Dump ==
  /\ pull = "dump" /\ pull' = "recv"
  /\ broken' = Misuse
  /\ IF Misuse # "no" THEN UNCHANGED <<status, streams, packs>>
     ELSE IF full(streams[mVbas].after)
     THEN /\ status' = "START"
          /\ packs' = Append(packs, [at |-> "open", bas |-> mVbas, file |-> <<>>])
          /\ UNCHANGED streams
     ELSE writeAfter /\ UNCHANGED <<status, packs>>
  /\ UNCHANGED keys

Pulling(getKey) ==
  /\ Open \/ Receive \/ Test \/ New \/ Circulate \/ Cycle \/ getKey \/ Dump
  /\ UNCHANGED <<version, mainAt, triggers, early>>

pullSteamLoop_v01 == version = "v0.1" /\ Pulling(GetKeyPacket)
pullSteamLoop_v02 == version = "v0.2" /\ Pulling(GetKeyPacket)
pullSteamLoop_v03 == version = "v0.3" /\ Pulling(GetKeyPacket)
pullSteamLoop_v04 == version = "v0.4" /\ Pulling(GetKeyPacket)
pullSteamLoop_v05 == version = "v0.5" /\ Pulling(GetKeyOldest)
-----------------------------------------------------------------------------
\* Clip thread u: mediaPackageUp.
At(u, from, to) == packs[u].at = from /\ packs' = [packs EXCEPT ![u].at = to]

\* The output is set up after the input's context, which is gone when the
\* stream has ended; adjustTs reads the oldest packet of befor.  Any step of
\* the set-up may fail.
PackOpen(u) ==
  /\ \/ At(u, "open", "write")
        /\ broken' = IF pull = "end" THEN "use after free"
                     ELSE IF getOne(streams[packs[u].bas].befor) = NULL THEN "null" ELSE broken
     \/ At(u, "open", "failed")
        /\ broken' = IF pull = "end" THEN "use after free" ELSE broken
  /\ UNCHANGED streams

\* BAStream::readOne: befor until it is empty once, then after.
PackFrom(u) ==
  LET b == streams[packs[u].bas]
  IN IF ~b.is_befor_read_done /\ getOne(b.befor) # NULL THEN "befor" ELSE "after"

PackWrite(u) ==
  LET b   == packs[u].bas
      one == IF PackFrom(u) = "befor" THEN getOne(streams[b].befor) ELSE getOne(streams[b].after)
  IN /\ packs[u].at = "write" /\ one # NULL
     /\ packs' = [packs EXCEPT ![u].file = Append(@, one)]
     /\ streams' = IF PackFrom(u) = "befor"
                   THEN [streams EXCEPT ![b].befor = getSync(@)]
                   ELSE [streams EXCEPT ![b].after = getSync(@), ![b].is_befor_read_done = TRUE]
     /\ UNCHANGED broken

\* Both rings are empty: the trailer is written; v0.3 and later go on to curl.
PackEnd(u, to) ==
  /\ PackFrom(u) = "after" /\ getOne(streams[packs[u].bas].after) = NULL
  /\ At(u, "write", to)
  /\ streams' = [streams EXCEPT ![packs[u].bas].is_befor_read_done = TRUE]
  /\ UNCHANGED broken

\* The upload of the finished file succeeds or fails; nothing is tried again.
curlPushUp(u) ==
  /\ At(u, "push", "done") \/ At(u, "push", "failed")
  /\ UNCHANGED <<streams, broken>>

Packaging(u, next) ==
  /\ PackOpen(u) \/ PackWrite(u) \/ PackEnd(u, next)
  /\ UNCHANGED <<version, status, mainAt, pull, keys, triggers, early>>

mediaPackageUp_v01(u) == version = "v0.1" /\ Packaging(u, "done")
mediaPackageUp_v02(u) == version = "v0.2" /\ Packaging(u, "done")
mediaPackageUp_v03(u) == version = "v0.3" /\ Packaging(u, "push")
mediaPackageUp_v04(u) == version = "v0.4" /\ Packaging(u, "push")
mediaPackageUp_v05(u) == version = "v0.5" /\ Packaging(u, "push")

Clip(u) ==
  \/ mediaPackageUp_v01(u) \/ mediaPackageUp_v02(u) \/ mediaPackageUp_v03(u)
  \/ mediaPackageUp_v04(u) \/ mediaPackageUp_v05(u)
  \/ curlPushUp(u) /\ UNCHANGED <<version, status, mainAt, pull, keys, triggers, early>>
-----------------------------------------------------------------------------
\* g_RtspClientPtr = mCli, while the pull thread is already running.
main ==
  /\ mainAt = "new" /\ mainAt' = "pause"
  /\ UNCHANGED <<version, status, pull, keys, streams, packs, triggers, early, broken>>

\* SIGUSR1: setBAStreamStatus through g_RtspClientPtr.
sigHandle ==
  /\ triggers < MaxTriggers /\ triggers' = triggers + 1
  /\ early' = (early \/ mVbas = 0 \/ mainAt = "new")
  /\ IF mainAt = "new"
     THEN broken' = "null" /\ status' = status
     ELSE broken' = broken /\ status' = "GETI"
  /\ UNCHANGED <<version, mainAt, pull, keys, streams, packs>>

Next ==
  /\ broken = "no"
  /\ \/ pullSteamLoop_v01 \/ pullSteamLoop_v02 \/ pullSteamLoop_v03 \/ pullSteamLoop_v04
     \/ pullSteamLoop_v05
     \/ \E u \in DOMAIN packs : Clip(u)
     \/ main \/ sigHandle

Spec == Init /\ [][Next]_vars
-----------------------------------------------------------------------------
\* Every ring is sound at every moment: no packet is lost, deleted twice or
\* missing where the indices say that there is one.
RingsSound ==
  \A b \in DOMAIN streams : RingOK(streams[b].befor) /\ RingOK(streams[b].after)

\* A trigger that comes once the program runs and the first packet has its
\* BAStream does no harm as long as the clip before it is finished: the pull thread
\* and a clip thread share a BAStream only after a second trigger, and the
\* input's context is used after its end only when the stream ends first.
TriggerSafe ==
  /\ broken \in {"null", "race"} => early \/ triggers > 1
  /\ broken = "use after free" => pull = "end"

\* A clip that a single trigger asked for has no gap and no packet twice, and is as
\* long as both rings together when the camera had delivered enough; in v0.5 it
\* starts with a key packet, before that a key packet is in its first part.
ClipInOrder ==
  triggers = 1 /\ ~early =>
    \A u \in DOMAIN packs :
      LET f == packs[u].file
      IN /\ \A i \in 1 .. Len(f) - 1 : f[i + 1] = f[i] + 1
         /\ packs[u].at \in {"push", "done"} =>
              /\ f[1] > 1 => Len(f) = 2 * (mMax - 1)
              /\ IF version = "v0.5" THEN keys[f[1]] ELSE keys[f[Len(f) - (mMax - 1)]]
=============================================================================
