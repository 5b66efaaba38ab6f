------------------------------ MODULE RtspPull ------------------------------
(***************************************************************************)
(* package/app/RtspPullHandle: a thread pulls the packets of an RTSP       *)
(* camera.  Until SIGUSR1 arrives they circulate in the queue `befor`; the *)
(* signal asks for an upload, which a detached thread performs with curl   *)
(* as soon as the oldest frame of `befor` carries the key flag; packets    *)
(* received from then on go to the queue `after`.                          *)
(*                                                                         *)
(* The pull loop reads the volatile mBAStream_status once per test, and    *)
(* the signal handler, on the main thread, writes it in between: each test *)
(* is an action.  The two queues are MTQueues and are used here as the     *)
(* atomic FIFOs that MTQueue implements (theorem QueueRefinesFifo);        *)
(* MTQueue wakes a sleeping reader (theorem WakeupsAreNeverLost).          *)
(*                                                                         *)
(* Frames are numbered like the packets they copy.  The model stops where  *)
(* the program has undefined behaviour, with the reason in `misuse`.       *)
(***************************************************************************)
EXTENDS Integers, Sequences, FiniteSets, SequencesExt

CONSTANTS
  queueMax,         \* capacity of befor and of after (10 * mFps in the code)
  Sizes,            \* the packet sizes that occur
  bufSize,          \* what curl asks for in one read callback
  CurrentPackets,   \* bound: video packets received
  CurrentTriggers   \* bound: deliveries of SIGUSR1

\* A frame rate of 0 would make queueMax 0, for which cycWrite is undefined.
PullAssumption ==
  /\ queueMax \in Nat \ {0}
  /\ Sizes \subseteq Nat \ {0}
  /\ bufSize \in Nat \ {0}
  /\ CurrentPackets \in Nat
  /\ CurrentTriggers \in Nat

VARIABLES
  mBAStream_status, \* mBAStream_status
  mainThread,       \* "new" until g_RtspClientPtr is set, then "pause"
  pullAt,           \* the next step of the pull thread
  pktSize,          \* sizes of the video packets received, the last one is pktNo
  vBAs,             \* mVbas points to a BAStream
  befor,            \* its queues, oldest frame first
  after,
  peeked,           \* the frame that getRiFlags got from befor, 0 is none
  uploads,          \* the upload threads: "call", "read", "copy" or "done"
  frame,            \* static variables of readBuf: the frame being read, 0 is none,
  ri,               \*   and the read index; ctx is what is left behind ri
  sent,             \* the bytes each upload got, as <<frame, offset>>
  freed,            \* frames deleted
  leaked,           \* frames that writeAfter could not store
  signalled,        \* number of signals delivered
  untimely,         \* "null": a signal came before g_RtspClientPtr or mVbas was set,
                    \*   "lost": one came when the status was about to become CYCW
  misuse            \* "no", or what the program did wrong

queues  == <<vBAs, befor, after, freed, leaked>>
reading == <<uploads, frame, ri, sent>>
signals == <<mainThread, signalled, untimely>>
currentVars == <<mBAStream_status, pullAt, pktSize, peeked, queues, reading, signals, misuse>>

NoFrame == 0
pktNo == Len(pktSize)

CurrentInit ==
  /\ mBAStream_status = "unset" /\ mainThread = "new" /\ pullAt = "open"
  /\ pktSize = <<>> /\ vBAs = FALSE /\ befor = <<>> /\ after = <<>> /\ peeked = NoFrame
  /\ uploads = <<>> /\ frame = NoFrame /\ ri = 0 /\ sent = <<>>
  /\ freed = {} /\ leaked = {}
  /\ signalled = 0 /\ untimely = "no" /\ misuse = "no"
-----------------------------------------------------------------------------
\* class BAStream.

\* getFlags returns the size, whose lowest bit stands in for AV_PKT_FLAG_KEY.
Flagged(f) == pktSize[f] % 2 = 1

\* Mutant: the oldest frame is deleted and stays in befor.
queueBeforNoPop ==
  IF Len(befor) < queueMax
  THEN befor' = Append(befor, pktNo) /\ freed' = freed
  ELSE befor' = Append(befor, pktNo) /\ freed' = freed \cup {Head(befor)}

\* writeBefor: cycWrite, which deletes the oldest frame of a full queue.
queueBefor ==
  IF Len(befor) < queueMax
  THEN befor' = Append(befor, pktNo) /\ freed' = freed
  ELSE befor' = Append(Tail(befor), pktNo) /\ freed' = freed \cup {Head(befor)}

\* writeAfter: write, whose refusal loses the new frame.
queueAfter ==
  IF Len(after) < queueMax
  THEN after' = Append(after, pktNo) /\ leaked' = leaked
  ELSE after' = after /\ leaked' = leaked \cup {pktNo}

\* What writeAfter returns is a bool, and the pull loop asks whether it is < 0.
AfterRefused == (IF Len(after) < queueMax THEN 1 ELSE 0) < 0
-----------------------------------------------------------------------------
\* The pull thread.
PullAt(l) == pullAt = l
Goto(l)   == pullAt' = l

\* The stream is open: the status starts, whatever it was set to before.
OpenInput ==
  /\ PullAt("open") /\ Goto("recv")
  /\ mBAStream_status' = "START"
  /\ UNCHANGED <<pktSize, peeked, queues, reading, signals, misuse>>

\* A video packet arrives (others are dropped), or the stream ends.
ReadPacket ==
  /\ PullAt("recv")
  /\ \/ /\ pktNo < CurrentPackets
        /\ \E s \in Sizes : pktSize' = Append(pktSize, s)
        /\ Goto("START?")
     \/ Goto("end") /\ pktSize' = pktSize
  /\ UNCHANGED <<mBAStream_status, peeked, queues, reading, signals, misuse>>

\* if(mBAStream_status == s), the tests of one packet in the order of the loop.
TestStatus(l, s, yes, no) ==
  /\ PullAt(l)
  /\ Goto(IF mBAStream_status = s THEN yes ELSE no)
  /\ UNCHANGED <<mBAStream_status, pktSize, peeked, queues, reading, signals, misuse>>

\* Mutant: GETI is tested before CYCW.
TestsReordered ==
  \/ TestStatus("START?", "START", "new", "GETI?")
  \/ TestStatus("GETI?", "GETI", "peek", "CYCW?")
  \/ TestStatus("CYCW?", "CYCW", "writeBefor", "DUMP?")
  \/ TestStatus("DUMP?", "DUMP", "writeAfter", "recv")

Tests ==
  \/ TestStatus("START?", "START", "new", "CYCW?")
  \/ TestStatus("CYCW?", "CYCW", "writeBefor", "GETI?")
  \/ TestStatus("GETI?", "GETI", "peek", "DUMP?")
  \/ TestStatus("DUMP?", "DUMP", "writeAfter", "recv")

NewBAStream ==
  /\ PullAt("new") /\ Goto("circulate")
  /\ vBAs' = TRUE /\ befor' = <<>> /\ after' = <<>>
  /\ UNCHANGED <<mBAStream_status, pktSize, peeked, freed, leaked, reading, signals, misuse>>

ToCycle ==
  /\ PullAt("circulate") /\ Goto("CYCW?")
  /\ mBAStream_status' = "CYCW"
  /\ UNCHANGED <<pktSize, peeked, queues, reading, signals, misuse>>

WriteBefor ==
  /\ PullAt("writeBefor") /\ Goto("recv")
  /\ queueBefor
  /\ UNCHANGED <<mBAStream_status, pktSize, peeked, vBAs, after, leaked, reading, signals, misuse>>

\* getRiFlags, first half: befor->get(), on a BAStream that may not exist.
Peek ==
  /\ PullAt("peek")
  /\ IF vBAs
     THEN /\ peeked' = IF befor = <<>> THEN NoFrame ELSE Head(befor)
          /\ Goto(IF befor = <<>> THEN "writeBefor" ELSE "flags")
          /\ misuse' = misuse
     ELSE misuse' = "null" /\ UNCHANGED <<peeked, pullAt>>
  /\ UNCHANGED <<mBAStream_status, pktSize, queues, reading, signals>>

\* getRiFlags, second half: an upload may have deleted the frame meanwhile.
Flags ==
  /\ PullAt("flags")
  /\ IF peeked \in freed
     THEN misuse' = "use after free" /\ pullAt' = pullAt
     ELSE misuse' = misuse /\ Goto(IF Flagged(peeked) THEN "dump" ELSE "writeBefor")
  /\ UNCHANGED <<mBAStream_status, pktSize, peeked, queues, reading, signals>>

ToDump ==
  /\ PullAt("dump") /\ Goto("spawn")
  /\ mBAStream_status' = "DUMP"
  /\ UNCHANGED <<pktSize, peeked, queues, reading, signals, misuse>>

\* The packet goes to after, and a detached thread starts the upload.
Spawn ==
  /\ PullAt("spawn") /\ Goto("recv")
  /\ queueAfter
  /\ uploads' = Append(uploads, "call")
  /\ sent' = Append(sent, <<>>)
  /\ UNCHANGED <<mBAStream_status, pktSize, peeked, vBAs, befor, freed, frame, ri, signals, misuse>>

WriteAfter ==
  /\ PullAt("writeAfter") /\ Goto("recv")
  /\ queueAfter
  /\ mBAStream_status' = IF AfterRefused THEN "START" ELSE mBAStream_status
  /\ UNCHANGED <<pktSize, peeked, vBAs, befor, freed, reading, signals, misuse>>

Pull ==
  \/ OpenInput \/ ReadPacket \/ Tests \/ NewBAStream \/ ToCycle \/ WriteBefor
  \/ Peek \/ Flags \/ ToDump \/ Spawn \/ WriteAfter
-----------------------------------------------------------------------------
\* Upload thread u: curl calls read_callback, that is readBuf, again and again.
Upload(u, from, to) == uploads[u] = from /\ uploads' = [uploads EXCEPT ![u] = to]

Inside(u) == uploads[u] \in {"read", "copy"}

\* readBuf keeps its frame in static variables that the threads share
\* without a lock: a second thread inside it is a data race.
EnterReadBuf(u) ==
  /\ Upload(u, "call", IF frame = NoFrame THEN "read" ELSE "copy")
  /\ misuse' = IF \E v \in DOMAIN uploads : Inside(v) THEN "race" ELSE misuse
  /\ UNCHANGED <<mBAStream_status, pullAt, pktSize, peeked, queues, frame, ri, sent, signals>>

\* readOne: the untimed befor->read(); it waits until there is a frame, so
\* the queue after is never read.
ReadOne(u) ==
  /\ befor # <<>>
  /\ Upload(u, "read", "copy")
  /\ frame' = Head(befor) /\ befor' = Tail(befor)
  /\ ri' = 0
  /\ UNCHANGED <<mBAStream_status, pullAt, pktSize, peeked, vBAs, after, freed, leaked, sent, signals, misuse>>

\* The next part of the frame is copied; the frame is deleted with its last byte.
Copy(u) ==
  LET ctx  == pktSize[frame] - ri
      rGet == IF bufSize < ctx THEN bufSize ELSE ctx
  IN /\ Upload(u, "copy", "call")
     /\ sent' = [sent EXCEPT ![u] = @ \o [i \in 1..rGet |-> <<frame, ri + i>>]]
     /\ ri' = ri + rGet
     /\ IF rGet = ctx
        THEN frame' = NoFrame /\ freed' = freed \cup {frame}
        ELSE UNCHANGED <<frame, freed>>
     /\ UNCHANGED <<mBAStream_status, pullAt, pktSize, peeked, vBAs, befor, after, leaked, signals, misuse>>

\* curl_easy_perform ends between two callbacks; the static frame stays.
Finish(u) ==
  /\ Upload(u, "call", "done")
  /\ UNCHANGED <<mBAStream_status, pullAt, pktSize, peeked, queues, frame, ri, sent, signals, misuse>>

Uploader(u) == EnterReadBuf(u) \/ ReadOne(u) \/ Copy(u) \/ Finish(u)
-----------------------------------------------------------------------------
\* g_RtspClientPtr = mCli, while the pull thread is already running.
Publish ==
  /\ mainThread = "new" /\ mainThread' = "pause"
  /\ UNCHANGED <<mBAStream_status, pullAt, pktSize, peeked, queues, reading, signalled, untimely, misuse>>

\* SIGUSR1: setBAStreamStatus through g_RtspClientPtr.
Trigger ==
  /\ signalled < CurrentTriggers
  /\ signalled' = signalled + 1
  /\ untimely' = IF ~vBAs \/ mainThread = "new" THEN "null"
              ELSE IF untimely = "no" /\ pullAt = "circulate" THEN "lost" ELSE untimely
  /\ IF mainThread = "new"
     THEN misuse' = "null" /\ mBAStream_status' = mBAStream_status
     ELSE misuse' = misuse /\ mBAStream_status' = "GETI"
  /\ UNCHANGED <<mainThread, pullAt, pktSize, peeked, queues, reading>>

Uploading == \E u \in DOMAIN uploads : Uploader(u)

CurrentNext == misuse = "no" /\ (Pull \/ Uploading \/ Publish \/ Trigger)

CurrentSpec == CurrentInit /\ [][CurrentNext]_currentVars
-----------------------------------------------------------------------------
Statuses == {"unset", "START", "CYCW", "GETI", "DUMP"}
Packets  == 1..CurrentPackets

\* The types, and: the read index stays inside the frame that readBuf holds.
TypeOK ==
  /\ mBAStream_status \in Statuses /\ mainThread \in {"new", "pause"}
  /\ pullAt \in {"open", "recv", "START?", "CYCW?", "GETI?", "DUMP?", "new", "circulate", "writeBefor",
               "peek", "flags", "dump", "spawn", "writeAfter", "end"}
  /\ pktSize \in Seq(Sizes) /\ pktNo <= CurrentPackets
  /\ vBAs \in BOOLEAN /\ befor \in Seq(Packets) /\ after \in Seq(Packets)
  /\ peeked \in Packets \cup {NoFrame}
  /\ uploads \in Seq({"call", "read", "copy", "done"}) /\ Len(sent) = Len(uploads)
  /\ frame \in Packets \cup {NoFrame} /\ ri \in Nat
  /\ frame # NoFrame => ri < pktSize[frame]
  /\ freed \subseteq Packets /\ leaked \subseteq Packets
  /\ signalled \in 0..CurrentTriggers /\ untimely \in {"no", "null", "lost"}
  /\ misuse \in {"no", "null", "use after free", "race"}

\* What a single trigger may do: one that comes once the program has started
\* and the first video packet has made the BAStream never breaks it.  The null pointers need an
\* earlier signal, the deleted frame and the shared statics a second one.
SingleTriggerSafe == misuse # "no" => untimely = "null" \/ signalled > 1

\* Nor is such a trigger lost: no step of the pull loop sets the status back, but for
\* the one that has just made the BAStream.
TriggerKept == signalled = 1 /\ untimely = "no" => mBAStream_status \in {"GETI", "DUMP"}

Held == ToSet(befor) \cup ToSet(after) \cup ({frame} \ {NoFrame})

\* Every frame has one owner: a queue, the upload's static pointer, or nobody
\* after its deletion.  Only a full queue `after` makes frames leak.
OneOwner ==
  misuse # "race" =>
    /\ Len(befor) + Len(after) + (IF frame = NoFrame THEN 0 ELSE 1) = Cardinality(Held)
    /\ Held \cap (freed \cup leaked) = {} /\ freed \cap leaked = {}
    /\ leaked # {} => Len(after) = queueMax

\* No packet falls through the chain of tests although the status changes
\* between them; that takes a second trigger, between the tests for GETI and
\* for DUMP.
EveryPacketStored ==
  signalled <= 1 /\ pullAt \in {"recv", "end"} => 1..pktNo = Held \cup freed \cup leaked

\* The upload is made of whole frames, each complete before the next one, in
\* the order of the stream, as long as there is only one.
WholeFrames ==
  Len(uploads) = 1 =>
    \A i \in 1..Len(sent[1]) :
      LET b == sent[1][i]
      IN IF i = 1 THEN b[2] = 1
         ELSE LET a == sent[1][i - 1]
              IN IF a[2] = pktSize[a[1]] THEN b[1] > a[1] /\ b[2] = 1 ELSE b = <<a[1], a[2] + 1>>

\* The trigger waits for a flagged frame at the end of befor, and this is the
\* frame the upload begins with: nothing is overwritten between the look at
\* the flag and the first read.
StartsFlagged ==
  signalled = 1 /\ uploads # <<>> /\ sent[1] # <<>> => Flagged(sent[1][1][1])

\* All of this: one timely trigger breaks nothing and is not lost, every packet is kept
\* somewhere, and an upload is made of whole frames in the order of the stream that begin
\* with a flagged one.
UploadInOrder == SingleTriggerSafe /\ TriggerKept /\ EveryPacketStored /\ WholeFrames /\ StartsFlagged
=============================================================================
