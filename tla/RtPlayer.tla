------------------------------ MODULE RtPlayer ------------------------------
(***************************************************************************)
(* package/app/CPPBox/src/RtPlayer: a recorder thread captures chunks and  *)
(* puts them into an MTQueue with cycWrite; the constructor waits until a  *)
(* write found the queue full and only then starts the player thread, so   *)
(* playback runs one queue behind.  SIGUSR1 alternately pauses and resumes *)
(* from a signal handler on the main thread.                               *)
(*                                                                         *)
(* The sound devices are external.  An alsa_ctrl call holds the device's   *)
(* mutex.  alsa_ctrl_pause drops the stream of a device that cannot pause  *)
(* in hardware, and I/O on it comes back without data; a device that can   *)
(* stands still, and I/O on it blocks once its buffer is used up.          *)
(*                                                                         *)
(* Bound: the next signal comes when the handler is done.  What a second   *)
(* one does while main is in the handler is modelled in RePlayer, whose    *)
(* handler and devices are the same.                                       *)
(***************************************************************************)
EXTENDS MTQueue

CONSTANTS
  rec, play, main,  \* the threads
  MaxPause          \* bound: how often the signal arrives

PlayerAssumption ==
  /\ Cardinality({rec, play, main}) = 3
  /\ Threads = {rec, play, main}
  /\ Calls = [t \in Threads |->
                IF t = rec THEN {"cycWrite"} ELSE IF t = play THEN {"readTd"} ELSE {"clear"}]
  /\ MaxPause \in Nat

Devices == {"mRec", "mPly"}
NoThread == "none"

VARIABLES
  rpc,         \* recorder: "test", "lock", "io", "store", "full"
  ppc,         \* player: "none" (not started), "test", "read", "lock", "io"
  mpc,         \* main: "fill", "publish", "pause()", a step of the handler, "crashed"
  isPaused,    \* the handler's static variable
  mPauseFlag,
  mFullFlag,
  canPause,    \* devices with can_pause: alsa_ctrl_pause stops them in hardware
  devPaused,   \* devices that alsa_ctrl_pause stopped
  devLock,     \* the thread holding each device's mutex
  pauses,      \* number of calls of RtPlayer::pause
  chunkEra,    \* pauses at the time the recorder began its current chunk
  era          \* the same for every chunk in the queue, by element number

pvars == <<rpc, ppc, mpc, isPaused, mPauseFlag, mFullFlag, canPause, devPaused, devLock, pauses, chunkEra, era>>
vars  == <<qvars, pvars>>

PlayerInit ==
  /\ Init
  /\ rpc = "test" /\ ppc = "none" /\ mpc = "fill"
  /\ isPaused = FALSE /\ mPauseFlag = FALSE /\ mFullFlag = FALSE
  /\ canPause \in SUBSET Devices /\ devPaused = {}
  /\ devLock = [d \in Devices |-> NoThread]
  /\ pauses = 0 /\ chunkEra = 0 /\ era = <<>>

Lock(d, t)   == devLock[d] = NoThread /\ devLock' = [devLock EXCEPT ![d] = t]
Unlock(d)    == devLock' = [devLock EXCEPT ![d] = NoThread]

Dropped == devPaused \ canPause
Held    == devPaused \cap canPause
-----------------------------------------------------------------------------
\* The recorder thread.

\* if(mPauseFlag) { usleep; continue; }
RTest ==
  /\ rpc = "test" /\ ~mPauseFlag
  /\ rpc' = "lock"
  /\ chunkEra' = pauses
  /\ UNCHANGED <<qvars, ppc, mpc, isPaused, mPauseFlag, mFullFlag, canPause, devPaused, devLock, pauses, era>>

RLock ==
  /\ rpc = "lock"
  /\ Lock("mRec", "rec")
  /\ rpc' = "io"
  /\ UNCHANGED <<qvars, ppc, mpc, isPaused, mPauseFlag, mFullFlag, canPause, devPaused, pauses, chunkEra, era>>

\* Mutant: a short read returns without the unlock.
RCaptureKeepsLock ==
  /\ rpc = "io"
  /\ \/ "mRec" \notin Dropped /\ rpc' = "store" /\ Unlock("mRec")
     \/ "mRec" \notin Held /\ rpc' = "test" /\ devLock' = devLock
  /\ UNCHANGED <<qvars, ppc, mpc, isPaused, mPauseFlag, mFullFlag, canPause, devPaused, pauses, chunkEra, era>>

\* A full chunk, or a short read after which the loop starts again.  A device
\* paused in hardware gives what it has left in its buffer, or nothing comes
\* back until it is resumed.
RCapture ==
  /\ rpc = "io"
  /\ Unlock("mRec")
  /\ \/ "mRec" \notin Dropped /\ rpc' = "store"
     \/ "mRec" \notin Held /\ rpc' = "test"
  /\ UNCHANGED <<qvars, ppc, mpc, isPaused, mPauseFlag, mFullFlag, canPause, devPaused, pauses, chunkEra, era>>

RStore ==
  /\ rpc = "store"
  /\ WriteOne(rec, "cycWrite") \/ WriteOverOldest(rec)
  /\ era' = Append(era, chunkEra)
  /\ rpc' = "full"
  /\ UNCHANGED <<ppc, mpc, isPaused, mPauseFlag, mFullFlag, canPause, devPaused, devLock, pauses, chunkEra>>

RNotify ==
  /\ NotifyOne(rec)
  /\ UNCHANGED pvars

\* mFullFlag = what cycWrite returned.
RFull ==
  /\ rpc = "full" /\ pc[rec] = "idle"
  /\ mFullFlag' = (ret[rec] = 1)
  /\ rpc' = "test"
  /\ UNCHANGED <<qvars, ppc, mpc, isPaused, mPauseFlag, canPause, devPaused, devLock, pauses, chunkEra, era>>
-----------------------------------------------------------------------------
\* The player thread.
PTest ==
  /\ ppc = "test" /\ ~mPauseFlag
  /\ ppc' = "read"
  /\ UNCHANGED <<qvars, rpc, mpc, isPaused, mPauseFlag, mFullFlag, canPause, devPaused, devLock, pauses, chunkEra, era>>

\* read(5) ends only with a chunk: nothing sets the exit state.
PRead ==
  /\ ppc = "read"
  /\ ReadOne(play, "readTd")
  /\ ppc' = "lock"
  /\ UNCHANGED <<rpc, mpc, isPaused, mPauseFlag, mFullFlag, canPause, devPaused, devLock, pauses, chunkEra, era>>

PWait ==
  /\ ppc = "read"
  /\ ReadWaits(play, "readTd") \/ Timeout(play)
  /\ UNCHANGED pvars

PLock ==
  /\ ppc = "lock"
  /\ Lock("mPly", "play")
  /\ ppc' = "io"
  /\ UNCHANGED <<qvars, rpc, mpc, isPaused, mPauseFlag, mFullFlag, canPause, devPaused, pauses, chunkEra, era>>

\* Written, or refused by a dropped device; the chunk is deleted in both cases.
\* On a device paused in hardware the write ends if its buffer has room.
PWrite ==
  /\ ppc = "io"
  /\ Unlock("mPly")
  /\ ppc' = "test"
  /\ UNCHANGED <<qvars, rpc, mpc, isPaused, mPauseFlag, mFullFlag, canPause, devPaused, pauses, chunkEra, era>>
-----------------------------------------------------------------------------
\* The main thread.

\* while(!mFullFlag) usleep; then the player thread starts.
MFilled ==
  /\ mpc = "fill" /\ mFullFlag
  /\ mpc' = "publish" /\ ppc' = "test"
  /\ UNCHANGED <<qvars, rpc, isPaused, mPauseFlag, mFullFlag, canPause, devPaused, devLock, pauses, chunkEra, era>>

\* g_mRtPlayer = mRtPlayer; from here main only waits in the destructor's join.
MPublish ==
  /\ mpc = "publish"
  /\ mpc' = "join"
  /\ UNCHANGED <<qvars, rpc, ppc, isPaused, mPauseFlag, mFullFlag, canPause, devPaused, devLock, pauses, chunkEra, era>>

\* SIGUSR1.  The handler is installed before g_mRtPlayer is set, so an early
\* signal calls pause() on a null pointer.
Signal ==
  /\ pauses < MaxPause \/ isPaused
  /\ \/ /\ mpc \in {"fill", "publish"}
        /\ mpc' = "crashed" /\ isPaused' = isPaused
     \/ /\ mpc = "join"
        /\ mpc' = IF isPaused THEN "resume:flag" ELSE "pause:flag"
        /\ isPaused' = ~isPaused
  /\ UNCHANGED <<qvars, rpc, ppc, mPauseFlag, mFullFlag, canPause, devPaused, devLock, pauses, chunkEra, era>>

\* pause(): the flag, the two devices, the queue.
MPauseFlag ==
  /\ mpc = "pause:flag"
  /\ mPauseFlag' = TRUE
  /\ mpc' = "pause:mRec"
  /\ pauses' = pauses + 1
  /\ UNCHANGED <<qvars, rpc, ppc, isPaused, mFullFlag, canPause, devPaused, devLock, chunkEra, era>>

\* snd_pcm_pause fails on a device that is not running: alsa_ctrl_pause returns
\* -1, which nobody looks at, and the device starts with the next transfer.
MPauseDev(d, from, to) ==
  /\ mpc = from
  /\ devLock[d] = NoThread
  /\ \/ devPaused' = devPaused \cup {d}
     \/ d \in canPause /\ devPaused' = devPaused
  /\ mpc' = to
  /\ UNCHANGED <<qvars, rpc, ppc, isPaused, mPauseFlag, mFullFlag, canPause, devLock, pauses, chunkEra, era>>

\* Mutant: pause() leaves the queue as it is.
MClearNothing ==
  /\ mpc = "pause:clear"
  /\ mpc' = "join"
  /\ UNCHANGED <<qvars, rpc, ppc, isPaused, mPauseFlag, mFullFlag, canPause, devPaused, devLock, pauses, chunkEra, era>>

MClear ==
  /\ mpc = "pause:clear"
  /\ ClearAll(main)
  /\ mpc' = "join"
  /\ UNCHANGED <<rpc, ppc, isPaused, mPauseFlag, mFullFlag, canPause, devPaused, devLock, pauses, chunkEra, era>>

\* resume(): the flag, then the two devices.
MResumeFlag ==
  /\ mpc = "resume:flag"
  /\ mPauseFlag' = FALSE
  /\ mpc' = "resume:mRec"
  /\ UNCHANGED <<qvars, rpc, ppc, isPaused, mFullFlag, canPause, devPaused, devLock, pauses, chunkEra, era>>

MResumeDev(d, from, to) ==
  /\ mpc = from
  /\ devLock[d] = NoThread
  /\ devPaused' = devPaused \ {d}
  /\ mpc' = to
  /\ UNCHANGED <<qvars, rpc, ppc, isPaused, mPauseFlag, mFullFlag, canPause, devLock, pauses, chunkEra, era>>

Handler ==
  \/ MPauseFlag
  \/ MPauseDev("mRec", "pause:mRec", "pause:mPly")
  \/ MPauseDev("mPly", "pause:mPly", "pause:clear")
  \/ MClear
  \/ MResumeFlag
  \/ MResumeDev("mRec", "resume:mRec", "resume:mPly")
  \/ MResumeDev("mPly", "resume:mPly", "join")
-----------------------------------------------------------------------------
Recorder == RTest \/ RLock \/ RCapture \/ RStore \/ RNotify \/ RFull
Player   == PTest \/ PRead \/ PWait \/ PLock \/ PWrite
Main     == MFilled \/ MPublish \/ Handler

PlayerNext == mpc # "crashed" /\ (Recorder \/ Player \/ Main \/ Signal)

\* The scheduler runs every thread; a running capture device goes on delivering
\* full chunks, and a transfer ends unless its device is Held.  A thread that keeps
\* finding a device's mutex taken for one I/O call at a time gets it in the end.
RStoresNext == "mRec" \notin Held /\ RCapture /\ rpc' = "store"
RGoes       == RTest \/ RStore \/ RNotify \/ RFull \/ ("mRec" \notin Held /\ RCapture)
PGoes       == PTest \/ PRead \/ ("mPly" \notin Held /\ PWrite)
Filling     == MFilled \/ MPublish

PlayerSpec ==
  /\ PlayerInit /\ [][PlayerNext]_vars
  /\ WF_vars(RGoes) /\ SF_vars(RStoresNext) /\ SF_vars(RLock)
  /\ WF_vars(PGoes) /\ WF_vars(PWait) /\ SF_vars(PRead) /\ SF_vars(PLock)
  /\ WF_vars(Filling) /\ SF_vars(Handler)
-----------------------------------------------------------------------------
\* The types, and: a thread holds its device's mutex exactly during its I/O.
PlayerTypeOK ==
  /\ TypeOK
  /\ rpc \in {"test", "lock", "io", "store", "full"}
  /\ ppc \in {"none", "test", "read", "lock", "io"}
  /\ mpc \in {"fill", "publish", "join", "crashed", "pause:flag", "pause:mRec", "pause:mPly",
              "pause:clear", "resume:flag", "resume:mRec", "resume:mPly"}
  /\ {isPaused, mPauseFlag, mFullFlag} \subseteq BOOLEAN
  /\ canPause \in SUBSET Devices /\ devPaused \in SUBSET Devices
  /\ devLock \in [Devices -> {NoThread, "rec", "play"}]
  /\ pauses \in 0..MaxPause /\ chunkEra \in 0..MaxPause
  /\ era \in Seq(0..MaxPause) /\ Len(era) = pushed
  /\ (devLock["mRec"] = "rec") = (rpc = "io")
  /\ (devLock["mPly"] = "play") = (ppc = "io")

\* pause() promises silence from before the pause: once it has returned, the
\* queue holds at most the one chunk that the recorder had in its hands when
\* the queue was cleared.
OneStaleChunk ==
  mpc \notin {"pause:mRec", "pause:mPly", "pause:clear"} =>
    Cardinality({i \in 1..Len(q) : era[q[i]] < pauses}) <= 1

\* A thread that passed the test of mPauseFlag before the pause is inside a
\* transfer on a device that stands still, with the mutex of that device.
Stuck == \E d \in Held : devLock[d] # NoThread

Resuming == {"resume:flag", "resume:mRec", "resume:mPly"}
InHandler == Resuming \cup {"pause:flag", "pause:mRec", "pause:mPly", "pause:clear"}

\* The signal handler returns: pause() and resume() get the device mutexes the
\* two threads hold during their transfers.  Nothing but a thread that is Stuck
\* keeps the handler inside, and only resume(), which has to release the device.
HandlerReturns == (mpc \in InHandler) ~> (mpc = "join" \/ (mpc \in Resuming /\ Stuck))
=============================================================================
