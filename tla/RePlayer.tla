------------------------------ MODULE RePlayer ------------------------------
(***************************************************************************)
(* package/app/CPPBox/src/RePlayer: one thread reads a chunk from the      *)
(* recorder and writes it to the player; a device that fails is reset.     *)
(* SIGUSR1 alternately pauses and resumes both devices from a handler on   *)
(* the main thread, under the mutexes the thread holds during its I/O.     *)
(* The signal is blocked only in the thread that runs the handler: one     *)
(* that comes while main is inside it interrupts the other thread, which   *)
(* then handles it with whatever mutex it holds.                           *)
(***************************************************************************)
EXTENDS Naturals, AlsaCtrl

CONSTANTS
  MaxPause,   \* bound: how often pause() is called
  MaxFaults   \* bound: calls that fail, and suspensions

ASSUME PlayerAssumption == MaxPause \in Nat /\ MaxFaults \in Nat

VARIABLES
  padded,     \* the chunk is shorter than what write_stream fills up to
  dev,        \* the devices mRec and mPly
  lock,       \* devices whose mutex the thread holds
  tpc,        \* the thread: "none", or its next step
  mpc,        \* main, and the handler there
  wpc,        \* the handler on the thread: "none", or its next step
  crossed,    \* history: two handlers overlap since the last that began alone ("now"),
              \* did so earlier ("once"), never did ("never")
  isPaused,   \* the handler's static variable
  mPauseFlag,
  pauses,     \* calls of pause()
  faults,     \* calls that failed
  late,       \* chunks played since a pause() that ran alone returned
  heard,      \* a chunk was played since resume()
  openFailed, \* history: some snd_pcm_open failed
  resets      \* history: resets of either device since the last pause, while Counting

vars == <<padded, dev, lock, tpc, mpc, wpc, crossed, isPaused, mPauseFlag, pauses, faults, late, heard,
          openFailed, resets>>

Devices == {"mRec", "mPly"}

Init ==
  /\ padded \in BOOLEAN
  /\ dev \in [Devices -> [pcm : {"NULL"}, can_pause : BOOLEAN]]
  /\ lock = {} /\ tpc = <<"none">> /\ mpc = <<"create", "mPly">>
  /\ wpc = <<"none">> /\ crossed = "never"
  /\ isPaused = FALSE /\ mPauseFlag = FALSE /\ pauses = 0 /\ faults = 0 /\ late = 0
  /\ heard = FALSE /\ openFailed = FALSE /\ resets = [d \in Devices |-> 0]

\* One of the faults in F, or none, for a call.
Fault(fault, F) ==
  /\ fault \in F \cup {"none"}
  /\ fault # "none" => faults < MaxFaults
  /\ faults' = faults + IF fault = "none" THEN 0 ELSE 1
  /\ openFailed' = (openFailed \/ fault = "open")

Free(d) == d \notin lock

\* Resets are counted when chunks are long enough and handlers never overlapped.
Counting == ~padded /\ crossed = "never"

Becomes(d, new) == dev' = [dev EXCEPT ![d] = new]
-----------------------------------------------------------------------------
\* The constructor.  A device without parameters makes it return early, and the
\* destructor, which main runs at once, destroys devices that were not created.
Create(d, next) ==
  /\ mpc = <<"create", d>>
  /\ \E fault \in Faults :
       /\ Fault(fault, {"open", "params"})
       /\ Becomes(d, alsa_ctrl_create(dev[d], fault))
       /\ mpc' = IF dev'[d].pcm = "crash" THEN <<"crashed">>
                 ELSE IF fault = "params" THEN <<"destroy">> ELSE next
       /\ tpc' = IF mpc' = <<"publish">> THEN <<"test">> ELSE tpc
  /\ UNCHANGED <<padded, lock, wpc, crossed, isPaused, mPauseFlag, pauses, late, heard, resets>>

Destroy ==
  /\ mpc = <<"destroy">> /\ mpc' = <<"crashed">>
  /\ UNCHANGED <<padded, dev, lock, tpc, wpc, crossed, isPaused, mPauseFlag, pauses, faults, late, heard,
                 openFailed, resets>>

\* g_mRtPlayer = mRtPlayer, and then the join of the destructor.
Publish ==
  /\ mpc = <<"publish">> /\ mpc' = <<"join">>
  /\ UNCHANGED <<padded, dev, lock, tpc, wpc, crossed, isPaused, mPauseFlag, pauses, faults, late, heard,
                 openFailed, resets>>
-----------------------------------------------------------------------------
\* The thread.

\* Mutant: the flag is not looked at.
TestAlways ==
  /\ tpc = <<"test">> /\ tpc' = <<"lock", "mRec">>
  /\ UNCHANGED <<padded, dev, lock, mpc, wpc, crossed, isPaused, mPauseFlag, pauses, faults, late, heard,
                 openFailed, resets>>

Test ==
  /\ tpc = <<"test">> /\ ~mPauseFlag /\ tpc' = <<"lock", "mRec">>
  /\ UNCHANGED <<padded, dev, lock, mpc, wpc, crossed, isPaused, mPauseFlag, pauses, faults, late, heard,
                 openFailed, resets>>

LockDev(d) ==
  /\ tpc = <<"lock", d>> /\ Free(d)
  /\ lock' = lock \cup {d} /\ tpc' = <<"io", d>>
  /\ UNCHANGED <<padded, dev, mpc, wpc, crossed, isPaused, mPauseFlag, pauses, faults, late, heard,
                 openFailed, resets>>

\* Mutant: a read that fails returns without the unlock.
ReadKeepsLock ==
  /\ tpc = <<"io", "mRec">>
  /\ \E fault \in Faults :
       /\ Fault(fault, {"io", "resume"})
       /\ Becomes("mRec", Transferred(dev["mRec"], fault))
       /\ tpc' = IF Transfers(dev["mRec"], fault) THEN <<"lock", "mPly">> ELSE <<"reset", "mRec">>
  /\ lock' = IF tpc'[1] = "reset" THEN lock ELSE lock \ {"mRec"}
  /\ UNCHANGED <<padded, mpc, wpc, crossed, isPaused, mPauseFlag, pauses, late, heard, resets>>

\* alsa_ctrl_read_stream.
ReadStream ==
  /\ tpc = <<"io", "mRec">>
  /\ \E fault \in Faults :
       /\ Fault(fault, {"io", "resume"})
       /\ Becomes("mRec", Transferred(dev["mRec"], fault))
       /\ tpc' = IF Transfers(dev["mRec"], fault) THEN <<"lock", "mPly">> ELSE <<"reset", "mRec">>
  /\ lock' = lock \ {"mRec"}
  /\ UNCHANGED <<padded, mpc, wpc, crossed, isPaused, mPauseFlag, pauses, late, heard, resets>>

\* alsa_ctrl_write_stream: a chunk that is filled up returns more than was asked for,
\* which counts as a failure.
WriteStream ==
  /\ tpc = <<"io", "mPly">>
  /\ \E fault \in Faults :
       /\ Fault(fault, {"io", "resume"})
       /\ Becomes("mPly", Transferred(dev["mPly"], fault))
       /\ LET whole == Transfers(dev["mPly"], fault) /\ ~padded
              plays == Transfers(dev["mPly"], fault) /\ dev["mPly"].pcm # "PAUSED"
          IN /\ tpc' = IF whole THEN <<"test">> ELSE <<"reset", "mPly">>
             /\ heard' = (heard \/ (whole /\ plays))
             /\ late' = late + IF plays /\ isPaused /\ mpc = <<"join">> /\ crossed # "now" THEN 1 ELSE 0
  /\ lock' = lock \ {"mPly"}
  /\ UNCHANGED <<padded, mpc, wpc, crossed, isPaused, mPauseFlag, pauses, resets>>

\* alsa_ctrl_reset, under the mutex, and from the start.
LockReset(d) ==
  /\ tpc = <<"reset", d>> /\ Free(d)
  /\ lock' = lock \cup {d} /\ tpc' = <<"open", d>>
  /\ UNCHANGED <<padded, dev, mpc, wpc, crossed, isPaused, mPauseFlag, pauses, faults, late, heard,
                 openFailed, resets>>

Reset(d) ==
  /\ tpc = <<"open", d>>
  /\ \E fault \in Faults :
       /\ Fault(fault, {"open", "params"})
       /\ Becomes(d, alsa_ctrl_reset(dev[d], fault))
       /\ resets' = IF faults' = 0 /\ Counting THEN [resets EXCEPT ![d] = IF @ < 3 THEN @ + 1 ELSE @]
                    ELSE [c \in Devices |-> 0]
  /\ lock' = lock \ {d} /\ tpc' = <<"test">>
  /\ mpc' = IF dev'[d].pcm = "crash" THEN <<"crashed">> ELSE mpc
  /\ UNCHANGED <<padded, wpc, crossed, isPaused, mPauseFlag, pauses, late, heard>>

\* The thread goes on when it is not in the handler.
Thread ==
  /\ wpc = <<"none">>
  /\ \/ Test \/ ReadStream \/ WriteStream
     \/ \E d \in Devices : LockDev(d) \/ LockReset(d) \/ Reset(d)
-----------------------------------------------------------------------------
\* sig_handle, on main ("main") or on the thread ("mTrd").
At(t)      == IF t = "main" THEN mpc ELSE wpc
Step(t, s) == IF t = "main" THEN mpc' = s /\ wpc' = wpc ELSE wpc' = s /\ mpc' = mpc
Done(t)    == IF t = "main" THEN <<"join">> ELSE <<"none">>

Handling(pc) == pc[1] \in {"pause", "resume"}
Begins(pc)    == pc \in {<<"pause">>, <<"resume">>}

\* The handler is installed before g_mRtPlayer is set.
EarlySignal ==
  /\ mpc \in {<<"create", "mPly">>, <<"create", "mRec">>, <<"publish">>}
  /\ mpc' = <<"early">>
  /\ UNCHANGED <<padded, dev, lock, tpc, wpc, crossed, isPaused, mPauseFlag, pauses, faults, late,
                 heard, openFailed, resets>>

\* isPaused is tested and set without a lock: while the other handler is still there,
\* the old value may be seen.
Toggle(t, other) ==
  \E seen \in {isPaused} \cup (IF Begins(other) THEN {~isPaused} ELSE {}) :
    /\ seen \/ pauses < MaxPause
    /\ isPaused' = ~seen /\ pauses' = pauses + IF seen THEN 0 ELSE 1
    /\ Step(t, IF seen THEN <<"resume">> ELSE <<"pause">>)

\* The kernel gives the signal to main, unless main is in the handler.
Signal(t) ==
  /\ \/ t = "main" /\ mpc = <<"join">> /\ Toggle(t, wpc)
     \/ t = "mTrd" /\ Handling(mpc) /\ tpc # <<"none">> /\ wpc = <<"none">> /\ Toggle(t, mpc)
  /\ crossed' = IF t = "mTrd" \/ wpc # <<"none">> THEN "now"
                ELSE IF crossed = "never" THEN "never" ELSE "once"
  /\ late' = 0
  /\ UNCHANGED <<padded, dev, lock, tpc, mPauseFlag, faults, heard, openFailed, resets>>

\* Mutant: resume() leaves the flag as it is.
FlagStays(t) ==
  /\ Begins(At(t))
  /\ mPauseFlag' = TRUE
  /\ Step(t, <<At(t)[1], "mRec">>)
  /\ heard' = FALSE
  /\ resets' = IF At(t) = <<"pause">> THEN [d \in Devices |-> 0] ELSE resets
  /\ UNCHANGED <<padded, dev, lock, tpc, crossed, isPaused, pauses, faults, late, openFailed>>

\* pause() and resume(): the flag, the recorder, and 40 ms later the player.
Flag(t) ==
  /\ Begins(At(t))
  /\ mPauseFlag' = (At(t) = <<"pause">>)
  /\ Step(t, <<At(t)[1], "mRec">>)
  /\ heard' = FALSE
  /\ resets' = IF At(t) = <<"pause">> THEN [d \in Devices |-> 0] ELSE resets
  /\ UNCHANGED <<padded, dev, lock, tpc, crossed, isPaused, pauses, faults, late, openFailed>>

\* A call on a NULL handle, or the next step of the handler.
Called(t, d, next) ==
  IF dev'[d].pcm = "crash" THEN mpc' = <<"crashed">> /\ wpc' = wpc ELSE Step(t, next)

PauseDev(t, d, next) ==
  /\ At(t) = <<"pause", d>> /\ Free(d)
  /\ Becomes(d, alsa_ctrl_pause(dev[d])) /\ Called(t, d, next)
  /\ UNCHANGED <<padded, lock, tpc, crossed, isPaused, mPauseFlag, pauses, faults, late, heard,
                 openFailed, resets>>

ResumeDev(t, d, next) ==
  /\ At(t) = <<"resume", d>> /\ Free(d)
  /\ \E fault \in Faults :
       /\ Fault(fault, {"resume"})
       /\ Becomes(d, alsa_ctrl_resume(dev[d], fault))
  /\ Called(t, d, next)
  /\ UNCHANGED <<padded, lock, tpc, crossed, isPaused, mPauseFlag, pauses, late, heard, resets>>

Handler(t) ==
  \/ Flag(t)
  \/ PauseDev(t, "mRec", <<"pause", "mPly">>) \/ PauseDev(t, "mPly", Done(t))
  \/ ResumeDev(t, "mRec", <<"resume", "mPly">>) \/ ResumeDev(t, "mPly", Done(t))

Main == Create("mPly", <<"create", "mRec">>) \/ Create("mRec", <<"publish">>) \/ Destroy \/ Publish
-----------------------------------------------------------------------------
\* Nobody reads or writes for a while, or the machine is suspended.
Overrun(d) ==
  /\ dev[d].pcm = "RUNNING" /\ Free(d)
  /\ dev' = [dev EXCEPT ![d].pcm = "XRUN"]
  /\ UNCHANGED <<padded, lock, tpc, mpc, wpc, crossed, isPaused, mPauseFlag, pauses, faults, late, heard,
                 openFailed, resets>>

Suspend(d) ==
  /\ dev[d].pcm \in {"PREPARED", "RUNNING", "PAUSED"} /\ faults < MaxFaults
  /\ dev' = [dev EXCEPT ![d].pcm = "SUSPENDED"] /\ faults' = faults + 1
  /\ UNCHANGED <<padded, lock, tpc, mpc, wpc, crossed, isPaused, mPauseFlag, pauses, late, heard, openFailed, resets>>

Next ==
  /\ mpc \notin {<<"crashed">>, <<"early">>}
  /\ \/ Main \/ Thread \/ EarlySignal
     \/ \E t \in {"main", "mTrd"} : Signal(t) \/ Handler(t)
     \/ \E d \in Devices : Overrun(d) \/ Suspend(d)

\* The thread waits with a mutex for a device that stands still.
Stuck == \E d \in Devices : d \in lock /\ Blocks(dev[d])

\* The thread was interrupted with a mutex, and its handler needs the same one.
SelfDeadlock == \E d \in lock : wpc \in {<<"pause", d>>, <<"resume", d>>}

\* The scheduler runs both threads; main gets a mutex that is free again and again in the
\* end (nobody keeps one from the thread); a device goes on unless it blocks.
Alive      == mpc \notin {<<"crashed">>, <<"early">>}
ThreadGoes == Alive /\ ~Stuck /\ Thread

Spec ==
  /\ Init /\ [][Next]_vars
  /\ WF_vars(Main) /\ SF_vars(Handler("main"))
  /\ WF_vars(Handler("mTrd")) /\ WF_vars(ThreadGoes)
-----------------------------------------------------------------------------
\* Once pause() has returned, no chunk is played until resume(), although the thread may
\* be anywhere in its loop; a device that pauses in hardware, and was not running at
\* that moment, still plays the one chunk that was on its way.  Two handlers that
\* overlap may leave the player playing or not; the next that begins alone makes it
\* right again.
SilentAfterPause == late <= IF dev["mPly"].can_pause THEN 1 ELSE 0

\* Failing reads, writes, parameters and resumes are survived, in whatever order two
\* handlers take their steps.  What kills the program is a device that cannot be
\* opened, one without parameters at the start, and a signal before g_mRtPlayer is
\* set (mpc = <<"early">>).  Nor does a reset call for the next one: as long as nothing
\* fails and no handlers overlap, a device is reset at most twice from one pause() to the
\* next, for the pause before, when the thread comes late, and because resume() clears
\* the flag before it resumes the device.
ErrorsSurvived ==
  /\ mpc = <<"crashed">> => openFailed \/ tpc = <<"none">>
  /\ faults = 0 /\ Counting => \A d \in Devices : resets[d] <= 2

\* pause() and resume() return, on both threads, unless a read or write waits on a device
\* that is paused in hardware, with the mutex that resume() needs, or the thread was
\* interrupted while it held the mutex that its own handler needs.
HandlerReturns ==
  \A t \in {"main", "mTrd"} : Handling(At(t)) ~> (~Handling(At(t)) \/ Stuck \/ SelfDeadlock \/ ~Alive)

\* After resume() sound is heard again, if chunks are long enough and no second signal
\* came before the first was handled.
Resumed    == mpc = <<"join">> /\ ~isPaused /\ ~padded /\ crossed # "now"
PlaysAgain == Resumed ~> (heard \/ isPaused \/ crossed = "now" \/ ~Alive)

\* Pausing and resuming end, and after them the sound is back.
SoundReturns == HandlerReturns /\ PlaysAgain
=============================================================================
