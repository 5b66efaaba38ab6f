--------------------------- MODULE ProgramProofs ---------------------------
(***************************************************************************)
(* RePlayer, pkgSort, BinSplit and the base64 programs.  The first:        *)
(* silence after pause(), and no crash and no reset for ever, for any      *)
(* number of pauses and faults.  The second: every package that is needed  *)
(* is listed, once and in order, for every dependency graph.  The third:   *)
(* the sizes partition the file, for every file, every list of heads and   *)
(* every size of the pieces.  The last: every file of any length comes     *)
(* back, but for the bytes that the last newline adds, for every size of   *)
(* the blocks, of a byte and of the figures in the alphabet.               *)
(***************************************************************************)
EXTENDS RePlayer, Tools, ListLemmas, TLAPS

\* The thread is between its look at mPauseFlag and the end of its write.
InFlight == tpc \in {"lock", "io"} \X Devices

\* A stream in one of these states takes no chunk before it is prepared again.
Dropped == {"NULL", "OPEN", "SETUP", "crash"}

Starting == {<<"create", "mPly">>, <<"create", "mRec">>, <<"publish">>, <<"destroy">>}
Resuming == {<<"resume">>, <<"resume", "mRec">>, <<"resume", "mPly">>}
Pausing  == {<<"pause", "mRec">>, <<"pause", "mPly">>}

Paused == isPaused /\ mpc = <<"join">>

\* No two handlers overlapped since the last one that began.
Alone == crossed # "now"

\* The flag is set from the first step of pause() to that of resume(), so a chunk
\* is late only if it was in flight at the time, and then it is the last one; the
\* player is dropped before pause() returns, so that one is refused, unless the
\* device pauses in hardware.  Handlers that overlap break all this, and the next that
\* begins alone restores it.
IInv ==
  /\ dev \in [Devices -> Device] /\ isPaused \in BOOLEAN
  /\ late = 0 \/ (late = 1 /\ dev["mPly"].can_pause /\ mPauseFlag /\ ~InFlight /\ Alone /\ mpc # <<"resume">>)
  /\ Alone =>
       /\ wpc = <<"none">>
       /\ mpc \in Starting \cup Resuming => ~isPaused
       /\ mpc \in Pausing \/ Paused => mPauseFlag
       /\ Paused /\ ~dev["mPly"].can_pause /\ InFlight => dev["mPly"].pcm \in Dropped

\* No call changes what the hardware can do.
LEMMA CallsKeepType ==
  ASSUME NEW d \in Device, NEW fault \in Faults
  PROVE  \A e \in {alsa_ctrl_create(d, fault), alsa_ctrl_reset(d, fault), alsa_ctrl_pause(d),
                   alsa_ctrl_resume(d, fault), Transferred(d, fault)} :
           e \in Device /\ e.can_pause = d.can_pause
<1> USE DEF Device, States, To
<1>1. alsa_ctrl_create(d, fault) \in Device /\ alsa_ctrl_create(d, fault).can_pause = d.can_pause
  BY DEF alsa_ctrl_create, _alsa_ctrl_set_params, _alsa_ctrl_open
<1>2. alsa_ctrl_reset(d, fault) \in Device /\ alsa_ctrl_reset(d, fault).can_pause = d.can_pause
  BY DEF alsa_ctrl_reset, _alsa_ctrl_set_params, _alsa_ctrl_open, _alsa_ctrl_close
<1>3. alsa_ctrl_pause(d) \in Device /\ alsa_ctrl_pause(d).can_pause = d.can_pause
  BY DEF alsa_ctrl_pause
<1>4. alsa_ctrl_resume(d, fault) \in Device /\ alsa_ctrl_resume(d, fault).can_pause = d.can_pause
  BY DEF alsa_ctrl_resume
<1>5. Transferred(d, fault) \in Device /\ Transferred(d, fault).can_pause = d.can_pause
  BY DEF Transferred
<1> QED BY <1>1, <1>2, <1>3, <1>4, <1>5

\* snd_pcm_drop stops every stream that has parameters, and a chunk that is
\* written to one that was stopped is refused.
LEMMA PauseDrops ==
  ASSUME NEW d \in Device, ~d.can_pause
  PROVE  alsa_ctrl_pause(d).pcm \in Dropped
  BY DEF alsa_ctrl_pause, To, Device, Dropped

\* A dropped stream refuses a write, as alsa_ctrl_write_stream reports it.
LEMMA DroppedRefuses ==
  ASSUME NEW d \in Device, d.pcm \in Dropped, NEW fault
  PROVE  ~Transfers(d, fault) /\ Transferred(d, fault) = d
  BY DEF Dropped, Transfers, Transferred

\* Replacing one device leaves the other as it was.
LEMMA BecomesType ==
  ASSUME IInv, NEW d \in Devices, NEW e \in Device, Becomes(d, e), e.can_pause = dev[d].can_pause
  PROVE  /\ dev' \in [Devices -> Device]
         /\ dev'["mPly"].can_pause = dev["mPly"].can_pause
         /\ dev'["mPly"] = IF d = "mPly" THEN e ELSE dev["mPly"]
  BY DEF IInv, Becomes, Devices

\* The constructor.
LEMMA CreateKeeps ==
  ASSUME IInv, Create("mPly", <<"create", "mRec">>) \/ Create("mRec", <<"publish">>)
  PROVE  IInv'
<1>1. PICK d \in Devices, fault \in Faults :
        /\ Becomes(d, alsa_ctrl_create(dev[d], fault))
        /\ mpc \in Starting /\ mpc' \in Starting \cup {<<"crashed">>}
        /\ tpc' \in {tpc, <<"test">>}
        /\ UNCHANGED <<isPaused, mPauseFlag, late, crossed, wpc>>
  BY DEF Create, Starting, Devices
<1>2. /\ dev' \in [Devices -> Device] /\ dev'["mPly"].can_pause = dev["mPly"].can_pause
  <2>1. dev[d] \in Device
    BY DEF IInv
  <2> QED BY <1>1, <2>1, CallsKeepType, BecomesType
<1>3. (Alone => ~isPaused') /\ ~Paused' /\ mpc' \notin Pausing /\ mpc' # <<"resume">>
  BY <1>1 DEF IInv, Paused, Starting, Pausing
<1>4. ~InFlight => ~InFlight'
  BY <1>1 DEF InFlight, Devices
<1> QED BY <1>1, <1>2, <1>3, <1>4 DEF IInv, Alone

\* A read: the player is not touched, and a chunk stays in flight.
LEMMA ReadKeeps == ASSUME IInv, ReadStream PROVE IInv'
<1>1. PICK fault \in Faults :
        /\ Becomes("mRec", Transferred(dev["mRec"], fault))
        /\ tpc = <<"io", "mRec">> /\ tpc' \in {<<"lock", "mPly">>, <<"reset", "mRec">>}
        /\ UNCHANGED <<mpc, wpc, crossed, isPaused, mPauseFlag, late>>
  BY DEF ReadStream
<1>2. /\ dev' \in [Devices -> Device] /\ dev'["mPly"] = dev["mPly"]
  <2>1. "mRec" \in Devices /\ dev["mRec"] \in Device
    BY DEF IInv, Devices
  <2> QED BY <1>1, <2>1, CallsKeepType, BecomesType
<1>3. InFlight
  BY <1>1 DEF InFlight, Devices
<1> QED BY <1>1, <1>2, <1>3 DEF IInv, Paused, Alone

\* A write: a late chunk is the last one, and there is none if the player was dropped.
LEMMA WriteKeeps == ASSUME IInv, WriteStream PROVE IInv'
<1>1. PICK fault \in Faults :
        /\ Becomes("mPly", Transferred(dev["mPly"], fault))
        /\ tpc = <<"io", "mPly">> /\ tpc' \in {<<"test">>, <<"reset", "mPly">>}
        /\ late' = late + IF /\ Transfers(dev["mPly"], fault) /\ dev["mPly"].pcm # "PAUSED"
                            /\ isPaused /\ mpc = <<"join">> /\ crossed # "now"
                         THEN 1 ELSE 0
        /\ UNCHANGED <<mpc, wpc, crossed, isPaused, mPauseFlag>>
  BY DEF WriteStream
<1>2. /\ dev' \in [Devices -> Device] /\ dev'["mPly"].can_pause = dev["mPly"].can_pause
  <2>1. "mPly" \in Devices /\ dev["mPly"] \in Device
    BY DEF IInv, Devices
  <2> QED BY <1>1, <2>1, CallsKeepType, BecomesType
<1>3. InFlight /\ ~InFlight'
  BY <1>1 DEF InFlight, Devices
<1>4. late = 0
  BY <1>3 DEF IInv
<1>5. late' = 0 \/ (late' = 1 /\ Paused /\ Alone /\ dev["mPly"].can_pause)
  <2>1. dev["mPly"] \in Device
    BY DEF IInv, Devices
  <2>2. Paused /\ Alone /\ ~dev["mPly"].can_pause => ~Transfers(dev["mPly"], fault)
    BY <1>3, <2>1, DroppedRefuses DEF IInv
  <2> QED BY <1>1, <1>4, <2>2 DEF Paused, Alone
<1> QED BY <1>1, <1>2, <1>3, <1>5 DEF IInv, Paused, Alone

\* A reset: the loop starts again with its look at the flag.
LEMMA ResetKeeps == ASSUME IInv, NEW d \in Devices, Reset(d) PROVE IInv'
<1>1. PICK fault \in Faults :
        /\ Becomes(d, alsa_ctrl_reset(dev[d], fault))
        /\ tpc' = <<"test">> /\ mpc' \in {<<"crashed">>, mpc}
        /\ UNCHANGED <<isPaused, mPauseFlag, late, crossed, wpc>>
  BY DEF Reset
<1>2. /\ dev' \in [Devices -> Device] /\ dev'["mPly"].can_pause = dev["mPly"].can_pause
  <2>1. dev[d] \in Device
    BY DEF IInv
  <2> QED BY <1>1, <2>1, CallsKeepType, BecomesType
<1>3. ~InFlight'
  BY <1>1 DEF InFlight, Devices
<1> QED BY <1>1, <1>2, <1>3 DEF IInv, Paused, Starting, Resuming, Pausing, Alone

\* Only a look at the flag that finds it clear puts a chunk in flight.
LEMMA ThreadKeeps == ASSUME IInv, Thread PROVE IInv'
<1>1. CASE Test
  BY <1>1 DEF Test, IInv, Paused, InFlight, Alone
<1>2. CASE \E d \in Devices : LockDev(d)
  <2>1. PICK d \in Devices : LockDev(d)
    BY <1>2
  <2>2. InFlight
    BY <2>1 DEF LockDev, InFlight
  <2> QED BY <2>1, <2>2 DEF LockDev, IInv, Paused, Alone
<1>3. CASE \E d \in Devices : LockReset(d)
  <2>1. PICK d \in Devices : LockReset(d)
    BY <1>3
  <2>2. ~InFlight /\ ~InFlight'
    BY <2>1 DEF LockReset, InFlight
  <2> QED BY <2>1, <2>2 DEF LockReset, IInv, Paused, Alone
<1> QED BY <1>1, <1>2, <1>3, ReadKeeps, WriteKeeps, ResetKeeps DEF Thread

\* Where handlers overlap, nothing is claimed but the types.
LEMMA CrossedKeeps ==
  ASSUME IInv, ~Alone, UNCHANGED <<crossed, isPaused, late>>, dev' \in [Devices -> Device]
  PROVE  IInv'
  BY DEF IInv, Alone

\* The handler on the thread is one of two.
LEMMA NestedCrosses ==
  ASSUME IInv, NEW t \in {"main", "mTrd"}, Alone, At(t) # <<"none">>
  PROVE  t = "main"
  BY DEF IInv, At

\* The flag: resume() is the end of Paused, pause() its beginning.
LEMMA FlagKeeps == ASSUME IInv, NEW t \in {"main", "mTrd"}, Flag(t) PROVE IInv'
<1>1. CASE ~Alone
  BY <1>1, CrossedKeeps DEF Flag, IInv
<1>2. CASE Alone
  <2>1. t = "main"
    BY <1>2, NestedCrosses DEF Flag, Begins
  <2>2. UNCHANGED <<dev, tpc, wpc, crossed, isPaused, late>> /\ mpc' = <<mpc[1], "mRec">>
        /\ (mpc = <<"pause">> \/ mpc = <<"resume">>) /\ mPauseFlag' = (mpc = <<"pause">>)
    BY <2>1 DEF Flag, Begins, At, Step
  <2>3. CASE mpc = <<"pause">>
    <3>1. mpc' = <<"pause", "mRec">> /\ mPauseFlag'
      BY <2>2, <2>3
    <3> QED BY <1>2, <2>2, <3>1 DEF IInv, Paused, Starting, Resuming, Pausing, Alone, InFlight
  <2>4. CASE mpc = <<"resume">>
    <3>1. mpc' = <<"resume", "mRec">> /\ ~isPaused
      BY <1>2, <2>2, <2>4 DEF IInv, Resuming
    <3> QED BY <1>2, <2>2, <3>1 DEF IInv, Paused, Starting, Resuming, Pausing, Alone, InFlight
  <2> QED BY <2>2, <2>3, <2>4
<1> QED BY <1>1, <1>2

\* pause() leaves the player dropped, or paused in hardware.
LEMMA PauseKeeps ==
  ASSUME IInv, NEW t \in {"main", "mTrd"},
         PauseDev(t, "mRec", <<"pause", "mPly">>) \/ PauseDev(t, "mPly", Done(t))
  PROVE  IInv'
<1>1. PICK d \in Devices :
        /\ Becomes(d, alsa_ctrl_pause(dev[d])) /\ At(t) = <<"pause", d>>
        /\ \/ d = "mRec" /\ Called(t, d, <<"pause", "mPly">>)
           \/ d = "mPly" /\ Called(t, d, Done(t))
        /\ UNCHANGED <<tpc, crossed, isPaused, mPauseFlag, late>>
  BY DEF PauseDev, Devices
<1>2. dev[d] \in Device /\ "none" \in Faults
  BY DEF IInv, Faults
<1>3. /\ dev' \in [Devices -> Device] /\ dev'["mPly"].can_pause = dev["mPly"].can_pause
      /\ d = "mPly" => dev'["mPly"] = alsa_ctrl_pause(dev["mPly"])
  BY <1>1, <1>2, CallsKeepType, BecomesType
<1>4. CASE ~Alone
  BY <1>1, <1>3, <1>4, CrossedKeeps
<1>5. CASE Alone
  <2>1. t = "main"
    BY <1>1, <1>5, NestedCrosses
  <2>2. /\ mpc = <<"pause", d>> /\ wpc' = wpc
        /\ \/ mpc' = <<"crashed">>
           \/ d = "mRec" /\ mpc' = <<"pause", "mPly">>
           \/ d = "mPly" /\ mpc' = <<"join">>
    BY <1>1, <2>1 DEF At, Called, Step, Done
  <2>3. mPauseFlag
    BY <1>5, <2>2 DEF IInv, Pausing, Devices
  <2>4. d = "mPly" /\ ~dev["mPly"].can_pause => dev'["mPly"].pcm \in Dropped
    BY <1>2, <1>3, PauseDrops
  <2> QED BY <1>1, <1>3, <1>5, <2>2, <2>3, <2>4
          DEF IInv, Paused, Starting, Resuming, Pausing, InFlight, Devices, Alone
<1> QED BY <1>4, <1>5

\* resume() works on the devices with the flag clear already.
LEMMA ResumeKeeps ==
  ASSUME IInv, NEW t \in {"main", "mTrd"},
         ResumeDev(t, "mRec", <<"resume", "mPly">>) \/ ResumeDev(t, "mPly", Done(t))
  PROVE  IInv'
<1>1. PICK d \in Devices, fault \in Faults :
        /\ Becomes(d, alsa_ctrl_resume(dev[d], fault)) /\ At(t) = <<"resume", d>>
        /\ Called(t, d, <<"resume", "mPly">>) \/ Called(t, d, Done(t))
        /\ UNCHANGED <<tpc, crossed, isPaused, mPauseFlag, late>>
  BY DEF ResumeDev, Devices
<1>2. /\ dev' \in [Devices -> Device] /\ dev'["mPly"].can_pause = dev["mPly"].can_pause
  <2>1. dev[d] \in Device
    BY DEF IInv
  <2> QED BY <1>1, <2>1, CallsKeepType, BecomesType
<1>3. CASE ~Alone
  BY <1>1, <1>2, <1>3, CrossedKeeps
<1>4. CASE Alone
  <2>1. t = "main"
    BY <1>1, <1>4, NestedCrosses
  <2>2. /\ mpc = <<"resume", d>> /\ wpc' = wpc
        /\ mpc' \in {<<"crashed">>, <<"resume", "mPly">>, <<"join">>}
    BY <1>1, <2>1 DEF At, Called, Step, Done
  <2>3. ~isPaused
    BY <1>4, <2>2 DEF IInv, Resuming, Devices
  <2> QED BY <1>1, <1>2, <1>4, <2>2, <2>3 DEF IInv, Paused, Starting, Resuming, Pausing, InFlight, Alone
<1> QED BY <1>3, <1>4

\* The signal: a handler that begins alone finds the flag as it must be.
LEMMA SignalKeeps == ASSUME IInv, NEW t \in {"main", "mTrd"}, Signal(t) PROVE IInv'
<1>1. UNCHANGED <<dev, tpc, mPauseFlag>> /\ late' = 0 /\ isPaused' \in BOOLEAN
  BY DEF Signal, Toggle
<1>2. CASE t = "mTrd" \/ wpc # <<"none">>
  BY <1>1, <1>2 DEF Signal, IInv, Alone
<1>3. CASE t = "main" /\ wpc = <<"none">>
  <2>1. wpc' = <<"none">> /\ ((mpc' = <<"resume">> /\ ~isPaused') \/ (mpc' = <<"pause">> /\ isPaused'))
    BY <1>3 DEF Signal, Toggle, Step
  <2> QED BY <1>1, <2>1 DEF IInv, Paused, Starting, Resuming, Pausing, InFlight
<1> QED BY <1>2, <1>3

\* A stream that was dropped neither overruns nor is suspended.
LEMMA FaultKeeps == ASSUME IInv, NEW d \in Devices, Overrun(d) \/ Suspend(d) PROVE IInv'
<1>1. PICK s \in {"XRUN", "SUSPENDED"} :
        dev' = [dev EXCEPT ![d].pcm = s] /\ dev[d].pcm \notin Dropped
        /\ UNCHANGED <<tpc, mpc, wpc, crossed, isPaused, mPauseFlag, late>>
  BY DEF Overrun, Suspend, Dropped
<1>2. dev[d] \in Device /\ [dev[d] EXCEPT !.pcm = s] \in Device
      /\ [dev[d] EXCEPT !.pcm = s].can_pause = dev[d].can_pause
  BY DEF IInv, Device, States
<1>3. Becomes(d, [dev[d] EXCEPT !.pcm = s])
  BY <1>1 DEF Becomes
<1>4. /\ dev' \in [Devices -> Device] /\ dev'["mPly"].can_pause = dev["mPly"].can_pause
      /\ d # "mPly" => dev'["mPly"] = dev["mPly"]
  BY <1>2, <1>3, BecomesType
<1> QED BY <1>1, <1>4 DEF IInv, Paused, InFlight, Alone

\* The inductive invariant.
LEMMA Inductive == Spec => []IInv
<1>1. Init => IInv
  <2> SUFFICES ASSUME Init PROVE IInv
    OBVIOUS
  <2>1. dev \in [Devices -> Device]
    BY DEF Init, Device, States
  <2>2. tpc = <<"none">> /\ mpc = <<"create", "mPly">> /\ wpc = <<"none">> /\ isPaused = FALSE /\ late = 0
    BY DEF Init
  <2> QED BY <2>1, <2>2 DEF IInv, Resuming, Pausing, Paused, InFlight
<1>2. IInv /\ [Next]_vars => IInv'
  <2> SUFFICES ASSUME IInv, [Next]_vars PROVE IInv'
    OBVIOUS
  <2>1. CASE Destroy \/ Publish \/ EarlySignal
    BY <2>1 DEF Destroy, Publish, EarlySignal, IInv, Starting, Resuming, Pausing, Paused, InFlight, Alone
  <2>2. CASE \E t \in {"main", "mTrd"} : Handler(t)
    BY <2>2, FlagKeeps, PauseKeeps, ResumeKeeps DEF Handler
  <2>3. CASE Main
    BY <2>1, <2>3, CreateKeeps DEF Main
  <2>4. CASE UNCHANGED vars
    BY <2>4 DEF vars, IInv, Paused, InFlight, Alone
  <2> QED BY <2>1, <2>2, <2>3, <2>4, SignalKeeps, ThreadKeeps, FaultKeeps DEF Next
<1> QED BY <1>1, <1>2, PTL DEF Spec

\* After pause() nothing is played until resume(), but for one chunk on a device that
\* pauses in hardware, however often pause() is called and whatever calls fail.
THEOREM PausedIsSilent == Spec => []SilentAfterPause
<1>1. IInv => SilentAfterPause
  BY DEF IInv, SilentAfterPause
<1> QED BY <1>1, Inductive, PTL
-----------------------------------------------------------------------------
\* A stream that was opened, and one that no call failed on.
Opened  == States \ {"NULL"}
Working == {"PREPARED", "RUNNING", "XRUN", "PAUSED", "SETUP"}

\* Only a failed open makes a handle NULL once the constructor is done.
HandleInv ==
  /\ mpc \in {<<"create", "mPly">>, <<"create", "mRec">>, <<"destroy">>} => tpc = <<"none">>
  /\ wpc # <<"none">> => tpc # <<"none">>
  /\ mpc = <<"crashed">> => openFailed \/ tpc = <<"none">>
  /\ ~openFailed =>
       /\ mpc = <<"create", "mRec">> => dev["mPly"].pcm \in Opened
       /\ tpc # <<"none">> => \A d \in Devices : dev[d].pcm \in Opened

\* Resets of d that the thread will make without another pause.
Stopped(d) == dev[d].pcm = "SETUP"
Resets(d)  == tpc \in {<<"reset", d>>, <<"open", d>>}
Owed(d)    == IF Resets(d) \/ Stopped(d) THEN 1 ELSE 0

\* Where pause() has still to stop d, and where d is not stopped.
ToPause(d) == mpc = <<"pause", "mRec">> \/ (d = "mPly" /\ mpc = <<"pause", "mPly">>)
Goes(d) ==
  \/ mpc \in {<<"create", "mPly">>, <<"create", "mRec">>, <<"publish">>, <<"pause">>}
  \/ (mpc = <<"join">> /\ ~isPaused)
  \/ d = "mRec" /\ mpc = <<"resume", "mPly">>

Calm == faults = 0 /\ Counting

\* As long as nothing fails and no handlers overlap, d is reset at most once before pause() stops it and once
\* after that, because the reset prepares it.
ResetInv ==
  /\ resets \in [Devices -> Nat] /\ faults \in Nat
  /\ \A d \in Devices : Stopped(d) => ~dev[d].can_pause
  /\ Calm =>
       /\ mpc \in Pausing \cup {<<"pause">>} => isPaused
       /\ mpc = <<"create", "mRec">> => dev["mPly"].pcm \in Working
       /\ tpc # <<"none">> => \A d \in Devices : dev[d].pcm \in Working
       /\ \A d \in Devices :
            /\ resets[d] + Owed(d) <= 2
            /\ Goes(d) => ~Stopped(d)
            /\ ToPause(d) => ~Stopped(d) /\ resets[d] + Owed(d) <= 1

\* What the calls do to a stream that was opened, and to one that no call failed on.
LEMMA CallsKeepOpen ==
  ASSUME NEW d \in Device, NEW fault \in Faults
  PROVE  /\ fault # "open" => alsa_ctrl_create(d, fault).pcm \in Opened
         /\ d.pcm \in Opened =>
              /\ fault # "open" => alsa_ctrl_reset(d, fault).pcm \in Opened
              /\ alsa_ctrl_pause(d).pcm \in Opened /\ alsa_ctrl_resume(d, fault).pcm \in Opened
              /\ Transferred(d, fault).pcm \in Opened
         /\ d.pcm \in Opened => alsa_ctrl_reset(d, fault).pcm # "crash"
<1> USE DEF Device, States, To, Opened
<1>1. fault # "open" => alsa_ctrl_create(d, fault).pcm \in Opened
  BY DEF alsa_ctrl_create, _alsa_ctrl_set_params, _alsa_ctrl_open
<1>2. d.pcm \in Opened => /\ fault # "open" => alsa_ctrl_reset(d, fault).pcm \in Opened
                          /\ alsa_ctrl_reset(d, fault).pcm # "crash"
  BY DEF alsa_ctrl_reset, _alsa_ctrl_set_params, _alsa_ctrl_open, _alsa_ctrl_close
<1>3. d.pcm \in Opened => alsa_ctrl_pause(d).pcm \in Opened
  BY DEF alsa_ctrl_pause
<1>4. d.pcm \in Opened => alsa_ctrl_resume(d, fault).pcm \in Opened
  BY DEF alsa_ctrl_resume
<1>5. d.pcm \in Opened => Transferred(d, fault).pcm \in Opened
  BY DEF Transferred
<1> QED BY <1>1, <1>2, <1>3, <1>4, <1>5

LEMMA CallsKeepWorking ==
  ASSUME NEW d \in Device
  PROVE  /\ alsa_ctrl_create(d, "none").pcm = "PREPARED"
         /\ d.pcm \in Working =>
              /\ alsa_ctrl_reset(d, "none").pcm = "PREPARED"
              /\ alsa_ctrl_pause(d).pcm \in Working
              /\ alsa_ctrl_resume(d, "none").pcm \in Working
              /\ Transferred(d, "none").pcm \in Working
              /\ ~Transfers(d, "none") => d.pcm = "SETUP"
<1> USE DEF Device, States, To, Working
<1>1. alsa_ctrl_create(d, "none").pcm = "PREPARED"
  BY DEF alsa_ctrl_create, _alsa_ctrl_set_params, _alsa_ctrl_open
<1>2. d.pcm \in Working => alsa_ctrl_reset(d, "none").pcm = "PREPARED"
  BY DEF alsa_ctrl_reset, _alsa_ctrl_set_params, _alsa_ctrl_open, _alsa_ctrl_close
<1>3. d.pcm \in Working => alsa_ctrl_pause(d).pcm \in Working
  BY DEF alsa_ctrl_pause
<1>4. d.pcm \in Working => alsa_ctrl_resume(d, "none").pcm \in Working
  BY DEF alsa_ctrl_resume
<1>5. d.pcm \in Working => Transferred(d, "none").pcm \in Working /\ (~Transfers(d, "none") => d.pcm = "SETUP")
  BY DEF Transferred, Transfers
<1> QED BY <1>1, <1>2, <1>3, <1>4, <1>5

\* Only snd_pcm_drop stops a stream, on a device that cannot pause.
LEMMA OnlyPauseStops ==
  ASSUME NEW d \in Device, NEW fault \in Faults
  PROVE  /\ alsa_ctrl_create(d, fault).pcm # "SETUP" /\ alsa_ctrl_reset(d, fault).pcm # "SETUP"
         /\ Transferred(d, fault).pcm = "SETUP" => d.pcm = "SETUP"
         /\ (d.pcm = "SETUP" => ~d.can_pause) =>
              /\ alsa_ctrl_resume(d, fault).pcm # "SETUP"
              /\ alsa_ctrl_pause(d).pcm = "SETUP" => ~d.can_pause
<1> USE DEF Device, States, To
<1>1. alsa_ctrl_create(d, fault).pcm # "SETUP"
  BY DEF alsa_ctrl_create, _alsa_ctrl_set_params, _alsa_ctrl_open
<1>2. alsa_ctrl_reset(d, fault).pcm # "SETUP"
  BY DEF alsa_ctrl_reset, _alsa_ctrl_set_params, _alsa_ctrl_open, _alsa_ctrl_close
<1>3. Transferred(d, fault).pcm = "SETUP" => d.pcm = "SETUP"
  BY DEF Transferred
<1>4. (d.pcm = "SETUP" => ~d.can_pause) => alsa_ctrl_resume(d, fault).pcm # "SETUP"
  BY DEF alsa_ctrl_resume
<1>5. (d.pcm = "SETUP" => ~d.can_pause) => (alsa_ctrl_pause(d).pcm = "SETUP" => ~d.can_pause)
  BY DEF alsa_ctrl_pause
<1> QED BY <1>1, <1>2, <1>3, <1>4, <1>5

Surviving == IInv /\ HandleInv /\ ResetInv

\* A call changes one device.
LEMMA OneDevice ==
  ASSUME IInv, NEW d \in Devices, NEW e, Becomes(d, e)
  PROVE  dev[d] \in Device /\ dev'[d] = e /\ \A c \in Devices : c # d => dev'[c] = dev[c]
  BY DEF IInv, Becomes

\* A fault is counted, and one of snd_pcm_open is remembered.
LEMMA FaultFacts ==
  ASSUME ResetInv, NEW fault, NEW F \in SUBSET Faults, Fault(fault, F)
  PROVE  /\ fault \in Faults /\ faults' \in Nat /\ (faults' = 0 => faults = 0 /\ fault = "none")
         /\ ~openFailed' => ~openFailed /\ fault # "open"
<1>1. faults \in Nat
  BY DEF ResetInv
<1>2. fault \in Faults
  BY DEF Fault, Faults
<1>3. faults' \in Nat /\ (faults' = 0 => faults = 0 /\ fault = "none")
  <2>1. CASE fault = "none"
    <3> faults' = faults + 0
      BY <2>1 DEF Fault
    <3> QED BY <1>1, <2>1
  <2>2. CASE fault # "none"
    <3> faults' = faults + 1
      BY <2>2 DEF Fault
    <3> QED BY <1>1
  <2> QED BY <2>1, <2>2
<1>4. ~openFailed' => ~openFailed /\ fault # "open"
  BY Zenon DEF Fault
<1> QED BY <1>2, <1>3, <1>4

\* A step that changes nothing of the rest leaves the calm as it was.
LEMMA CalmBefore ==
  ASSUME UNCHANGED <<padded, crossed>>, faults' = 0 => faults = 0
  PROVE  Calm' => Calm
  BY DEF Calm, Counting

\* In the calm the handler is on main.
LEMMA CalmMain ==
  ASSUME Surviving, Calm, NEW t \in {"main", "mTrd"}, At(t) # <<"none">>
  PROVE  t = "main"
  BY NestedCrosses DEF Surviving, Calm, Counting, Alone

\* A read or a write: a stream that works refuses a chunk only if it is stopped.
LEMMA TransferSurvives ==
  ASSUME Surviving, NEW d \in Devices, NEW fault, Fault(fault, {"io", "resume"}),
         Becomes(d, Transferred(dev[d], fault)), tpc = <<"io", d>>,
         tpc' \in {<<"lock", "mPly">>, <<"test">>, <<"reset", d>>},
         Transfers(dev[d], fault) /\ ~padded => tpc' # <<"reset", d>>,
         UNCHANGED <<mpc, wpc, crossed, isPaused, padded, resets>>
  PROVE  HandleInv' /\ ResetInv'
<1>1. /\ dev[d] \in Device /\ dev'[d] = Transferred(dev[d], fault)
      /\ \A c \in Devices : c # d => dev'[c] = dev[c]
  BY OneDevice DEF Surviving
<1>2. /\ fault \in Faults /\ faults' \in Nat /\ (faults' = 0 => faults = 0 /\ fault = "none")
      /\ ~openFailed' => ~openFailed
      /\ Calm' => Calm /\ ~padded /\ faults' = 0
  BY FaultFacts, CalmBefore DEF Surviving, Faults, Calm, Counting
<1>3. tpc # <<"none">> /\ tpc' # <<"none">> /\ \A c \in Devices : ~Resets(c) /\ tpc' # <<"open", c>>
  BY DEF Resets
<1>4. HandleInv'
  <2>1. mpc # <<"create", "mRec">> /\ mpc' = mpc
    BY <1>3 DEF Surviving, HandleInv
  <2>2. ASSUME ~openFailed', NEW c \in Devices PROVE dev'[c].pcm \in Opened
    BY <1>1, <1>2, <1>3, <2>2, CallsKeepOpen DEF Surviving, HandleInv
  <2> QED BY <1>2, <1>3, <2>1, <2>2 DEF Surviving, HandleInv
<1>5. \A c \in Devices : Stopped(c)' => Stopped(c) /\ ~dev'[c].can_pause
  <2> SUFFICES ASSUME NEW c \in Devices, Stopped(c)' PROVE Stopped(c) /\ ~dev'[c].can_pause
    OBVIOUS
  <2>1. CASE c = d
    BY <1>1, <1>2, <2>1, OnlyPauseStops, CallsKeepType DEF Stopped, Surviving, ResetInv
  <2>2. CASE c # d
    BY <1>1, <2>2 DEF Stopped, Surviving, ResetInv
  <2> QED BY <2>1, <2>2
<1>6. ASSUME Calm' PROVE
        /\ \A c \in Devices : dev'[c].pcm \in Working
        /\ \A c \in Devices : Owed(c)' <= Owed(c)
  <2>1. Calm /\ ~padded /\ fault = "none" /\ \A c \in Devices : dev[c].pcm \in Working
    BY <1>2, <1>3, <1>6 DEF Surviving, ResetInv
  <2>2. dev'[d].pcm \in Working /\ (tpc' = <<"reset", d>> => Stopped(d))
    BY <1>1, <2>1, CallsKeepWorking DEF Stopped
  <2>3. \A c \in Devices : dev'[c].pcm \in Working
    BY <1>1, <2>1, <2>2
  <2>4. \A c \in Devices : Resets(c)' => Stopped(c)
    BY <1>3, <2>2 DEF Resets
  <2> QED BY <1>5, <2>3, <2>4 DEF Owed
<1>7. ResetInv'
  <2>1. resets' \in [Devices -> Nat] /\ faults' \in Nat
        /\ (Calm' => (mpc' \in Pausing \cup {<<"pause">>} => isPaused'))
    BY <1>2 DEF Surviving, ResetInv
  <2>2. ASSUME Calm', NEW c \in Devices
        PROVE  /\ resets'[c] + Owed(c)' <= 2
               /\ Goes(c)' => ~Stopped(c)'
               /\ ToPause(c)' => ~Stopped(c)' /\ resets'[c] + Owed(c)' <= 1
    <3>1. Calm
      BY <1>2, <2>2
    <3>2. /\ resets[c] + Owed(c) <= 2 /\ resets[c] \in Nat
          /\ Goes(c) => ~Stopped(c)
          /\ ToPause(c) => ~Stopped(c) /\ resets[c] + Owed(c) <= 1
      BY <3>1 DEF Surviving, ResetInv
    <3>3. Owed(c)' <= Owed(c) /\ Owed(c) \in Nat /\ Owed(c)' \in Nat
      BY <1>6, <2>2 DEF Owed
    <3>4. Goes(c)' = Goes(c) /\ ToPause(c)' = ToPause(c) /\ resets' = resets
      BY DEF Goes, ToPause
    <3>5. resets'[c] = resets[c]
      BY <3>4
    <3> QED BY <1>5, <3>2, <3>3, <3>4, <3>5
  <2>3. mpc' # <<"create", "mRec">>
    BY <1>3 DEF Surviving, HandleInv
  <2> QED BY <1>5, <1>6, <2>1, <2>2, <2>3 DEF ResetInv
<1> QED BY <1>4, <1>7

LEMMA ReadSurvives == ASSUME Surviving, ReadStream PROVE HandleInv' /\ ResetInv'
<1>1. PICK fault \in Faults :
        /\ Fault(fault, {"io", "resume"}) /\ Becomes("mRec", Transferred(dev["mRec"], fault))
        /\ tpc' = IF Transfers(dev["mRec"], fault) THEN <<"lock", "mPly">> ELSE <<"reset", "mRec">>
  BY DEF ReadStream
<1>2. tpc = <<"io", "mRec">> /\ UNCHANGED <<mpc, wpc, crossed, isPaused, padded, resets>>
  BY DEF ReadStream
<1> QED BY <1>1, <1>2, TransferSurvives DEF Devices

LEMMA WriteSurvives == ASSUME Surviving, WriteStream PROVE HandleInv' /\ ResetInv'
<1>1. PICK fault \in Faults :
        /\ Fault(fault, {"io", "resume"}) /\ Becomes("mPly", Transferred(dev["mPly"], fault))
        /\ tpc' = IF Transfers(dev["mPly"], fault) /\ ~padded THEN <<"test">> ELSE <<"reset", "mPly">>
  BY DEF WriteStream
<1>2. tpc = <<"io", "mPly">> /\ UNCHANGED <<mpc, wpc, crossed, isPaused, padded, resets>>
  BY DEF WriteStream
<1> QED BY <1>1, <1>2, TransferSurvives DEF Devices

\* A reset: it is the one that was owed, and the stream is prepared after it.
LEMMA ResetSurvives == ASSUME Surviving, NEW d \in Devices, Reset(d) PROVE HandleInv' /\ ResetInv'
<1>1. PICK fault \in Faults :
        /\ Fault(fault, {"open", "params"}) /\ Becomes(d, alsa_ctrl_reset(dev[d], fault))
        /\ resets' = IF faults' = 0 /\ Counting THEN [resets EXCEPT ![d] = IF @ < 3 THEN @ + 1 ELSE @]
                     ELSE [c \in Devices |-> 0]
  BY DEF Reset
<1>2. /\ tpc = <<"open", d>> /\ tpc' = <<"test">>
      /\ mpc' = IF dev'[d].pcm = "crash" THEN <<"crashed">> ELSE mpc
      /\ UNCHANGED <<wpc, crossed, isPaused, padded>>
  BY DEF Reset
<1>3. /\ dev[d] \in Device /\ dev'[d] = alsa_ctrl_reset(dev[d], fault)
      /\ \A c \in Devices : c # d => dev'[c] = dev[c]
  BY <1>1, OneDevice DEF Surviving
<1>4. /\ faults' \in Nat /\ (faults' = 0 => faults = 0 /\ fault = "none")
      /\ ~openFailed' => ~openFailed /\ fault # "open"
      /\ Calm' => Calm /\ faults' = 0 /\ Counting
  BY <1>1, <1>2, FaultFacts, CalmBefore DEF Surviving, Faults, Calm
<1>5. tpc # <<"none">> /\ tpc' # <<"none">> /\ mpc \notin {<<"create", "mPly">>, <<"create", "mRec">>, <<"destroy">>}
  BY <1>2 DEF Surviving, HandleInv
<1>6. HandleInv'
  <2>1. ASSUME ~openFailed' PROVE mpc' = mpc /\ \A c \in Devices : dev'[c].pcm \in Opened
    <3>1. \A c \in Devices : dev[c].pcm \in Opened
      BY <1>4, <1>5, <2>1 DEF Surviving, HandleInv
    <3>2. dev'[d].pcm \in Opened /\ dev'[d].pcm # "crash"
      BY <1>3, <1>4, <2>1, <3>1, CallsKeepOpen
    <3> QED BY <1>2, <1>3, <3>1, <3>2
  <2>2. mpc' \notin {<<"create", "mPly">>, <<"create", "mRec">>, <<"destroy">>}
    BY <1>2, <1>5
  <2>3. ~openFailed' => mpc' # <<"crashed">>
    BY <1>4, <1>5, <2>1 DEF Surviving, HandleInv
  <2> QED BY <1>5, <2>1, <2>2, <2>3 DEF HandleInv
<1>7. dev'[d].pcm # "SETUP"
  BY <1>3, OnlyPauseStops
<1>8. ResetInv'
  <2>1. resets' \in [Devices -> Nat] /\ faults' \in Nat
    BY <1>1, <1>4 DEF Surviving, ResetInv
  <2>2. Calm' => (mpc' \in Pausing \cup {<<"pause">>} => isPaused')
    BY <1>2, <1>4 DEF Surviving, ResetInv, Pausing
  <2>3. \A c \in Devices : Stopped(c)' => ~dev'[c].can_pause
    BY <1>3, <1>7 DEF Surviving, ResetInv, Stopped
  <2>4. mpc' # <<"create", "mRec">>
    BY <1>2, <1>5
  <2>5. ASSUME Calm', NEW c \in Devices
        PROVE  /\ dev'[c].pcm \in Working
               /\ resets'[c] + Owed(c)' <= 2
               /\ Goes(c)' => ~Stopped(c)'
               /\ ToPause(c)' => ~Stopped(c)' /\ resets'[c] + Owed(c)' <= 1
    <3>1. Calm /\ fault = "none" /\ resets' = [resets EXCEPT ![d] = IF @ < 3 THEN @ + 1 ELSE @]
      BY <1>1, <1>4, <2>5
    <3>2. /\ resets[c] + Owed(c) <= 2 /\ resets[c] \in Nat /\ dev[c].pcm \in Working
          /\ Goes(c) => ~Stopped(c)
          /\ ToPause(c) => ~Stopped(c) /\ resets[c] + Owed(c) <= 1
      BY <1>5, <3>1 DEF Surviving, ResetInv
    <3>3. (Goes(c)' => Goes(c)) /\ (ToPause(c)' => ToPause(c))
      BY <1>2 DEF Goes, ToPause
    <3>4. CASE c = d
      <4>1. dev'[c].pcm = "PREPARED"
        BY <1>3, <3>1, <3>2, <3>4, CallsKeepWorking
      <4>2. Owed(c) = 1 /\ Owed(c)' = 0
        BY <1>2, <3>4, <4>1 DEF Owed, Resets, Stopped
      <4>3. resets'[c] = resets[c] + 1
        <5> resets[c] < 3
          BY <3>2, <4>2
        <5> QED BY <3>1, <3>4 DEF Surviving, ResetInv
      <4> QED BY <3>2, <3>3, <4>1, <4>2, <4>3 DEF Stopped, Working
    <3>5. CASE c # d
      <4>1. dev'[c] = dev[c] /\ resets'[c] = resets[c]
        BY <1>3, <3>1, <3>5 DEF Surviving, ResetInv
      <4>2. Owed(c)' = Owed(c) /\ Stopped(c)' = Stopped(c)
        BY <1>2, <3>5, <4>1 DEF Owed, Resets, Stopped
      <4> QED BY <3>2, <3>3, <4>1, <4>2
    <3> QED BY <3>4, <3>5
  <2> QED BY <2>1, <2>2, <2>3, <2>4, <2>5 DEF ResetInv
<1> QED BY <1>6, <1>8

\* The constructor: the thread starts when both devices are open.
LEMMA CreateSurvives ==
  ASSUME Surviving, Create("mPly", <<"create", "mRec">>) \/ Create("mRec", <<"publish">>)
  PROVE  HandleInv' /\ ResetInv'
<1>1. PICK d \in Devices, fault \in Faults :
        /\ mpc = <<"create", d>>
        /\ Fault(fault, {"open", "params"}) /\ Becomes(d, alsa_ctrl_create(dev[d], fault))
        /\ mpc' = IF dev'[d].pcm = "crash" THEN <<"crashed">>
                  ELSE IF fault = "params" THEN <<"destroy">>
                  ELSE IF d = "mPly" THEN <<"create", "mRec">> ELSE <<"publish">>
        /\ tpc' = IF mpc' = <<"publish">> THEN <<"test">> ELSE tpc
        /\ UNCHANGED <<wpc, crossed, isPaused, padded, resets>>
  BY DEF Create, Devices
<1>2. /\ dev[d] \in Device /\ dev'[d] = alsa_ctrl_create(dev[d], fault)
      /\ \A c \in Devices : c # d => dev'[c] = dev[c]
  BY <1>1, OneDevice DEF Surviving
<1>3. /\ faults' \in Nat /\ (faults' = 0 => faults = 0 /\ fault = "none")
      /\ ~openFailed' => ~openFailed /\ fault # "open"
      /\ Calm' => Calm /\ faults' = 0
  BY <1>1, FaultFacts, CalmBefore DEF Surviving, Faults, Calm
<1>4. tpc = <<"none">> /\ wpc = <<"none">>
  BY <1>1 DEF Surviving, HandleInv, Devices
<1>5. mpc' = <<"publish">> => d = "mRec" /\ mpc = <<"create", "mRec">>
  BY <1>1 DEF Devices
<1>6. mpc' = <<"create", "mRec">> => d = "mPly"
  BY <1>1
<1>7. HandleInv'
  <2>1. ASSUME ~openFailed' PROVE dev'[d].pcm \in Opened
    BY <1>2, <1>3, <2>1, CallsKeepOpen
  <2>2. ASSUME ~openFailed', mpc' = <<"publish">>, NEW c \in Devices PROVE dev'[c].pcm \in Opened
    <3>1. dev["mPly"].pcm \in Opened
      BY <1>3, <1>5, <2>2 DEF Surviving, HandleInv
    <3> QED BY <1>2, <1>5, <2>1, <2>2, <3>1 DEF Devices
  <2>3. (mpc' # <<"publish">> => tpc' = <<"none">>) /\ wpc' = <<"none">>
    BY <1>1, <1>4
  <2> QED BY <1>6, <2>1, <2>2, <2>3 DEF HandleInv
<1>8. dev'[d].pcm # "SETUP"
  BY <1>2, OnlyPauseStops
<1>9. ResetInv'
  <2>1. resets' \in [Devices -> Nat] /\ faults' \in Nat
    BY <1>1, <1>3 DEF Surviving, ResetInv
  <2>2. mpc' \notin Pausing \cup {<<"pause">>}
    BY <1>1 DEF Pausing
  <2>3. \A c \in Devices : Stopped(c)' => Stopped(c) /\ ~dev'[c].can_pause
    BY <1>2, <1>8 DEF Surviving, ResetInv, Stopped
  <2>4. ASSUME Calm'
        PROVE  /\ dev'[d].pcm \in Working
               /\ mpc' = <<"publish">> => \A c \in Devices : dev'[c].pcm \in Working
    <3>1. dev'[d].pcm \in Working
      BY <1>2, <1>3, <2>4, CallsKeepWorking DEF Working
    <3>2. ASSUME mpc' = <<"publish">> PROVE dev'["mPly"].pcm \in Working
      BY <1>1, <1>2, <1>3, <1>5, <2>4, <3>2 DEF Surviving, ResetInv, Devices
    <3> QED BY <1>5, <3>1, <3>2 DEF Devices
  <2>5. ASSUME Calm', NEW c \in Devices
        PROVE  /\ resets'[c] + Owed(c)' <= 2
               /\ Goes(c)' => ~Stopped(c)'
               /\ ~ToPause(c)'
    <3>1. resets[c] + Owed(c) <= 2 /\ resets[c] \in Nat
      BY <1>1, <1>3, <2>5 DEF Surviving, ResetInv
    <3>2. Owed(c)' <= Owed(c) /\ Owed(c) \in Nat /\ Owed(c)' \in Nat /\ resets'[c] = resets[c]
      BY <1>1, <1>4, <2>3 DEF Owed, Resets
    <3>3. ~ToPause(c)'
      BY <1>1 DEF ToPause
    <3>4. Goes(c)
      BY <1>1 DEF Goes, Devices
    <3>5. ~Stopped(c)'
      BY <1>1, <1>3, <2>3, <2>5, <3>4 DEF Surviving, ResetInv
    <3> QED BY <3>1, <3>2, <3>3, <3>5
  <2>6. tpc' # <<"none">> => mpc' = <<"publish">>
    BY <1>1, <1>4
  <2> QED BY <1>6, <2>1, <2>2, <2>3, <2>4, <2>5, <2>6 DEF ResetInv
<1> QED BY <1>7, <1>9

\* A step that makes no call.
LEMMA QuietSurvives ==
  ASSUME Surviving, UNCHANGED <<dev, padded, faults, openFailed, resets>>,
         Calm' => Calm, wpc' # <<"none">> => tpc' # <<"none">>,
         \/ tpc' = tpc
         \/ tpc # <<"none">> /\ tpc' # <<"none">> /\ \A c \in Devices : Resets(c)' => Resets(c),
         mpc' \in {<<"create", "mPly">>, <<"create", "mRec">>, <<"destroy">>} => mpc' = mpc,
         mpc' = <<"crashed">> => mpc' = mpc \/ (tpc = <<"none">> /\ tpc' = tpc),
         Calm' => (mpc' \in Pausing \cup {<<"pause">>} => isPaused'),
         Calm' => \A c \in Devices : (Goes(c)' => Goes(c)) /\ (ToPause(c)' => ToPause(c))
  PROVE  HandleInv' /\ ResetInv'
<1>1. HandleInv'
  BY DEF Surviving, HandleInv
<1>2. \A c \in Devices : Stopped(c)' = Stopped(c) /\ Owed(c)' <= Owed(c) /\ Owed(c) \in Nat /\ Owed(c)' \in Nat
  <2> SUFFICES ASSUME NEW c \in Devices
               PROVE  Stopped(c)' = Stopped(c) /\ Owed(c)' <= Owed(c) /\ Owed(c) \in Nat /\ Owed(c)' \in Nat
    OBVIOUS
  <2>1. Stopped(c)' = Stopped(c)
    BY DEF Stopped
  <2>2. Resets(c)' => Resets(c)
    BY DEF Resets
  <2> QED BY <2>1, <2>2 DEF Owed
<1>3. /\ resets' \in [Devices -> Nat] /\ faults' \in Nat
      /\ \A c \in Devices : Stopped(c)' => ~dev'[c].can_pause
  BY <1>2 DEF Surviving, ResetInv
<1>4. ASSUME Calm', NEW c \in Devices
      PROVE  /\ tpc' # <<"none">> => dev'[c].pcm \in Working
             /\ mpc' = <<"create", "mRec">> => dev'["mPly"].pcm \in Working
             /\ resets'[c] + Owed(c)' <= 2
             /\ Goes(c)' => ~Stopped(c)'
             /\ ToPause(c)' => ~Stopped(c)' /\ resets'[c] + Owed(c)' <= 1
  <2>1. /\ tpc # <<"none">> => dev[c].pcm \in Working
        /\ mpc = <<"create", "mRec">> => dev["mPly"].pcm \in Working
        /\ resets[c] + Owed(c) <= 2 /\ resets[c] \in Nat
        /\ Goes(c) => ~Stopped(c)
        /\ ToPause(c) => ~Stopped(c) /\ resets[c] + Owed(c) <= 1
    BY <1>4 DEF Surviving, ResetInv
  <2>2. resets'[c] = resets[c] /\ dev' = dev
    OBVIOUS
  <2>3. (tpc' # <<"none">> => tpc # <<"none">>) /\ (mpc' = <<"create", "mRec">> => mpc = <<"create", "mRec">>)
    OBVIOUS
  <2>4. (Goes(c)' => Goes(c)) /\ (ToPause(c)' => ToPause(c))
    BY <1>4
  <2> QED BY <1>2, <2>1, <2>2, <2>3, <2>4
<1>5. ResetInv'
  BY <1>3, <1>4 DEF ResetInv, Devices
<1> QED BY <1>1, <1>5

\* pause(): every stream goes, so none of the resets to come was owed before.
LEMMA FlagSurvives ==
  ASSUME Surviving, NEW t \in {"main", "mTrd"}, Flag(t)
  PROVE  HandleInv' /\ ResetInv'
<1>1. /\ UNCHANGED <<dev, padded, faults, openFailed, crossed, tpc, isPaused>>
      /\ Begins(At(t)) /\ Step(t, <<At(t)[1], "mRec">>)
      /\ resets' = IF At(t) = <<"pause">> THEN [d \in Devices |-> 0] ELSE resets
  BY DEF Flag
<1>2. /\ mpc' \in {mpc, <<"pause", "mRec">>, <<"resume", "mRec">>}
      /\ wpc' # <<"none">> => wpc # <<"none">>
  BY <1>1 DEF Begins, At, Step
<1>3. HandleInv'
  BY <1>1, <1>2 DEF Surviving, HandleInv
<1>4. resets' \in [Devices -> Nat] /\ faults' \in Nat /\ (Calm' => Calm)
  BY <1>1, CalmBefore DEF Surviving, ResetInv
<1>5. \A c \in Devices : (Stopped(c)' => ~dev'[c].can_pause) /\ Stopped(c)' = Stopped(c)
  BY <1>1 DEF Surviving, ResetInv, Stopped
<1>6. ASSUME Calm' PROVE t = "main" /\ wpc' = wpc /\ mpc' = <<mpc[1], "mRec">> /\ mpc = At(t) /\ Begins(mpc)
  <2>1. t = "main"
    BY <1>1, <1>4, <1>6, CalmMain DEF Begins
  <2> QED BY <1>1, <2>1 DEF At, Step
<1>7. CASE ~Calm'
  BY <1>3, <1>4, <1>5, <1>7 DEF ResetInv
<1>8. CASE Calm' /\ mpc = <<"resume">>
  <2>1. mpc' = <<"resume", "mRec">> /\ resets' = resets /\ wpc' = wpc /\ UNCHANGED <<dev, padded, faults, openFailed, tpc>>
    BY <1>1, <1>6, <1>8
  <2>2. wpc' # <<"none">> => tpc' # <<"none">>
    BY <2>1 DEF Surviving, HandleInv
  <2> QED BY <1>4, <2>1, <2>2, QuietSurvives DEF Pausing, Goes, ToPause
<1>9. CASE Calm' /\ mpc = <<"pause">>
  <2>1. mpc' = <<"pause", "mRec">> /\ resets' = [d \in Devices |-> 0] /\ isPaused' /\ Calm
    BY <1>1, <1>4, <1>6, <1>9 DEF Surviving, ResetInv
  <2>2. ASSUME NEW c \in Devices
        PROVE  /\ tpc' # <<"none">> => dev'[c].pcm \in Working
               /\ ~Stopped(c)' /\ resets'[c] + Owed(c)' <= 1 /\ resets'[c] + Owed(c)' <= 2 /\ ~Goes(c)'
    <3>1. ~Stopped(c) /\ (tpc # <<"none">> => dev[c].pcm \in Working)
      BY <1>9, <2>1 DEF Surviving, ResetInv, Goes
    <3>2. resets'[c] = 0 /\ Owed(c)' \in {0, 1}
      BY <2>1 DEF Owed
    <3>3. ~Goes(c)'
      BY <2>1 DEF Goes
    <3> QED BY <1>1, <1>5, <3>1, <3>2, <3>3
  <2> QED BY <1>3, <1>4, <1>5, <2>1, <2>2 DEF ResetInv
<1> QED BY <1>6, <1>7, <1>8, <1>9 DEF Begins

\* pause() stops a stream that went.
LEMMA PauseSurvives ==
  ASSUME Surviving, NEW t \in {"main", "mTrd"},
         PauseDev(t, "mRec", <<"pause", "mPly">>) \/ PauseDev(t, "mPly", Done(t))
  PROVE  HandleInv' /\ ResetInv'
<1>1. PICK d \in Devices :
        /\ At(t) = <<"pause", d>> /\ Becomes(d, alsa_ctrl_pause(dev[d]))
        /\ Called(t, d, IF d = "mRec" THEN <<"pause", "mPly">> ELSE Done(t))
        /\ UNCHANGED <<padded, tpc, crossed, isPaused, faults, openFailed, resets>>
  BY DEF PauseDev, Devices
<1>2. /\ dev[d] \in Device /\ dev'[d] = alsa_ctrl_pause(dev[d])
      /\ \A c \in Devices : c # d => dev'[c] = dev[c]
  BY <1>1, OneDevice DEF Surviving
<1>3. "none" \in Faults
  BY DEF Faults
<1>4. /\ dev'[d].pcm # "crash" => mpc' \in {mpc, <<"pause", "mPly">>, <<"join">>}
      /\ dev'[d].pcm = "crash" => mpc' = <<"crashed">>
      /\ wpc' # <<"none">> => wpc # <<"none">>
  BY <1>1 DEF Called, At, Step, Done
<1>5. HandleInv'
  <2>1. ASSUME ~openFailed', tpc' # <<"none">>
        PROVE  dev'[d].pcm # "crash" /\ \A c \in Devices : dev'[c].pcm \in Opened
    <3>1. \A c \in Devices : dev[c].pcm \in Opened
      BY <1>1, <2>1 DEF Surviving, HandleInv
    <3>2. dev'[d].pcm \in Opened
      BY <1>2, <1>3, <3>1, CallsKeepOpen
    <3>3. dev'[d].pcm # "crash"
      BY <3>2 DEF Opened, States
    <3> QED BY <1>2, <3>1, <3>2, <3>3
  <2>2. mpc' = <<"create", "mRec">> => mpc = <<"create", "mRec">> /\ tpc = <<"none">> /\ wpc = <<"none">>
    BY <1>4 DEF Surviving, HandleInv
  <2>3. mpc # <<"create", "mRec">>
    BY <1>1, <2>2 DEF Surviving, HandleInv, At
  <2> QED BY <1>1, <1>4, <2>1, <2>2, <2>3 DEF Surviving, HandleInv
<1>6. \A c \in Devices : Stopped(c)' => ~dev'[c].can_pause
  <2>1. Stopped(d)' => ~dev'[d].can_pause
    BY <1>2, <1>3, OnlyPauseStops, CallsKeepType DEF Surviving, ResetInv, Stopped
  <2> QED BY <1>2, <2>1 DEF Surviving, ResetInv, Stopped
<1>7. Calm' => Calm
  BY <1>1, CalmBefore
<1>8. ASSUME Calm'
      PROVE  /\ mpc = <<"pause", d>> /\ isPaused /\ isPaused'
             /\ mpc' \in {<<"crashed">>, IF d = "mRec" THEN <<"pause", "mPly">> ELSE <<"join">>}
  <2>1. t = "main" /\ Calm
    BY <1>1, <1>7, <1>8, CalmMain
  <2>2. mpc = <<"pause", d>>
    BY <1>1, <2>1 DEF At
  <2>3. isPaused
    BY <2>1, <2>2 DEF Surviving, ResetInv, Pausing, Devices
  <2> QED BY <1>1, <2>1, <2>2, <2>3 DEF Called, Step, Done
<1>9. ASSUME Calm', NEW c \in Devices
      PROVE  /\ tpc' # <<"none">> => dev'[c].pcm \in Working
             /\ resets'[c] + Owed(c)' <= 2 /\ ~Goes(c)'
             /\ ToPause(c)' => ~Stopped(c)' /\ resets'[c] + Owed(c)' <= 1
  <2>1. /\ resets[c] + Owed(c) <= 2 /\ resets[c] \in Nat
        /\ tpc # <<"none">> => dev[c].pcm \in Working
        /\ ToPause(c) => ~Stopped(c) /\ resets[c] + Owed(c) <= 1
    BY <1>7, <1>9 DEF Surviving, ResetInv
  <2>2. ~Goes(c)'
    BY <1>8, <1>9 DEF Goes
  <2>3. resets'[c] = resets[c] /\ tpc' = tpc /\ Owed(c) \in {0, 1} /\ Owed(c)' \in {0, 1}
    BY <1>1 DEF Owed
  <2>4. CASE c = d
    <3>1. ToPause(c) /\ ~ToPause(c)'
      BY <1>8, <1>9, <2>4 DEF ToPause, Devices
    <3>2. tpc' # <<"none">> => dev'[c].pcm \in Working
      BY <1>2, <2>1, <2>3, <2>4, CallsKeepWorking
    <3>3. resets[c] <= 1
      BY <2>1, <2>3, <3>1
    <3> QED BY <2>1, <2>2, <2>3, <3>1, <3>2, <3>3
  <2>5. CASE c # d
    <3>1. dev'[c] = dev[c] /\ Stopped(c)' = Stopped(c) /\ Owed(c)' = Owed(c)
      BY <1>1, <1>2, <2>5 DEF Stopped, Owed, Resets
    <3>2. ToPause(c)' => ToPause(c)
      BY <1>8, <1>9, <2>5 DEF ToPause, Devices
    <3> QED BY <2>1, <2>2, <2>3, <3>1, <3>2
  <2> QED BY <2>4, <2>5
<1>10. resets' \in [Devices -> Nat] /\ faults' \in Nat /\ (Calm' => mpc' # <<"create", "mRec">>)
  BY <1>1, <1>8 DEF Surviving, ResetInv
<1> QED BY <1>5, <1>6, <1>8, <1>9, <1>10 DEF ResetInv

\* resume() prepares a stream that was stopped.
LEMMA ResumeSurvives ==
  ASSUME Surviving, NEW t \in {"main", "mTrd"},
         ResumeDev(t, "mRec", <<"resume", "mPly">>) \/ ResumeDev(t, "mPly", Done(t))
  PROVE  HandleInv' /\ ResetInv'
<1>1. PICK d \in Devices, fault \in Faults :
        /\ At(t) = <<"resume", d>> /\ Fault(fault, {"resume"}) /\ Becomes(d, alsa_ctrl_resume(dev[d], fault))
        /\ Called(t, d, IF d = "mRec" THEN <<"resume", "mPly">> ELSE Done(t))
        /\ UNCHANGED <<padded, tpc, crossed, isPaused, resets>>
  BY DEF ResumeDev, Devices
<1>2. /\ dev[d] \in Device /\ dev'[d] = alsa_ctrl_resume(dev[d], fault)
      /\ \A c \in Devices : c # d => dev'[c] = dev[c]
  BY <1>1, OneDevice DEF Surviving
<1>3. /\ faults' \in Nat /\ (faults' = 0 => faults = 0 /\ fault = "none")
      /\ ~openFailed' => ~openFailed
      /\ Calm' => Calm /\ faults' = 0
  BY <1>1, FaultFacts, CalmBefore DEF Surviving, Faults, Calm
<1>4. HandleInv'
  <2>1. ASSUME ~openFailed', tpc' # <<"none">>
        PROVE  dev'[d].pcm # "crash" /\ \A c \in Devices : dev'[c].pcm \in Opened
    <3>1. \A c \in Devices : dev[c].pcm \in Opened
      BY <1>1, <1>3, <2>1 DEF Surviving, HandleInv
    <3>2. dev'[d].pcm \in Opened
      BY <1>2, <3>1, CallsKeepOpen
    <3>3. dev'[d].pcm # "crash"
      BY <3>2 DEF Opened, States
    <3> QED BY <1>2, <3>1, <3>2, <3>3
  <2>2. /\ dev'[d].pcm # "crash" => mpc' \in {mpc, <<"resume", "mPly">>, <<"join">>}
        /\ dev'[d].pcm = "crash" => mpc' = <<"crashed">>
        /\ wpc' # <<"none">> => wpc # <<"none">>
    BY <1>1 DEF Called, At, Step, Done
  <2>3. mpc # <<"create", "mRec">>
    BY <1>1 DEF Surviving, HandleInv, At
  <2> QED BY <1>1, <1>3, <2>1, <2>2, <2>3 DEF Surviving, HandleInv
<1>5. ~Stopped(d)'
  BY <1>2, OnlyPauseStops DEF Surviving, ResetInv, Stopped
<1>6. \A c \in Devices : Stopped(c)' => Stopped(c) /\ ~dev'[c].can_pause
  BY <1>2, <1>5 DEF Surviving, ResetInv, Stopped
<1>7. ASSUME Calm', NEW c \in Devices
      PROVE  /\ tpc' # <<"none">> => dev'[c].pcm \in Working
             /\ resets'[c] + Owed(c)' <= 2 /\ ~ToPause(c)'
             /\ Goes(c)' => ~Stopped(c)'
  <2>1. /\ resets[c] + Owed(c) <= 2 /\ resets[c] \in Nat
        /\ tpc # <<"none">> => dev[c].pcm \in Working
        /\ Goes(c) => ~Stopped(c)
    BY <1>3, <1>7 DEF Surviving, ResetInv
  <2> t = "main"
    BY <1>1, <1>3, <1>7, CalmMain
  <2> mpc = <<"resume", d>> /\ mpc' \in {<<"crashed">>, IF d = "mRec" THEN <<"resume", "mPly">> ELSE <<"join">>}
    BY <1>1 DEF At, Called, Step, Done
  <2>2. /\ ~ToPause(c)' /\ resets'[c] = resets[c] /\ tpc' = tpc
        /\ Owed(c) \in Nat /\ Owed(c)' \in Nat /\ Owed(c)' <= Owed(c)
    BY <1>1, <1>6 DEF Owed, Resets, ToPause
  <2>3. tpc' # <<"none">> => dev'[c].pcm \in Working
    BY <1>2, <1>3, <1>7, <2>1, <2>2, CallsKeepWorking
  <2>4. Goes(c)' => ~Stopped(c)'
    <3>1. CASE c = d
      BY <1>5, <3>1
    <3>2. CASE c # d
      <4>1. Goes(c)' => Goes(c)
        BY <1>1, <3>2 DEF Goes, Devices
      <4> QED BY <1>6, <2>1, <4>1
    <3> QED BY <3>1, <3>2
  <2> QED BY <2>1, <2>2, <2>3, <2>4
<1>8. resets' \in [Devices -> Nat] /\ faults' \in Nat
  BY <1>1, <1>3 DEF Surviving, ResetInv
<1>9. ASSUME Calm' PROVE mpc' \notin {<<"create", "mRec">>, <<"pause">>} \cup Pausing
  <2>1. t = "main"
    BY <1>1, <1>3, <1>9, CalmMain
  <2> QED BY <1>1, <2>1 DEF Called, Step, Done, Pausing
<1> QED BY <1>4, <1>6, <1>7, <1>8, <1>9 DEF ResetInv

\* A stream that is left alone is mended by the next read or write.
LEMMA OverrunSurvives ==
  ASSUME Surviving, NEW d \in Devices, Overrun(d) \/ Suspend(d)
  PROVE  HandleInv' /\ ResetInv'
<1>1. PICK s \in {"XRUN", "SUSPENDED"} :
        /\ dev' = [dev EXCEPT ![d].pcm = s] /\ dev[d].pcm \in {"PREPARED", "RUNNING", "PAUSED"}
        /\ faults' \in Nat /\ (faults' = 0 => faults = 0 /\ s = "XRUN")
        /\ UNCHANGED <<padded, tpc, mpc, wpc, crossed, isPaused, openFailed, resets>>
  <2>1. CASE Overrun(d)
    BY <2>1 DEF Overrun, Surviving, ResetInv
  <2>2. CASE Suspend(d)
    <3>1. faults' \in Nat /\ faults' # 0
      BY <2>2 DEF Suspend, Surviving, ResetInv
    <3> QED BY <2>2, <3>1 DEF Suspend
  <2> QED BY <2>1, <2>2
<1>2. /\ dev'[d].pcm = s /\ \A c \in Devices : c # d => dev'[c] = dev[c]
  BY <1>1 DEF Surviving, IInv, Device
<1>3. HandleInv'
  <2>1. \A c \in Devices : dev[c].pcm \in Opened => dev'[c].pcm \in Opened
    BY <1>2 DEF Opened, States
  <2> QED BY <1>1, <2>1 DEF Surviving, HandleInv, Devices
<1>4. \A c \in Devices : Stopped(c)' => Stopped(c) /\ dev'[c] = dev[c]
  BY <1>2 DEF Stopped
<1>5. \A c \in Devices : Owed(c)' <= Owed(c) /\ Owed(c) \in Nat /\ Owed(c)' \in Nat
  BY <1>1, <1>4 DEF Owed, Resets
<1>6. ASSUME Calm', NEW c \in Devices
      PROVE  /\ dev[c].pcm \in Working => dev'[c].pcm \in Working
             /\ resets'[c] + Owed(c)' <= 2
             /\ Goes(c)' => ~Stopped(c)'
             /\ ToPause(c)' => ~Stopped(c)' /\ resets'[c] + Owed(c)' <= 1
  <2>1. /\ resets[c] + Owed(c) <= 2 /\ resets[c] \in Nat
        /\ Goes(c) => ~Stopped(c)
        /\ ToPause(c) => ~Stopped(c) /\ resets[c] + Owed(c) <= 1
    BY <1>1, <1>6, CalmBefore DEF Surviving, ResetInv
  <2>2. Goes(c)' = Goes(c) /\ ToPause(c)' = ToPause(c) /\ resets'[c] = resets[c]
    BY <1>1 DEF Goes, ToPause
  <2>3. dev[c].pcm \in Working => dev'[c].pcm \in Working
    BY <1>1, <1>2, <1>6 DEF Working, Calm
  <2> QED BY <1>4, <1>5, <2>1, <2>2, <2>3
<1>7. /\ resets' \in [Devices -> Nat] /\ faults' \in Nat
      /\ Calm' => (mpc' \in Pausing \cup {<<"pause">>} => isPaused')
      /\ \A c \in Devices : Stopped(c)' => ~dev'[c].can_pause
  BY <1>1, <1>4, CalmBefore DEF Surviving, ResetInv
<1>8. ASSUME Calm'
      PROVE  /\ mpc' = <<"create", "mRec">> => dev'["mPly"].pcm \in Working
             /\ tpc' # <<"none">> => \A c \in Devices : dev'[c].pcm \in Working
  BY <1>1, <1>6, <1>8, CalmBefore DEF Surviving, ResetInv, Devices
<1> QED BY <1>3, <1>6, <1>7, <1>8 DEF ResetInv

\* The signal: in the calm it comes to main, outside the handler.
LEMMA SignalSurvives ==
  ASSUME Surviving, NEW t \in {"main", "mTrd"}, Signal(t)
  PROVE  HandleInv' /\ ResetInv'
<1>1. /\ UNCHANGED <<dev, padded, faults, openFailed, resets, tpc>>
      /\ mpc' \in {mpc, <<"pause">>, <<"resume">>}
      /\ wpc' # <<"none">> => wpc # <<"none">> \/ tpc # <<"none">>
      /\ mpc' # mpc => mpc = <<"join">>
  BY DEF Signal, Toggle, Step
<1>2. ASSUME Calm'
      PROVE  /\ Calm /\ mpc = <<"join">> /\ mpc' = (IF isPaused THEN <<"resume">> ELSE <<"pause">>)
             /\ isPaused' = ~isPaused
  <2>1. t = "main" /\ wpc = <<"none">> /\ crossed = "never"
    BY <1>2 DEF Signal, Calm, Counting
  <2>2. ~Begins(<<"none">>)
    BY DEF Begins
  <2>3. mpc = <<"join">> /\ \E seen \in {isPaused} : isPaused' = ~seen /\ mpc' = (IF seen THEN <<"resume">> ELSE <<"pause">>)
    BY <2>1, <2>2 DEF Signal, Toggle, Step
  <2>4. Calm
    BY <1>1, <1>2, <2>1 DEF Calm, Counting
  <2> QED BY <2>3, <2>4
<1>3. ASSUME Calm' PROVE mpc' \in Pausing \cup {<<"pause">>} => isPaused'
  <2>1. CASE isPaused
    <3> mpc' = <<"resume">>
      BY <1>2, <1>3, <2>1
    <3> QED BY DEF Pausing
  <2>2. CASE ~isPaused
    BY <1>2, <1>3, <2>2
  <2> QED BY <2>1, <2>2
<1>4. ASSUME Calm' PROVE \A c \in Devices : (Goes(c)' => Goes(c)) /\ (ToPause(c)' => ToPause(c))
  BY <1>2, <1>4 DEF Goes, ToPause
<1>5. wpc' # <<"none">> => tpc' # <<"none">>
  BY <1>1 DEF Surviving, HandleInv
<1>6. /\ mpc' \in {<<"create", "mPly">>, <<"create", "mRec">>, <<"destroy">>} => mpc' = mpc
      /\ mpc' = <<"crashed">> => mpc' = mpc
  BY <1>1
<1> QED BY <1>1, <1>2, <1>3, <1>4, <1>5, <1>6, QuietSurvives

\* Failing reads, writes, parameters and resumes are survived, in whatever order two
\* handlers take their steps, and a reset does not call for the next one: with no fault
\* and no overlap a device is reset at most twice from one pause() to the next, wherever
\* the thread is when pause() and resume() come.
THEOREM FaultsSurvived == Spec => []ErrorsSurvived
<1>1. Init => HandleInv /\ ResetInv
  <2> SUFFICES ASSUME Init PROVE HandleInv /\ ResetInv
    OBVIOUS
  <2>1. /\ tpc = <<"none">> /\ wpc = <<"none">> /\ mpc = <<"create", "mPly">> /\ faults = 0
        /\ resets = [d \in Devices |-> 0] /\ \A d \in Devices : dev[d].pcm = "NULL"
    BY DEF Init
  <2>2. \A d \in Devices : ~Stopped(d) /\ Owed(d) = 0 /\ ~ToPause(d) /\ resets[d] = 0
    BY <2>1 DEF Stopped, Owed, Resets, ToPause
  <2>3. resets \in [Devices -> Nat]
    BY <2>1
  <2> QED BY <2>1, <2>2, <2>3 DEF HandleInv, ResetInv, Pausing
<1>2. Surviving /\ [Next]_vars => HandleInv' /\ ResetInv'
  <2> SUFFICES ASSUME Surviving, [Next]_vars PROVE HandleInv' /\ ResetInv'
    OBVIOUS
  <2>1. CASE Test \/ \E d \in Devices : LockDev(d) \/ LockReset(d)
    <3>1. /\ tpc # <<"none">> /\ tpc' # <<"none">> /\ \A c \in Devices : Resets(c)' => Resets(c)
          /\ UNCHANGED <<dev, padded, faults, openFailed, resets, mpc, wpc, crossed, isPaused>>
      BY <2>1 DEF Test, LockDev, LockReset, Resets
    <3>2. Calm' => Calm /\ (mpc' \in Pausing \cup {<<"pause">>} => isPaused')
      BY <3>1, CalmBefore DEF Surviving, ResetInv
    <3>3. \A c \in Devices : (Goes(c)' => Goes(c)) /\ (ToPause(c)' => ToPause(c))
      BY <3>1 DEF Goes, ToPause
    <3> QED BY <3>1, <3>2, <3>3, QuietSurvives
  <2>2. CASE Destroy
    <3>1. /\ tpc = <<"none">> /\ tpc' = tpc /\ wpc' = <<"none">> /\ mpc' = <<"crashed">>
          /\ UNCHANGED <<dev, padded, faults, openFailed, resets, isPaused, crossed>>
      BY <2>2 DEF Destroy, Surviving, HandleInv
    <3> QED BY <3>1, CalmBefore, QuietSurvives DEF Pausing, Goes, ToPause
  <2>3. CASE Publish \/ EarlySignal
    <3>1. /\ mpc = <<"publish">> \/ mpc' = <<"early">>
          /\ mpc' \in {<<"join">>, <<"early">>}
          /\ UNCHANGED <<dev, padded, faults, openFailed, resets, isPaused, tpc, wpc, crossed>>
      BY <2>3 DEF Publish, EarlySignal
    <3>2. (wpc' # <<"none">> => tpc' # <<"none">>) /\ (Calm' => Calm)
      BY <3>1, CalmBefore DEF Surviving, HandleInv
    <3> QED BY <3>1, <3>2, QuietSurvives DEF Pausing, Goes, ToPause
  <2>4. CASE \E t \in {"main", "mTrd"} : Signal(t)
    BY <2>4, SignalSurvives
  <2>5. CASE UNCHANGED vars
    BY <2>5, CalmBefore, QuietSurvives DEF vars, Surviving, HandleInv, ResetInv, Goes, ToPause
  <2>6. CASE \E t \in {"main", "mTrd"} : Handler(t)
    BY <2>6, FlagSurvives, PauseSurvives, ResumeSurvives DEF Handler
  <2>7. CASE Main
    BY <2>2, <2>3, <2>7, CreateSurvives DEF Main
  <2>8. CASE Thread
    BY <2>1, <2>8, ReadSurvives, WriteSurvives, ResetSurvives DEF Thread
  <2> QED BY <2>3, <2>4, <2>5, <2>6, <2>7, <2>8, OverrunSurvives DEF Next
<1>3. HandleInv /\ ResetInv => ErrorsSurvived
  <2> SUFFICES ASSUME HandleInv, ResetInv PROVE ErrorsSurvived
    OBVIOUS
  <2>1. ASSUME faults = 0, Counting, NEW d \in Devices PROVE resets[d] <= 2
    <3>1. resets[d] + Owed(d) <= 2 /\ resets[d] \in Nat /\ Owed(d) \in {0, 1}
      BY <2>1 DEF ResetInv, Calm, Owed
    <3> QED BY <3>1
  <2> QED BY <2>1 DEF HandleInv, ErrorsSurvived
<1>4. IInv /\ HandleInv /\ ResetInv => Surviving
  BY DEF Surviving
<1> QED BY <1>1, <1>2, <1>3, <1>4, Inductive, PTL DEF Spec
-----------------------------------------------------------------------------
\* pkgSort: the packages listed, and the calls of up_active_list.
Listed      == {active_list[k] : k \in 1 .. Len(active_list)}
SearchFrame == [pkg : Pkgs, next : Nat \ {0}, un_list : SUBSET Pkgs]

\* Every call is for a dependency of the one above, and no package is under way twice.
Chain(D, s) ==
  \A k \in 1 .. Len(s) - 1 : \E d \in 1 .. Len(D[s[k].pkg]) : D[s[k].pkg][d] = s[k + 1].pkg

Apart(s) == \A j, k \in 1 .. Len(s) : s[j].pkg = s[k].pkg => j = k

\* un_list holds the calls above, and nothing but what is listed or under way; what a
\* call has passed over is in one of both.
Barred(s, A) ==
  \A k \in 1 .. Len(s) :
    /\ \A j \in 1 .. k : s[j].pkg \in s[k].un_list
    /\ \A x \in s[k].un_list : x \in A \/ \E j \in 1 .. Len(s) : j <= k + 1 /\ s[j].pkg = x

Passed(D, s, A) ==
  \A k \in 1 .. Len(s) : \A d \in 1 .. Len(D[s[k].pkg]) :
    d < s[k].next => D[s[k].pkg][d] \in s[k].un_list \cup A

Searched(D, s, A) == Chain(D, s) /\ Apart(s) /\ Barred(s, A) /\ Passed(D, s, A)

\* The dependencies of a listed package are listed or under way, and so is what was
\* asked for, unless it is still to come.
Closed(D, s, A) ==
  \A p \in A : \A d \in 1 .. Len(D[p]) :
    D[p][d] \in A \/ \E j \in 1 .. Len(s) : s[j].pkg = D[p][d]

Kept(a, l, s, A) ==
  \A k \in 1 .. Len(a) :
    \/ a[k] \in A \/ \E j \in 1 .. Len(l) : l[j] = a[k]
    \/ \E j \in 1 .. Len(s) : j = 1 /\ s[j].pkg = a[k]

\* What the three steps of up_active_list do to the calls.
GoesOn(D, A, s, t) ==
  \E n \in Nat \ {0} : \E d \in 1 .. Len(D[s[n].pkg]) :
    /\ n = Len(s) /\ d = s[n].next /\ D[s[n].pkg][d] \in s[n].un_list \cup A
    /\ Len(t) = n /\ \A k \in 1 .. n - 1 : t[k] = s[k]
    /\ t[n].pkg = s[n].pkg /\ t[n].next = d + 1 /\ t[n].un_list = s[n].un_list

GoesDown(D, A, s, t) ==
  \E n \in Nat \ {0} : \E d \in 1 .. Len(D[s[n].pkg]) : \E x \in Pkgs :
    /\ n = Len(s) /\ d = s[n].next /\ x = D[s[n].pkg][d] /\ x \notin s[n].un_list /\ x \notin A
    /\ Len(t) = n + 1 /\ \A k \in 1 .. n - 1 : t[k] = s[k]
    /\ t[n].pkg = s[n].pkg /\ t[n].next = d + 1 /\ t[n].un_list = s[n].un_list \cup {x}
    /\ t[n + 1].pkg = x /\ t[n + 1].next = 1 /\ t[n + 1].un_list = s[n].un_list \cup {x}

Over(D, s) == ~(s[Len(s)].next <= Len(D[s[Len(s)].pkg]))

ComesBack(D, A, s, t, A2) ==
  \E n \in Nat \ {0} :
    /\ n = Len(s) /\ Over(D, s) /\ A2 = A \cup {s[n].pkg}
    /\ Len(t) = n - 1 /\ \A k \in 1 .. n - 1 : t[k] = s[k]

\* The innermost call goes on to its next dependency.
LEMMA CallGoesOn ==
  ASSUME NEW D \in [Pkgs -> Seq(Pkgs)], NEW A \in SUBSET Pkgs, NEW s \in Seq(SearchFrame),
         NEW t \in Seq(SearchFrame), Searched(D, s, A), GoesOn(D, A, s, t)
  PROVE  Searched(D, t, A)
<1>0. PICK n \in Nat \ {0}, d \in Nat :
        /\ d \in 1 .. Len(D[s[n].pkg]) /\ n = Len(s) /\ d = s[n].next
        /\ D[s[n].pkg][d] \in s[n].un_list \cup A
        /\ Len(t) = n /\ \A k \in 1 .. n - 1 : t[k] = s[k]
        /\ t[n].pkg = s[n].pkg /\ t[n].next = d + 1 /\ t[n].un_list = s[n].un_list
  BY DEF GoesOn
<1> USE <1>0
<1>1. \A k \in 1 .. n : t[k].pkg = s[k].pkg /\ t[k].un_list = s[k].un_list
  <2> SUFFICES ASSUME NEW k \in 1 .. n
               PROVE  t[k].pkg = s[k].pkg /\ t[k].un_list = s[k].un_list
    OBVIOUS
  <2>1. k \in 1 .. n - 1 \/ k = n
    OBVIOUS
  <2> QED BY <2>1
<1>2. Chain(D, t)
  <2> SUFFICES ASSUME NEW k \in 1 .. n - 1
               PROVE  \E e \in 1 .. Len(D[t[k].pkg]) : D[t[k].pkg][e] = t[k + 1].pkg
    BY DEF Chain
  <2>1. k \in 1 .. n /\ k + 1 \in 1 .. n
    OBVIOUS
  <2>2. \E e \in 1 .. Len(D[s[k].pkg]) : D[s[k].pkg][e] = s[k + 1].pkg
    BY DEF Searched, Chain
  <2> QED BY <1>1, <2>1, <2>2
<1>3. Apart(t)
  BY <1>1 DEF Searched, Apart
<1>5. Barred(t, A)
  <2>1. /\ \A k \in 1 .. n : \A j \in 1 .. k : s[j].pkg \in s[k].un_list
        /\ \A k \in 1 .. n : \A x \in s[k].un_list :
             x \in A \/ \E j \in 1 .. n : j <= k + 1 /\ s[j].pkg = x
    BY DEF Searched, Barred
  <2>2. \A k \in 1 .. n : \A j \in 1 .. k : j \in 1 .. n
    OBVIOUS
  <2>3. /\ \A k \in 1 .. n : \A j \in 1 .. k : t[j].pkg \in t[k].un_list
        /\ \A k \in 1 .. n : \A x \in t[k].un_list :
             x \in A \/ \E j \in 1 .. n : j <= k + 1 /\ t[j].pkg = x
    <3> SUFFICES ASSUME NEW k \in 1 .. n
                 PROVE  /\ \A j \in 1 .. k : t[j].pkg \in t[k].un_list
                        /\ \A x \in t[k].un_list :
                             x \in A \/ \E j \in 1 .. n : j <= k + 1 /\ t[j].pkg = x
      OBVIOUS
    <3>1. t[k].un_list = s[k].un_list
      BY <1>1
    <3>2. ASSUME NEW j \in 1 .. k PROVE t[j].pkg \in t[k].un_list
      <4> j \in 1 .. n /\ s[j].pkg \in s[k].un_list
        BY <2>1, <2>2
      <4> QED BY <1>1, <3>1
    <3>3. ASSUME NEW x \in t[k].un_list, x \notin A
          PROVE  \E j \in 1 .. n : j <= k + 1 /\ t[j].pkg = x
      <4> PICK j \in 1 .. n : j <= k + 1 /\ s[j].pkg = x
        BY <2>1, <3>1, <3>3
      <4> QED BY <1>1
    <3> QED BY <3>2, <3>3
  <2> QED BY <2>3 DEF Barred
<1>4. Passed(D, t, A)
  <2> SUFFICES ASSUME NEW k \in 1 .. n, NEW e \in 1 .. Len(D[t[k].pkg]), e < t[k].next
               PROVE  D[t[k].pkg][e] \in t[k].un_list \cup A
    BY DEF Passed
  <2>1. e \in 1 .. Len(D[s[k].pkg]) /\ t[k].pkg = s[k].pkg /\ t[k].un_list = s[k].un_list
    BY <1>1
  <2>2. CASE k = n
    <3>1. e < d + 1
      BY <2>2
    <3>2. e = d \/ e < d
      BY ONLY <3>1, e \in 1 .. Len(D[t[k].pkg]), d \in 1 .. Len(D[s[n].pkg])
    <3>3. e < s[k].next => D[s[k].pkg][e] \in s[k].un_list \cup A
      BY <2>1 DEF Searched, Passed
    <3> QED BY <2>1, <2>2, <3>2, <3>3
  <2>3. CASE k # n
    <3>1. t[k] = s[k]
      <4> k \in 1 .. n - 1
        BY ONLY <2>3, k \in 1 .. n, n \in Nat \ {0}
      <4> QED OBVIOUS
    <3> QED BY <2>1, <3>1 DEF Searched, Passed
  <2> QED BY <2>2, <2>3
<1> QED BY <1>2, <1>3, <1>4, <1>5 DEF Searched

\* A call for a dependency that is neither listed nor in un_list.
LEMMA CallGoesDown ==
  ASSUME NEW D \in [Pkgs -> Seq(Pkgs)], NEW A \in SUBSET Pkgs, NEW s \in Seq(SearchFrame),
         NEW t \in Seq(SearchFrame), Searched(D, s, A), GoesDown(D, A, s, t)
  PROVE  Searched(D, t, A)
<1>0. PICK n \in Nat \ {0} : \E d \in 1 .. Len(D[s[n].pkg]) : \E x \in Pkgs :
        /\ n = Len(s) /\ d = s[n].next /\ x = D[s[n].pkg][d] /\ x \notin s[n].un_list /\ x \notin A
        /\ Len(t) = n + 1 /\ \A k \in 1 .. n - 1 : t[k] = s[k]
        /\ t[n].pkg = s[n].pkg /\ t[n].next = d + 1 /\ t[n].un_list = s[n].un_list \cup {x}
        /\ t[n + 1].pkg = x /\ t[n + 1].next = 1 /\ t[n + 1].un_list = s[n].un_list \cup {x}
  BY Zenon DEF GoesDown
<1>9. PICK d \in 1 .. Len(D[s[n].pkg]), x \in Pkgs :
        /\ n = Len(s) /\ d = s[n].next
        /\ x = D[s[n].pkg][d] /\ x \notin s[n].un_list /\ x \notin A
        /\ Len(t) = n + 1 /\ \A k \in 1 .. n - 1 : t[k] = s[k]
        /\ t[n].pkg = s[n].pkg /\ t[n].next = d + 1 /\ t[n].un_list = s[n].un_list \cup {x}
        /\ t[n + 1].pkg = x /\ t[n + 1].next = 1 /\ t[n + 1].un_list = s[n].un_list \cup {x}
  BY <1>0, Zenon
<1> USE <1>9
<1>1. \A k \in 1 .. n : t[k].pkg = s[k].pkg
  <2> SUFFICES ASSUME NEW k \in 1 .. n PROVE t[k].pkg = s[k].pkg
    OBVIOUS
  <2>1. k \in 1 .. n - 1 \/ k = n
    OBVIOUS
  <2> QED BY <2>1
<1>2. \A k \in 1 .. n + 1 : k \in 1 .. n - 1 \/ k = n \/ k = n + 1
  BY ONLY n \in Nat \ {0}
<1>3. \A j \in 1 .. n : s[j].pkg \in s[n].un_list
  BY DEF Searched, Barred
<1>4. Chain(D, t)
  <2> SUFFICES ASSUME NEW k \in 1 .. n
               PROVE  \E e \in 1 .. Len(D[t[k].pkg]) : D[t[k].pkg][e] = t[k + 1].pkg
    BY DEF Chain
  <2>1. CASE k = n
    BY <1>1, <2>1
  <2>2. CASE k # n
    <3>1. k \in 1 .. Len(s) - 1 /\ k + 1 \in 1 .. n
      BY <2>2
    <3>2. \E e \in 1 .. Len(D[s[k].pkg]) : D[s[k].pkg][e] = s[k + 1].pkg
      BY <3>1 DEF Searched, Chain
    <3> QED BY <1>1, <3>1, <3>2
  <2> QED BY <2>1, <2>2
<1>5. Apart(t)
  <2>1. \A j \in 1 .. n : t[j].pkg # x
    BY <1>1, <1>3
  <2> SUFFICES ASSUME NEW j \in 1 .. n + 1, NEW k \in 1 .. n + 1, t[j].pkg = t[k].pkg PROVE j = k
    BY DEF Apart
  <2>2. CASE j \in 1 .. n /\ k \in 1 .. n
    BY <1>1, <2>2 DEF Searched, Apart
  <2>3. CASE j = n + 1 \/ k = n + 1
    BY <2>1, <2>3
  <2> QED BY <2>2, <2>3
<1>6. Barred(t, A)
  <2> SUFFICES ASSUME NEW k \in 1 .. n + 1
               PROVE  /\ \A j \in 1 .. k : t[j].pkg \in t[k].un_list
                      /\ \A y \in t[k].un_list :
                           y \in A \/ \E j \in 1 .. n + 1 : j <= k + 1 /\ t[j].pkg = y
    BY DEF Barred
  <2>1. \A m \in 1 .. n : \A y \in s[m].un_list : y \in A \/ \E j \in 1 .. n : j <= m + 1 /\ s[j].pkg = y
    BY DEF Searched, Barred
  <2>2. \A m \in 1 .. n : \A j \in 1 .. m : s[j].pkg \in s[m].un_list
    BY DEF Searched, Barred
  <2>3. CASE k \in 1 .. n - 1
    <3>1. t[k] = s[k] /\ k \in 1 .. n
      BY <2>3
    <3>2. \A j \in 1 .. k : t[j].pkg = s[j].pkg
      BY <1>1, <3>1
    <3>3. ASSUME NEW y \in s[k].un_list, y \notin A PROVE \E j \in 1 .. n + 1 : j <= k + 1 /\ t[j].pkg = y
      <4> PICK j \in 1 .. n : j <= k + 1 /\ s[j].pkg = y
        BY <2>1, <3>1, <3>3
      <4> j \in 1 .. n + 1 /\ t[j].pkg = y
        BY <1>1
      <4> QED OBVIOUS
    <3> QED BY <2>2, <3>1, <3>2, <3>3
  <2>4. CASE k \in {n, n + 1}
    <3>1. t[k].un_list = s[n].un_list \cup {x}
      BY <2>4
    <3>2. ASSUME NEW j \in 1 .. k PROVE t[j].pkg \in t[k].un_list
      <4>1. CASE j \in 1 .. n
        BY <1>1, <1>3, <3>1, <4>1
      <4>2. CASE j = n + 1
        BY <3>1, <4>2
      <4> QED BY <2>4, <4>1, <4>2
    <3>3. ASSUME NEW y \in s[n].un_list, y \notin A PROVE \E j \in 1 .. n + 1 : j <= k + 1 /\ t[j].pkg = y
      <4>1. n \in 1 .. n
        OBVIOUS
      <4> PICK j \in 1 .. n : j <= n + 1 /\ s[j].pkg = y
        BY <2>1, <3>3, <4>1
      <4> j \in 1 .. n + 1 /\ t[j].pkg = y /\ j <= k + 1
        BY <1>1, <2>4
      <4> QED OBVIOUS
    <3>4. \E j \in 1 .. n + 1 : j <= k + 1 /\ t[j].pkg = x
      <4> n + 1 \in 1 .. n + 1 /\ n + 1 <= k + 1
        BY <2>4
      <4> QED OBVIOUS
    <3> QED BY <3>1, <3>2, <3>3, <3>4
  <2> QED BY <1>2, <2>3, <2>4
<1>7. Passed(D, t, A)
  <2> SUFFICES ASSUME NEW k \in 1 .. n + 1, NEW e \in 1 .. Len(D[t[k].pkg]), e < t[k].next
               PROVE  D[t[k].pkg][e] \in t[k].un_list \cup A
    BY DEF Passed
  <2>1. CASE k = n + 1
    BY <2>1
  <2>2. CASE k = n
    <3>1. e < d + 1 /\ e \in 1 .. Len(D[s[n].pkg])
      BY <2>2
    <3>2. e = d \/ e < d
      BY ONLY <3>1, d \in 1 .. Len(D[s[n].pkg])
    <3>3. e < d => D[s[n].pkg][e] \in s[n].un_list \cup A
      <4> n \in 1 .. Len(s)
        OBVIOUS
      <4> QED BY <3>1 DEF Searched, Passed
    <3> QED BY <2>2, <3>2, <3>3
  <2>3. CASE k \in 1 .. n - 1
    <3>1. t[k] = s[k] /\ k \in 1 .. n
      BY <2>3
    <3> QED BY <3>1 DEF Searched, Passed
  <2> QED BY <1>2, <2>1, <2>2, <2>3
<1> QED BY <1>4, <1>5, <1>6, <1>7 DEF Searched

\* A call whose dependencies are all passed over: each of them is listed or under way.
Met(D, s, A, p) == \A d \in 1 .. Len(D[p]) : D[p][d] \in A \/ \E j \in 1 .. Len(s) : s[j].pkg = D[p][d]

\* The innermost call over, what it needs is met.
LEMMA AllPassed ==
  ASSUME NEW D \in [Pkgs -> Seq(Pkgs)], NEW A \in SUBSET Pkgs, NEW s \in Seq(SearchFrame),
         s # <<>>, Over(D, s), Searched(D, s, A)
  PROVE  Met(D, s, A, s[Len(s)].pkg)
<1> DEFINE n == Len(s)
<1>0. n \in Nat \ {0}
  BY EmptySeq
<1> SUFFICES ASSUME NEW d \in 1 .. Len(D[s[n].pkg])
             PROVE  D[s[n].pkg][d] \in A \/ \E j \in 1 .. Len(s) : s[j].pkg = D[s[n].pkg][d]
  BY DEF Met
<1>1. s[n].next \in Nat /\ D[s[n].pkg] \in Seq(Pkgs) /\ n \in 1 .. n
  <2> s[n] \in SearchFrame
    BY <1>0, ElementOfSeq
  <2> QED BY <1>0 DEF SearchFrame
<1>2. d < s[n].next
  <2> Len(D[s[n].pkg]) \in Nat
    BY <1>1, LenProperties
  <2> QED BY <1>1 DEF Over
<1>3. D[s[n].pkg][d] \in s[n].un_list \cup A
  BY <1>1, <1>2 DEF Searched, Passed
<1>4. \A x \in s[n].un_list : x \in A \/ \E j \in 1 .. Len(s) : s[j].pkg = x
  BY <1>1 DEF Searched, Barred
<1> QED BY <1>3, <1>4

\* The call ends and its package is listed.
LEMMA CallReturns ==
  ASSUME NEW D \in [Pkgs -> Seq(Pkgs)], NEW A \in SUBSET Pkgs, NEW s \in Seq(SearchFrame),
         NEW t \in Seq(SearchFrame), NEW A2 \in SUBSET Pkgs,
         Searched(D, s, A), Closed(D, s, A), ComesBack(D, A, s, t, A2)
  PROVE  Searched(D, t, A2) /\ Closed(D, t, A2)
<1>0. PICK n \in Nat \ {0} :
        /\ n = Len(s) /\ Over(D, s) /\ A2 = A \cup {s[n].pkg}
        /\ Len(t) = n - 1 /\ \A k \in 1 .. n - 1 : t[k] = s[k]
  BY DEF ComesBack
<1> USE <1>0
<1>1. \A k \in 1 .. n - 1 : k \in 1 .. n
  OBVIOUS
<1>2. Chain(D, t)
  <2> SUFFICES ASSUME NEW k \in 1 .. (n - 1) - 1
               PROVE  \E e \in 1 .. Len(D[t[k].pkg]) : D[t[k].pkg][e] = t[k + 1].pkg
    BY DEF Chain
  <2>1. k \in 1 .. n - 1 /\ k + 1 \in 1 .. n - 1
    OBVIOUS
  <2>2. \E e \in 1 .. Len(D[s[k].pkg]) : D[s[k].pkg][e] = s[k + 1].pkg
    BY <2>1 DEF Searched, Chain
  <2> QED BY <2>1, <2>2
<1>3. Apart(t)
  <2> SUFFICES ASSUME NEW j \in 1 .. n - 1, NEW k \in 1 .. n - 1, t[j].pkg = t[k].pkg PROVE j = k
    BY DEF Apart
  <2> QED BY <1>1 DEF Searched, Apart
<1>4. ASSUME NEW j \in 1 .. n PROVE s[j].pkg \in A2 \/ \E m \in 1 .. n - 1 : m = j /\ t[m].pkg = s[j].pkg
  <2>1. CASE j = n
    BY <2>1
  <2>2. CASE j # n
    BY <2>2
  <2> QED BY <2>1, <2>2
<1>5. Barred(t, A2)
  <2> DEFINE m == n - 1
             Open(k) == /\ \A j \in 1 .. k : t[j].pkg \in t[k].un_list
                        /\ \A y \in t[k].un_list :
                             y \in A2 \/ \E j \in 1 .. m : j <= k + 1 /\ t[j].pkg = y
  <2> SUFFICES ASSUME NEW k \in 1 .. m PROVE Open(k)
    <3> m = Len(t)
      OBVIOUS
    <3> HIDE DEF m
    <3> QED BY DEF Barred
  <2>1. t[k] = s[k] /\ k \in 1 .. n /\ k \in 1 .. n - 1
    BY <1>1
  <2>2. \A j \in 1 .. k : t[j] = s[j] /\ s[j].pkg \in s[k].un_list
    BY <2>1 DEF Searched, Barred
  <2>3. ASSUME NEW y \in s[k].un_list, y \notin A2 PROVE \E j \in 1 .. n - 1 : j <= k + 1 /\ t[j].pkg = y
    <3> PICK j \in 1 .. n : j <= k + 1 /\ s[j].pkg = y
      BY <2>1, <2>3 DEF Searched, Barred
    <3> QED BY <1>4, <2>3
  <2> QED BY <2>1, <2>2, <2>3
<1>6. Passed(D, t, A2)
  <2> SUFFICES ASSUME NEW k \in 1 .. n - 1, NEW e \in 1 .. Len(D[t[k].pkg]), e < t[k].next
               PROVE  D[t[k].pkg][e] \in t[k].un_list \cup A2
    BY DEF Passed
  <2> t[k] = s[k] /\ k \in 1 .. n
    BY <1>1
  <2> QED BY DEF Searched, Passed
<1>8. \A d \in 1 .. Len(D[s[n].pkg]) :
        D[s[n].pkg][d] \in A \/ \E j \in 1 .. n : s[j].pkg = D[s[n].pkg][d]
  <2>1. s # <<>> /\ Over(D, s)
    BY EmptySeq
  <2>2. Met(D, s, A, s[Len(s)].pkg)
    BY <2>1, AllPassed
  <2> QED BY <2>2 DEF Met
<1>7. Closed(D, t, A2)
  <2> SUFFICES ASSUME NEW p \in A2, NEW d \in 1 .. Len(D[p]), D[p][d] \notin A2
               PROVE  \E j \in 1 .. n - 1 : t[j].pkg = D[p][d]
    BY DEF Closed
  <2>1. D[p][d] \in A \/ \E j \in 1 .. n : s[j].pkg = D[p][d]
    <3>1. CASE p \in A
      BY <3>1 DEF Closed
    <3>2. CASE p = s[n].pkg
      <4>1. d \in 1 .. Len(D[s[n].pkg])
        BY <3>2
      <4>2. D[s[n].pkg][d] \in A \/ \E j \in 1 .. n : s[j].pkg = D[s[n].pkg][d]
        BY <4>1, <1>8
      <4> QED BY <3>2, <4>2
    <3> QED BY <3>1, <3>2
  <2> QED BY <1>4, <2>1
<1> QED BY <1>2, <1>3, <1>5, <1>6, <1>7 DEF Searched

\* main starts with a package.
LEMMA SearchStarts ==
  ASSUME NEW D \in [Pkgs -> Seq(Pkgs)], NEW A \in SUBSET Pkgs, NEW t \in Seq(SearchFrame),
         Len(t) = 1, t[1].next = 1, t[1].un_list = {t[1].pkg}
  PROVE  Searched(D, t, A)
<1>1. \A k \in 1 .. Len(t) : k = 1
  OBVIOUS
<1>2. Chain(D, t)
  BY DEF Chain
<1>3. Apart(t)
  BY <1>1 DEF Apart
<1>4. Barred(t, A)
  <2> SUFFICES ASSUME NEW k \in 1 .. Len(t)
               PROVE  /\ \A j \in 1 .. k : t[j].pkg \in t[k].un_list
                      /\ \A y \in t[k].un_list :
                           y \in A \/ \E j \in 1 .. Len(t) : j <= k + 1 /\ t[j].pkg = y
    BY DEF Barred
  <2>1. k = 1 /\ 1 \in 1 .. Len(t) /\ 1 <= k + 1 /\ \A j \in 1 .. k : j = 1
    BY <1>1
  <2> QED BY <2>1
<1>5. Passed(D, t, A)
  <2> SUFFICES ASSUME NEW k \in 1 .. Len(t), NEW e \in 1 .. Len(D[t[k].pkg]), e < t[k].next
               PROVE  FALSE
    BY DEF Passed
  <2> QED BY <1>1
<1> QED BY <1>2, <1>3, <1>4, <1>5 DEF Searched
-----------------------------------------------------------------------------
\* The order of the list, for a given graph.
Needed(D, p, q) == \E d \in 1 .. Len(D[p]) : D[p][d] = q

Leads(D, p, q) ==
  \E n \in 2 .. Cardinality(Pkgs) + 1 : \E path \in [1 .. n -> Pkgs] :
    path[1] = p /\ path[n] = q /\ \A k \in 1 .. n - 1 : Needed(D, path[k], path[k + 1])

InOrder(D, l) ==
  \A k \in 1 .. Len(l) :
    /\ \A m \in 1 .. Len(l) : l[m] = l[k] => m = k
    /\ \A q \in Pkgs : Needed(D, l[k], q) /\ ~Leads(D, q, l[k]) => \E m \in 1 .. k - 1 : l[m] = q

\* Whatever is under way leads to the innermost package: there are no more calls than
\* packages.
LEMMA CallsLeadDown ==
  ASSUME NEW D \in [Pkgs -> Seq(Pkgs)], NEW A \in SUBSET Pkgs, NEW s \in Seq(SearchFrame),
         IsFiniteSet(Pkgs), Searched(D, s, A), NEW j \in 1 .. Len(s), j < Len(s)
  PROVE  Leads(D, s[j].pkg, s[Len(s)].pkg)
<1> DEFINE N == Len(s)
           c == Cardinality(Pkgs)
           f == [k \in 1 .. N |-> s[k].pkg]
<1>1. N \in Nat /\ \A k \in 1 .. N : s[k].pkg \in Pkgs
  <2> \A k \in 1 .. N : s[k] \in SearchFrame
    BY ElementOfSeq
  <2> QED BY LenProperties DEF SearchFrame
<1>2. c \in Nat
  BY FS_CardinalityType
<1>3. N <= c
  <2>1. f \in [1 .. N -> Pkgs]
    BY <1>1
  <2>2. \A k, m \in 1 .. N : f[k] = f[m] => k = m
    BY DEF Searched, Apart
  <2>3. f \in Injection(1 .. N, Pkgs)
    BY <2>1, <2>2 DEF Injection, IsInjective
  <2>4. Cardinality(1 .. N) <= Cardinality(Pkgs)
    BY <2>3, FS_Injection
  <2>5. Cardinality(1 .. N) = N
    <3>1. Cardinality(1 .. N) = IF 1 > N THEN 0 ELSE (N - 1) + 1
      BY <1>1, FS_Interval
    <3> QED BY <1>1, <3>1
  <2> QED BY <2>4, <2>5
<1> DEFINE n == (N - j) + 1
           path == [k \in 1 .. n |-> s[(j + k) - 1].pkg]
<1>4. n \in 2 .. c + 1
  BY <1>1, <1>2, <1>3
<1>5. \A k \in 1 .. n : (j + k) - 1 \in 1 .. N /\ path[k] = s[(j + k) - 1].pkg
  BY <1>1
<1>6. path \in [1 .. n -> Pkgs]
  BY <1>1, <1>5
<1>7. path[1] = s[j].pkg /\ path[n] = s[N].pkg
  <2>1. 1 \in 1 .. n /\ n \in 1 .. n /\ (j + 1) - 1 = j /\ (j + n) - 1 = N
    BY <1>1, <1>4
  <2> QED BY <1>5, <2>1
<1>8. ASSUME NEW k \in 1 .. n - 1 PROVE Needed(D, path[k], path[k + 1])
  <2>1. k \in 1 .. n /\ k + 1 \in 1 .. n /\ (j + (k + 1)) - 1 = ((j + k) - 1) + 1
        /\ (j + k) - 1 \in 1 .. N - 1
    BY <1>1, <1>4
  <2> DEFINE m == (j + k) - 1
  <2>2. path[k] = s[m].pkg /\ path[k + 1] = s[m + 1].pkg
    BY <1>5, <2>1
  <2>3. m \in 1 .. N - 1
    BY <2>1
  <2> HIDE DEF m, path
  <2>4. \E d \in 1 .. Len(D[s[m].pkg]) : D[s[m].pkg][d] = s[m + 1].pkg
    BY <2>3 DEF Searched, Chain
  <2> QED BY <2>2, <2>4 DEF Needed
<1> HIDE DEF path, n, c
<1> QED BY <1>4, <1>6, <1>7, <1>8 DEF Leads, c

\* A package that depends on itself.
LEMMA LeadsToItself ==
  ASSUME NEW D, NEW p \in Pkgs, IsFiniteSet(Pkgs), Needed(D, p, p)
  PROVE  Leads(D, p, p)
<1> DEFINE c == Cardinality(Pkgs)
           path == [k \in 1 .. 2 |-> p]
<1>1. c \in Nat /\ c # 0
  BY FS_CardinalityType, FS_EmptySet
<1>2. 2 \in 2 .. c + 1
  BY <1>1
<1>3. path \in [1 .. 2 -> Pkgs] /\ path[1] = p /\ path[2] = p
  OBVIOUS
<1>4. \A k \in 1 .. 2 - 1 : path[k] = p /\ path[k + 1] = p
  OBVIOUS
<1> HIDE DEF path, c
<1> QED BY <1>2, <1>3, <1>4 DEF Leads, c

\* A package that is finished is listed behind what it needs.
LEMMA ListedBehind ==
  ASSUME NEW D \in [Pkgs -> Seq(Pkgs)], NEW l \in Seq(Pkgs), NEW A \in SUBSET Pkgs,
         A = {l[k] : k \in 1 .. Len(l)}, NEW s \in Seq(SearchFrame), s # <<>>,
         IsFiniteSet(Pkgs), Over(D, s), Searched(D, s, A), InOrder(D, l),
         NEW p \in Pkgs, p = s[Len(s)].pkg, p \notin A, NEW r, r = Append(l, p)
  PROVE  InOrder(D, r)
<1> DEFINE n == Len(l)
<1>1. n \in Nat /\ Len(r) = n + 1 /\ (\A k \in 1 .. n : r[k] = l[k]) /\ r[n + 1] = p
  BY AppendProperties, LenProperties
<1>2. Len(s) \in Nat \ {0}
  BY EmptySeq
<1>3. Met(D, s, A, p)
  BY AllPassed
<1>4. ASSUME NEW q \in Pkgs, Needed(D, p, q), ~Leads(D, q, p) PROVE \E m \in 1 .. n : l[m] = q
  <2>1. q \in A \/ \E j \in 1 .. Len(s) : s[j].pkg = q
    BY <1>3, <1>4 DEF Needed, Met
  <2>2. ASSUME NEW j \in 1 .. Len(s), s[j].pkg = q PROVE FALSE
    <3>1. CASE j < Len(s)
      BY <1>4, <2>2, <3>1, CallsLeadDown
    <3>2. CASE j = Len(s)
      BY <1>4, <2>2, <3>2, LeadsToItself
    <3> QED BY <1>2, <3>1, <3>2
  <2> QED BY <2>1, <2>2
<1>5. ASSUME NEW k \in 1 .. n + 1, NEW m \in 1 .. n + 1, r[m] = r[k] PROVE m = k
  <2>1. \A a \in 1 .. n : r[a] # p
    BY <1>1
  <2>2. CASE k \in 1 .. n /\ m \in 1 .. n
    BY <1>1, <1>5, <2>2 DEF InOrder
  <2>3. CASE k = n + 1 \/ m = n + 1
    BY <1>1, <1>5, <2>1, <2>3
  <2> QED BY <1>1, <2>2, <2>3
<1>6. ASSUME NEW k \in 1 .. n + 1, NEW q \in Pkgs, Needed(D, r[k], q), ~Leads(D, q, r[k])
      PROVE  \E m \in 1 .. k - 1 : r[m] = q
  <2>1. CASE k = n + 1
    <3> PICK m \in 1 .. n : l[m] = q
      BY <1>1, <1>4, <1>6, <2>1
    <3> QED BY <1>1, <2>1
  <2>2. CASE k \in 1 .. n
    <3> r[k] = l[k]
      BY <1>1, <2>2
    <3> PICK m \in 1 .. k - 1 : l[m] = q
      BY <1>6, <2>2 DEF InOrder
    <3> m \in 1 .. n
      BY <1>1, <2>2
    <3> QED BY <1>1
  <2> QED BY <1>1, <2>1, <2>2
<1> HIDE DEF n
<1> QED BY <1>1, <1>5, <1>6 DEF InOrder

-----------------------------------------------------------------------------
\* The innermost call goes on, and goes down.
LEMMA FrameGoesOn ==
  ASSUME NEW c \in SearchFrame, NEW d, d = [c EXCEPT !.next = @ + 1]
  PROVE  d \in SearchFrame /\ d.pkg = c.pkg /\ d.next = c.next + 1 /\ d.un_list = c.un_list
<1>1. d = [pkg |-> c.pkg, next |-> c.next + 1, un_list |-> c.un_list]
  BY DEF SearchFrame
<1>2. c.pkg \in Pkgs /\ c.next + 1 \in Nat \ {0} /\ c.un_list \in SUBSET Pkgs
  BY DEF SearchFrame
<1> QED BY ONLY <1>1, <1>2 DEF SearchFrame

Lower(c, un) == [c EXCEPT !.next = @ + 1, !.un_list = un]

\* A call that has gone down keeps its package.
LEMMA FrameGoesDown ==
  ASSUME NEW c \in SearchFrame, NEW un \in SUBSET Pkgs, NEW e, e = Lower(c, un)
  PROVE  e \in SearchFrame /\ e.pkg = c.pkg /\ e.next = c.next + 1 /\ e.un_list = un
<1> DEFINE d == [c EXCEPT !.next = @ + 1]
<1>1. d \in SearchFrame /\ d.pkg = c.pkg /\ d.next = c.next + 1
  BY FrameGoesOn
<1>2. e = [d EXCEPT !.un_list = un]
  BY DEF Lower
<1> HIDE DEF d
<1>3. e = [pkg |-> d.pkg, next |-> d.next, un_list |-> un]
  BY ONLY <1>1, <1>2 DEF SearchFrame
<1>4. d.pkg \in Pkgs /\ d.next \in Nat \ {0}
  BY ONLY <1>1 DEF SearchFrame
<1>5. e \in SearchFrame /\ e.pkg = d.pkg /\ e.next = d.next /\ e.un_list = un
  BY ONLY <1>3, <1>4, un \in SUBSET Pkgs DEF SearchFrame
<1> QED BY ONLY <1>1, <1>5

\* Only the innermost call changes.
LEMMA TopReplaced ==
  ASSUME NEW s \in Seq(SearchFrame), s # <<>>, NEW e \in SearchFrame, NEW t, t = [s EXCEPT ![Len(s)] = e]
  PROVE  /\ Len(s) \in Nat \ {0} /\ s[Len(s)] \in SearchFrame
         /\ t \in Seq(SearchFrame) /\ Len(t) = Len(s) /\ t[Len(s)] = e
         /\ \A k \in 1 .. Len(s) - 1 : t[k] = s[k]
<1> DEFINE n == Len(s)
<1>1. n \in Nat \ {0} /\ n \in 1 .. n
  BY EmptySeq
<1>2. s[n] \in SearchFrame
  BY <1>1, ElementOfSeq
<1>3. t \in Seq(SearchFrame) /\ Len(t) = n /\ \A k \in 1 .. n : t[k] = IF k = n THEN e ELSE s[k]
  BY <1>1, ExceptSeq
<1>4. \A k \in 1 .. n - 1 : k \in 1 .. n /\ k # n
  BY <1>1
<1> QED BY <1>1, <1>2, <1>3, <1>4

\* The stack after the innermost call has gone on.
LEMMA TopGoesOn ==
  ASSUME NEW s \in Seq(SearchFrame), s # <<>>, NEW t, t = [s EXCEPT ![Len(s)].next = @ + 1]
  PROVE  LET n == Len(s)
         IN  /\ n \in Nat \ {0} /\ s[n] \in SearchFrame
             /\ t \in Seq(SearchFrame) /\ Len(t) = n /\ \A k \in 1 .. n - 1 : t[k] = s[k]
             /\ t[n].pkg = s[n].pkg /\ t[n].next = s[n].next + 1 /\ t[n].un_list = s[n].un_list
<1> DEFINE n == Len(s)
           e == [s[n] EXCEPT !.next = @ + 1]
<1>1. n \in Nat \ {0} /\ n \in 1 .. n /\ s \in [1 .. n -> SearchFrame] /\ s[n] \in SearchFrame
  BY EmptySeq, LenProperties, ElementOfSeq
<1>3. t = [s EXCEPT ![n] = e]
  BY <1>1
<1>4. e = [s[n] EXCEPT !.next = @ + 1]
  OBVIOUS
<1> HIDE DEF e
<1>2. e \in SearchFrame /\ e.pkg = s[n].pkg /\ e.next = s[n].next + 1 /\ e.un_list = s[n].un_list
  BY ONLY <1>1, <1>4, FrameGoesOn
<1>5. t \in Seq(SearchFrame) /\ Len(t) = n /\ t[n] = e /\ \A k \in 1 .. n - 1 : t[k] = s[k]
  BY ONLY <1>2, <1>3, s \in Seq(SearchFrame), s # <<>>, TopReplaced
<1> QED BY <1>1, <1>2, <1>5

Below(x, un) == [pkg |-> x, next |-> 1, un_list |-> un]

Lowered(s, un) == [s EXCEPT ![Len(s)].next = @ + 1, ![Len(s)].un_list = un]

\* t is s, of which the innermost call went down.
Deeper(s, t, un, x) ==
  LET n == Len(s)
  IN  /\ n \in Nat \ {0} /\ s[n] \in SearchFrame
      /\ t \in Seq(SearchFrame) /\ Len(t) = n + 1 /\ \A k \in 1 .. n - 1 : t[k] = s[k]
      /\ t[n].pkg = s[n].pkg /\ t[n].next = s[n].next + 1 /\ t[n].un_list = un
      /\ t[n + 1].pkg = x /\ t[n + 1].next = 1 /\ t[n + 1].un_list = un

\* The stack after it has gone down into one more call.
LEMMA TopGoesDown ==
  ASSUME NEW s \in Seq(SearchFrame), s # <<>>, NEW un \in SUBSET Pkgs, NEW x \in Pkgs,
         NEW t, t = Append(Lowered(s, un), Below(x, un))
  PROVE  Deeper(s, t, un, x)
<1> DEFINE n == Len(s)
           g == Lowered(s, un)
           e == Lower(s[n], un)
           d == Below(x, un)
<1>1. n \in Nat \ {0} /\ n \in 1 .. n /\ s \in [1 .. n -> SearchFrame] /\ s[n] \in SearchFrame
  BY EmptySeq, LenProperties, ElementOfSeq
<1>3. g = [s EXCEPT ![n] = e]
  BY <1>1 DEF Lower, Lowered
<1>0. e = Lower(s[n], un)
  OBVIOUS
<1>4. d \in SearchFrame /\ d.pkg = x /\ d.next = 1 /\ d.un_list = un
  BY DEF SearchFrame, Below
<1> HIDE DEF e, d, g
<1>2. e \in SearchFrame /\ e.pkg = s[n].pkg /\ e.next = s[n].next + 1 /\ e.un_list = un
  BY ONLY <1>0, <1>1, un \in SUBSET Pkgs, FrameGoesDown
<1>5. g \in Seq(SearchFrame) /\ Len(g) = n /\ g[n] = e /\ \A k \in 1 .. n - 1 : g[k] = s[k]
  BY ONLY <1>2, <1>3, s \in Seq(SearchFrame), s # <<>>, TopReplaced
<1>6. t = Append(g, d)
  BY DEF d, g
<1>7. t \in Seq(SearchFrame) /\ Len(t) = n + 1 /\ t[n + 1] = d /\ \A k \in 1 .. n : t[k] = g[k]
  BY ONLY <1>4, <1>5, <1>6, AppendProperties
<1>8. t[n] = e /\ \A k \in 1 .. n - 1 : t[k] = s[k]
  <2> \A k \in 1 .. n - 1 : k \in 1 .. n
    BY <1>1
  <2> QED BY ONLY <1>1, <1>5, <1>7, \A k \in 1 .. n - 1 : k \in 1 .. n
<1> QED BY ONLY <1>1, <1>2, <1>4, <1>7, <1>8 DEF Deeper

\* What is listed and under way, of what type it is, and in what order.
SearchType ==
  /\ getPkgDeps \in [Pkgs -> Seq(Pkgs)] /\ asked \in Seq(Pkgs) /\ pkg_list \in Seq(Pkgs)
  /\ stack \in Seq(SearchFrame) /\ active_list \in Seq(Pkgs)

SearchInv ==
  /\ SearchType
  /\ Searched(getPkgDeps, stack, Listed) /\ Closed(getPkgDeps, stack, Listed)
  /\ Kept(asked, pkg_list, stack, Listed) /\ InOrder(getPkgDeps, active_list)

\* The model's names for the innermost call and for what is listed.
LEMMA SearchNames ==
  ASSUME SearchType
  PROVE  /\ Listed \in SUBSET Pkgs /\ P!Active = Listed
         /\ P!top = stack[Len(stack)]
         /\ P!deps = getPkgDeps[stack[Len(stack)].pkg]
         /\ P!i = getPkgDeps[stack[Len(stack)].pkg][stack[Len(stack)].next]
<1>1. DOMAIN active_list = 1 .. Len(active_list) /\ \A k \in 1 .. Len(active_list) : active_list[k] \in Pkgs
  BY LenProperties, ElementOfSeq DEF SearchType
<1>2. Listed \in SUBSET Pkgs /\ P!Active = Listed
  BY <1>1 DEF Listed, P!Active, P!ToSet
<1> QED BY <1>2 DEF P!top, P!deps, P!i, P!Last

\* Nothing is listed and no call made at the start.
LEMMA SearchInit ==
  ASSUME P!PkgAssumption, P!Init
  PROVE  SearchInv
<1>1. SearchType
  <2>1. <<>> \in Seq(Pkgs) /\ <<>> \in Seq(SearchFrame)
    BY EmptySeq
  <2>2. getPkgDeps \in [Pkgs -> Seq(Pkgs)] /\ asked \in Seq(Pkgs)
    BY DEF P!PkgAssumption, P!Init
  <2> QED BY <2>1, <2>2 DEF P!Init, SearchType
<1>2. stack = <<>> /\ Len(stack) = 0 /\ Len(active_list) = 0 /\ Listed = {} /\ pkg_list = asked
  BY EmptySeq DEF P!Init, Listed
<1>3. Searched(getPkgDeps, stack, Listed)
  BY <1>2 DEF Searched, Chain, Apart, Barred, Passed
<1>4. Closed(getPkgDeps, stack, Listed) /\ InOrder(getPkgDeps, active_list)
  BY <1>2 DEF Closed, InOrder
<1>5. Kept(asked, pkg_list, stack, Listed)
  <2> SUFFICES ASSUME NEW k \in 1 .. Len(asked)
               PROVE  \E j \in 1 .. Len(pkg_list) : pkg_list[j] = asked[k]
    BY Zenon DEF Kept
  <2> QED BY <1>2, Zenon
<1> QED BY <1>1, <1>3, <1>4, <1>5 DEF SearchInv

\* Nothing but the calls changes: what was kept is kept while the first call stays.
LEMMA StillKept ==
  ASSUME NEW a, NEW l, NEW A, NEW D, NEW s \in Seq(SearchFrame), NEW t \in Seq(SearchFrame),
         Kept(a, l, s, A), Closed(D, s, A), NEW n \in Nat, n = Len(s), Len(t) >= n,
         \A k \in 1 .. n : t[k].pkg = s[k].pkg
  PROVE  Kept(a, l, t, A) /\ Closed(D, t, A)
<1>1. \A k \in 1 .. n : k \in 1 .. Len(t)
  BY LenProperties
<1>2. Kept(a, l, t, A)
  <2> SUFFICES ASSUME NEW k \in 1 .. Len(a), a[k] \notin A, ~ \E j \in 1 .. Len(l) : l[j] = a[k]
               PROVE  \E j \in 1 .. Len(t) : j = 1 /\ t[j].pkg = a[k]
    BY DEF Kept
  <2> PICK j \in 1 .. n : j = 1 /\ s[j].pkg = a[k]
    BY DEF Kept
  <2> QED BY <1>1
<1>3. Closed(D, t, A)
  <2> SUFFICES ASSUME NEW p \in A, NEW d \in 1 .. Len(D[p]), D[p][d] \notin A
               PROVE  \E j \in 1 .. Len(t) : t[j].pkg = D[p][d]
    BY DEF Closed
  <2> PICK j \in 1 .. n : s[j].pkg = D[p][d]
    BY DEF Closed
  <2> QED BY <1>1
<1> QED BY <1>2, <1>3

\* A dependency that is listed or under way is passed over.
LEMMA SearchSkips ==
  ASSUME SearchInv, P!Skip
  PROVE  SearchInv'
<1> DEFINE n == Len(stack)
<1>1. SearchType /\ stack # <<>> /\ n \in Nat \ {0}
  BY EmptySeq DEF SearchInv, SearchType, P!Skip, P!More
<1>2. stack[n] \in SearchFrame /\ getPkgDeps[stack[n].pkg] \in Seq(Pkgs)
  <2> stack[n] \in SearchFrame
    BY <1>1, ElementOfSeq DEF SearchType
  <2> QED BY <1>1 DEF SearchFrame, SearchType
<1>3. /\ UNCHANGED <<getPkgDeps, asked, pkg_list, active_list>>
      /\ stack' = [stack EXCEPT ![n].next = @ + 1]
  BY DEF P!Skip, P!given
<1>4. LET d == stack[n].next
      IN  d \in 1 .. Len(getPkgDeps[stack[n].pkg])
          /\ getPkgDeps[stack[n].pkg][d] \in stack[n].un_list \cup Listed
  <2>1. P!top.next <= Len(P!deps) /\ (P!i \in P!top.un_list \/ P!i \in P!Active)
    BY DEF P!Skip, P!More
  <2>2. /\ P!top = stack[n] /\ P!deps = getPkgDeps[stack[n].pkg] /\ P!Active = Listed
        /\ P!i = getPkgDeps[stack[n].pkg][stack[n].next]
    BY <1>1, SearchNames
  <2>3. stack[n].next \in Nat \ {0} /\ Len(getPkgDeps[stack[n].pkg]) \in Nat
    BY <1>2, LenProperties DEF SearchFrame
  <2> QED BY <2>1, <2>2, <2>3
<1>5. /\ stack' \in Seq(SearchFrame) /\ Len(stack') = n /\ \A k \in 1 .. n - 1 : stack'[k] = stack[k]
      /\ stack'[n].pkg = stack[n].pkg /\ stack'[n].next = stack[n].next + 1
      /\ stack'[n].un_list = stack[n].un_list
  <2> stack \in Seq(SearchFrame)
    BY <1>1 DEF SearchType
  <2> QED BY <1>1, <1>3, TopGoesOn
<1>6. Listed \in SUBSET Pkgs /\ Listed' = Listed
  BY <1>1, <1>3, SearchNames DEF Listed
<1>7. SearchType'
  BY <1>1, <1>3, <1>5 DEF SearchType
<1>8. GoesOn(getPkgDeps, Listed, stack, stack')
  BY <1>1, <1>4, <1>5 DEF GoesOn
<1>9. Searched(getPkgDeps, stack', Listed)
  <2> getPkgDeps \in [Pkgs -> Seq(Pkgs)] /\ stack \in Seq(SearchFrame)
    BY <1>1 DEF SearchType
  <2> Searched(getPkgDeps, stack, Listed)
    BY DEF SearchInv
  <2> QED BY <1>5, <1>6, <1>8, CallGoesOn
<1>10. Kept(asked, pkg_list, stack', Listed) /\ Closed(getPkgDeps, stack', Listed)
  <2>1. \A k \in 1 .. n : stack'[k].pkg = stack[k].pkg
    <3> SUFFICES ASSUME NEW k \in 1 .. n PROVE stack'[k].pkg = stack[k].pkg
      OBVIOUS
    <3> k \in 1 .. n - 1 \/ k = n
      BY <1>1
    <3> QED BY <1>5
  <2>2. Len(stack') >= n /\ n \in Nat /\ stack \in Seq(SearchFrame)
    BY <1>1, <1>5 DEF SearchType
  <2> Kept(asked, pkg_list, stack, Listed) /\ Closed(getPkgDeps, stack, Listed)
    BY DEF SearchInv
  <2> QED BY <1>5, <2>1, <2>2, StillKept
<1> QED BY <1>3, <1>6, <1>7, <1>9, <1>10 DEF SearchInv

\* Any other is gone down into.
LEMMA SearchDescends ==
  ASSUME SearchInv, P!Descend
  PROVE  SearchInv'
<1> DEFINE n == Len(stack)
<1>1. SearchType /\ stack # <<>> /\ n \in Nat \ {0}
  BY EmptySeq DEF SearchInv, SearchType, P!Descend, P!More
<1>2. stack[n] \in SearchFrame /\ getPkgDeps[stack[n].pkg] \in Seq(Pkgs)
  <2> stack[n] \in SearchFrame
    BY <1>1, ElementOfSeq DEF SearchType
  <2> QED BY <1>1 DEF SearchFrame, SearchType
<1>3. UNCHANGED <<getPkgDeps, asked, pkg_list, active_list>>
  BY DEF P!Descend, P!given
<1> DEFINE d == stack[n].next
           x == getPkgDeps[stack[n].pkg][d]
           un == stack[n].un_list \cup {x}
<1>4. d \in 1 .. Len(getPkgDeps[stack[n].pkg]) /\ x \notin stack[n].un_list /\ x \notin Listed
      /\ stack' = Append(Lowered(stack, un), Below(x, un))
  <2>1. /\ P!top = stack[n] /\ P!deps = getPkgDeps[stack[n].pkg] /\ P!Active = Listed
        /\ P!i = x
    BY <1>1, SearchNames
  <2>2. P!top.next <= Len(P!deps) /\ P!i \notin P!top.un_list /\ P!i \notin P!Active
        /\ stack' = LET u == P!top.un_list \cup {P!i}
                    IN Append([stack EXCEPT ![n].next = @ + 1, ![n].un_list = u], P!Call(P!i, u))
    BY DEF P!Descend, P!More
  <2>3. stack[n].next \in Nat \ {0} /\ Len(getPkgDeps[stack[n].pkg]) \in Nat
    BY <1>2, LenProperties DEF SearchFrame
  <2> QED BY <2>1, <2>2, <2>3 DEF P!Call, Lowered, Below
<1>5. x \in Pkgs /\ un \in SUBSET Pkgs /\ stack \in Seq(SearchFrame)
  <2>1. x \in Pkgs
    BY <1>2, <1>4, ElementOfSeq
  <2> QED BY <1>1, <1>2, <2>1 DEF SearchFrame, SearchType
<1> HIDE DEF d, x, un
<1>6. /\ stack' \in Seq(SearchFrame) /\ Len(stack') = n + 1 /\ \A k \in 1 .. n - 1 : stack'[k] = stack[k]
      /\ stack'[n].pkg = stack[n].pkg /\ stack'[n].next = stack[n].next + 1
      /\ stack'[n].un_list = un
      /\ stack'[n + 1].pkg = x /\ stack'[n + 1].next = 1 /\ stack'[n + 1].un_list = un
  <2>2. stack # <<>> /\ stack' = Append(Lowered(stack, un), Below(x, un))
    BY <1>1, <1>4
  <2>3. Deeper(stack, stack', un, x)
    BY ONLY <1>5, <2>2, TopGoesDown
  <2> QED BY ONLY <2>3 DEF Deeper
<1>7. Listed \in SUBSET Pkgs /\ Listed' = Listed
  BY <1>1, <1>3, SearchNames DEF Listed
<1>8. SearchType'
  BY <1>1, <1>3, <1>6 DEF SearchType
<1>9. GoesDown(getPkgDeps, Listed, stack, stack')
  <2>1. n = Len(stack) /\ d = stack[n].next /\ x = getPkgDeps[stack[n].pkg][d]
        /\ un = stack[n].un_list \cup {x}
    BY DEF d, x, un
  <2> HIDE DEF n
  <2>2. /\ n \in Nat \ {0} /\ d \in 1 .. Len(getPkgDeps[stack[n].pkg]) /\ x \in Pkgs
        /\ n = Len(stack) /\ d = stack[n].next /\ x = getPkgDeps[stack[n].pkg][d]
        /\ x \notin stack[n].un_list /\ x \notin Listed
        /\ Len(stack') = n + 1 /\ \A k \in 1 .. n - 1 : stack'[k] = stack[k]
        /\ stack'[n].pkg = stack[n].pkg /\ stack'[n].next = d + 1
        /\ stack'[n].un_list = stack[n].un_list \cup {x}
        /\ stack'[n + 1].pkg = x /\ stack'[n + 1].next = 1
        /\ stack'[n + 1].un_list = stack[n].un_list \cup {x}
    BY <1>1, <1>4, <1>5, <1>6, <2>1
  <2> QED BY ONLY <2>2, Zenon DEF GoesDown
<1>10. Searched(getPkgDeps, stack', Listed)
  <2> getPkgDeps \in [Pkgs -> Seq(Pkgs)]
    BY <1>1 DEF SearchType
  <2> Searched(getPkgDeps, stack, Listed)
    BY DEF SearchInv
  <2> QED BY <1>5, <1>6, <1>7, <1>9, CallGoesDown
<1>11. Kept(asked, pkg_list, stack', Listed) /\ Closed(getPkgDeps, stack', Listed)
  <2>1. \A k \in 1 .. n : stack'[k].pkg = stack[k].pkg
    <3> SUFFICES ASSUME NEW k \in 1 .. n PROVE stack'[k].pkg = stack[k].pkg
      OBVIOUS
    <3> k \in 1 .. n - 1 \/ k = n
      BY <1>1
    <3> QED BY <1>6
  <2>2. Len(stack') >= n /\ n \in Nat
    BY <1>1, <1>6
  <2> Kept(asked, pkg_list, stack, Listed) /\ Closed(getPkgDeps, stack, Listed)
    BY DEF SearchInv
  <2> QED BY <1>5, <1>6, <2>1, <2>2, StillKept
<1> QED BY <1>3, <1>7, <1>8, <1>10, <1>11 DEF SearchInv

\* The next package asked for is looked at.
LEMMA SearchStartsOne ==
  ASSUME SearchInv, P!get_pkg_active_list
  PROVE  SearchInv'
<1>1. SearchType /\ stack = <<>> /\ pkg_list # <<>> /\ Len(stack) = 0
  BY EmptySeq DEF SearchInv, P!get_pkg_active_list
<1>2. UNCHANGED <<getPkgDeps, asked, active_list>> /\ pkg_list' = Tail(pkg_list)
  BY DEF P!get_pkg_active_list, P!given
<1> DEFINE p == Head(pkg_list)
           c == [pkg |-> p, next |-> 1, un_list |-> {p}]
<1>3. stack' = <<c>>
  BY DEF P!get_pkg_active_list, P!Call
<1>4. /\ p \in Pkgs /\ pkg_list' \in Seq(Pkgs) /\ Len(pkg_list) \in Nat \ {0} /\ p = pkg_list[1]
      /\ Len(pkg_list') = Len(pkg_list) - 1
      /\ \A k \in 1 .. Len(pkg_list) - 1 : pkg_list'[k] = pkg_list[k + 1]
  <2> pkg_list \in Seq(Pkgs)
    BY <1>1 DEF SearchType
  <2> QED BY <1>1, <1>2, HeadTailProperties, EmptySeq
<1>5. c \in SearchFrame /\ c.pkg = p /\ c.next = 1 /\ c.un_list = {p}
  BY <1>4 DEF SearchFrame
<1> HIDE DEF c, p
<1>6. /\ stack' \in Seq(SearchFrame) /\ Len(stack') = 1 /\ stack'[1].next = 1 /\ stack'[1].pkg = p
      /\ stack'[1].un_list = {stack'[1].pkg}
  BY <1>3, <1>5
<1>7. Listed \in SUBSET Pkgs /\ Listed' = Listed
  BY <1>1, <1>2, SearchNames DEF Listed
<1>8. SearchType'
  BY <1>1, <1>2, <1>4, <1>6 DEF SearchType
<1>9. Searched(getPkgDeps, stack', Listed)
  <2> getPkgDeps \in [Pkgs -> Seq(Pkgs)]
    BY <1>1 DEF SearchType
  <2> QED BY <1>6, <1>7, SearchStarts
<1>10. Closed(getPkgDeps, stack', Listed)
  <2> SUFFICES ASSUME NEW q \in Listed, NEW e \in 1 .. Len(getPkgDeps[q]) PROVE getPkgDeps[q][e] \in Listed
    BY DEF Closed
  <2> QED BY <1>1 DEF SearchInv, Closed
<1>11. Kept(asked, pkg_list', stack', Listed)
  <2> SUFFICES ASSUME NEW k \in 1 .. Len(asked), asked[k] \notin Listed,
                      ~ \E j \in 1 .. Len(pkg_list') : pkg_list'[j] = asked[k]
               PROVE  \E j \in 1 .. Len(stack') : j = 1 /\ stack'[j].pkg = asked[k]
    BY DEF Kept
  <2>1. \E j \in 1 .. Len(pkg_list) : pkg_list[j] = asked[k]
    BY <1>1 DEF SearchInv, Kept
  <2> PICK j \in 1 .. Len(pkg_list) : pkg_list[j] = asked[k]
    BY <2>1
  <2>2. CASE j = 1
    BY <1>4, <1>6, <2>2
  <2>3. CASE j # 1
    <3>1. j - 1 \in 1 .. Len(pkg_list) - 1 /\ (j - 1) + 1 = j
      BY <1>4, <2>3
    <3>2. pkg_list'[j - 1] = pkg_list[j]
      BY <1>4, <3>1
    <3> QED BY <1>4, <3>1, <3>2
  <2> QED BY <2>2, <2>3
<1> QED BY <1>2, <1>7, <1>8, <1>9, <1>10, <1>11 DEF SearchInv

\* A call comes back: its package is listed, behind all it needs.
LEMMA SearchReturns ==
  ASSUME IsFiniteSet(Pkgs), SearchInv, P!Return
  PROVE  SearchInv'
<1> DEFINE n == Len(stack)
           p == stack[n].pkg
<1>1. SearchType /\ stack # <<>> /\ n \in Nat \ {0} /\ stack \in Seq(SearchFrame)
      /\ active_list \in Seq(Pkgs) /\ getPkgDeps \in [Pkgs -> Seq(Pkgs)]
  BY EmptySeq DEF SearchInv, SearchType, P!Return
<1>2. stack[n] \in SearchFrame /\ p \in Pkgs
  <2> stack[n] \in SearchFrame
    BY <1>1, ElementOfSeq
  <2> QED BY DEF SearchFrame
<1>3. UNCHANGED <<getPkgDeps, asked, pkg_list>>
  BY DEF P!Return, P!given
<1>4. /\ Over(getPkgDeps, stack) /\ stack' = Front(stack)
      /\ active_list' = IF p \in Listed THEN active_list ELSE Append(active_list, p)
  <2>1. P!top = stack[n] /\ P!deps = getPkgDeps[stack[n].pkg] /\ P!Active = Listed
    BY <1>1, SearchNames
  <2>2. ~(P!top.next <= Len(P!deps)) /\ stack' = P!Front(stack)
        /\ active_list' = IF P!top.pkg \in P!Active THEN active_list ELSE Append(active_list, P!top.pkg)
    BY DEF P!Return, P!More
  <2> QED BY <2>1, <2>2 DEF Over, P!Front, Front
<1>5. /\ stack' \in Seq(SearchFrame) /\ Len(stack') = n - 1
      /\ \A k \in 1 .. n - 1 : stack'[k] = stack[k]
  BY <1>1, <1>4, FrontFacts
<1>6. Listed \in SUBSET Pkgs
  BY <1>1, SearchNames
<1>7. active_list' \in Seq(Pkgs) /\ Listed' = Listed \cup {p}
  <2>1. CASE p \in Listed
    BY <1>1, <1>4, <2>1 DEF Listed
  <2>2. CASE p \notin Listed
    <3> DEFINE m == Len(active_list)
    <3>1. /\ active_list' \in Seq(Pkgs) /\ Len(active_list') = m + 1 /\ active_list'[m + 1] = p
          /\ (\A k \in 1 .. m : active_list'[k] = active_list[k]) /\ m \in Nat
      BY <1>1, <1>2, <1>4, <2>2, AppendProperties, LenProperties
    <3>2. \A k \in 1 .. m + 1 : k \in 1 .. m \/ k = m + 1
      BY <3>1
    <3>3. m + 1 \in 1 .. m + 1 /\ \A k \in 1 .. m : k \in 1 .. m + 1
      BY <3>1
    <3>4. Listed' = {active_list'[k] : k \in 1 .. m + 1}
      BY <3>1 DEF Listed
    <3>5. Listed = {active_list[k] : k \in 1 .. m}
      BY DEF Listed
    <3> HIDE DEF m
    <3> QED BY <3>1, <3>2, <3>3, <3>4, <3>5
  <2> QED BY <2>1, <2>2
<1>8. SearchType'
  BY <1>1, <1>3, <1>5, <1>7 DEF SearchType
<1>9. ComesBack(getPkgDeps, Listed, stack, stack', Listed')
  BY <1>1, <1>4, <1>5, <1>7 DEF ComesBack
<1>10. Searched(getPkgDeps, stack', Listed') /\ Closed(getPkgDeps, stack', Listed')
  <2>1. Searched(getPkgDeps, stack, Listed) /\ Closed(getPkgDeps, stack, Listed)
    BY DEF SearchInv
  <2>2. Listed' \in SUBSET Pkgs
    BY <1>2, <1>6, <1>7
  <2> QED BY <1>1, <1>5, <1>6, <1>9, <2>1, <2>2, CallReturns
<1>11. Kept(asked, pkg_list, stack', Listed')
  <2> SUFFICES ASSUME NEW k \in 1 .. Len(asked), asked[k] \notin Listed',
                      ~ \E j \in 1 .. Len(pkg_list) : pkg_list[j] = asked[k]
               PROVE  \E j \in 1 .. Len(stack') : j = 1 /\ stack'[j].pkg = asked[k]
    BY DEF Kept
  <2>1. \E j \in 1 .. n : j = 1 /\ stack[j].pkg = asked[k]
    BY <1>7 DEF SearchInv, Kept
  <2>2. stack[1].pkg = asked[k] /\ asked[k] # stack[n].pkg
    BY <1>7, <2>1
  <2>3. n # 1 /\ 1 \in 1 .. n - 1 /\ 1 \in 1 .. Len(stack')
    BY <1>1, <1>5, <2>2
  <2> QED BY <1>5, <2>2, <2>3
<1>12. InOrder(getPkgDeps, active_list')
  <2>1. CASE p \in Listed
    BY <1>4, <2>1 DEF SearchInv
  <2>2. CASE p \notin Listed
    <3>1. active_list' = Append(active_list, p) /\ p = stack[Len(stack)].pkg
      BY <1>4, <2>2
    <3>2. Searched(getPkgDeps, stack, Listed) /\ InOrder(getPkgDeps, active_list)
      BY DEF SearchInv
    <3>3. Listed = {active_list[k] : k \in 1 .. Len(active_list)}
      BY DEF Listed
    <3> HIDE DEF p
    <3> QED BY <1>1, <1>2, <1>4, <1>6, <2>2, <3>1, <3>2, <3>3, ListedBehind
  <2> QED BY <2>1, <2>2
<1> QED BY <1>3, <1>8, <1>10, <1>11, <1>12 DEF SearchInv

\* A step of the search, or of nothing it keeps.
LEMMA SearchStep ==
  ASSUME IsFiniteSet(Pkgs), SearchInv, P!Next \/ UNCHANGED P!vars
  PROVE  SearchInv'
<1>1. CASE UNCHANGED P!vars
  <2> UNCHANGED <<getPkgDeps, asked, pkg_list, stack, active_list>>
    BY <1>1 DEF P!vars, P!given
  <2> QED BY DEF SearchInv, SearchType, Listed
<1>2. CASE P!Next
  BY <1>2, SearchSkips, SearchDescends, SearchReturns, SearchStartsOne DEF P!Next, P!up_active_list
<1> QED BY <1>1, <1>2

\* The model's order is the one of the invariant.
LEMMA SearchShows ==
  ASSUME SearchInv
  PROVE  P!ListedInOrder
<1>1. SearchType
  BY DEF SearchInv
<1>2. \A p \in Pkgs : DOMAIN getPkgDeps[p] = 1 .. Len(getPkgDeps[p])
  BY <1>1, LenProperties DEF SearchType
<1>3. \A p \in Pkgs : \A q : P!Needs(p, q) <=> Needed(getPkgDeps, p, q)
  BY <1>2 DEF P!Needs, Needed
<1>4. ASSUME NEW p, NEW q, Leads(getPkgDeps, p, q) PROVE P!Reaches(p, q)
  <2>1. PICK n \in 2 .. Cardinality(Pkgs) + 1 : \E path \in [1 .. n -> Pkgs] :
          path[1] = p /\ path[n] = q /\ \A k \in 1 .. n - 1 : Needed(getPkgDeps, path[k], path[k + 1])
    BY <1>4 DEF Leads
  <2>2. PICK path \in [1 .. n -> Pkgs] :
          path[1] = p /\ path[n] = q /\ \A k \in 1 .. n - 1 : Needed(getPkgDeps, path[k], path[k + 1])
    BY <2>1
  <2>3. \A k \in 1 .. n - 1 : P!Needs(path[k], path[k + 1])
    <3> SUFFICES ASSUME NEW k \in 1 .. n - 1 PROVE P!Needs(path[k], path[k + 1])
      OBVIOUS
    <3> k \in 1 .. n
      OBVIOUS
    <3> path[k] \in Pkgs
      OBVIOUS
    <3> QED BY <1>3, <2>2
  <2>4. Cardinality(Pkgs) = P!Cardinality(Pkgs)
    BY DEF Cardinality, P!Cardinality
  <2> QED BY <2>2, <2>3, <2>4 DEF P!Reaches
<1>5. DOMAIN active_list = 1 .. Len(active_list) /\ \A k \in 1 .. Len(active_list) : active_list[k] \in Pkgs
  BY <1>1, LenProperties, ElementOfSeq DEF SearchType
<1>6. P!DependenciesFirst
  <2> SUFFICES ASSUME NEW k \in 1 .. Len(active_list)
               PROVE  /\ \A l \in 1 .. Len(active_list) : active_list[l] = active_list[k] => l = k
                      /\ \A q \in Pkgs :
                           P!Needs(active_list[k], q) /\ ~P!Reaches(q, active_list[k]) =>
                             \E l \in 1 .. k - 1 : active_list[l] = q
    BY <1>5 DEF P!DependenciesFirst
  <2>1. \A l \in 1 .. Len(active_list) : active_list[l] = active_list[k] => l = k
    BY DEF SearchInv, InOrder
  <2>2. \A q \in Pkgs : Needed(getPkgDeps, active_list[k], q) /\ ~Leads(getPkgDeps, q, active_list[k]) =>
                           \E l \in 1 .. k - 1 : active_list[l] = q
    BY DEF SearchInv, InOrder
  <2> QED BY <1>3, <1>4, <1>5, <2>1, <2>2
<1>7. P!Done => P!AllListed
  <2> SUFFICES ASSUME stack = <<>>, pkg_list = <<>> PROVE P!AllListed
    BY DEF P!Done
  <2>1. Len(stack) = 0 /\ Len(pkg_list) = 0 /\ P!Active = Listed /\ Listed \in SUBSET Pkgs
    BY <1>1, EmptySeq, SearchNames
  <2>2. P!ToSet(asked) \subseteq Listed
    <3>1. DOMAIN asked = 1 .. Len(asked)
      BY <1>1, LenProperties DEF SearchType
    <3>2. \A k \in 1 .. Len(asked) : asked[k] \in Listed
      BY <2>1 DEF SearchInv, Kept
    <3> QED BY <3>1, <3>2 DEF P!ToSet
  <2>3. \A p \in Listed, q \in Pkgs : P!Needs(p, q) => q \in Listed
    <3> SUFFICES ASSUME NEW p \in Listed, NEW q \in Pkgs, Needed(getPkgDeps, p, q) PROVE q \in Listed
      BY <1>3, <2>1
    <3> QED BY <2>1 DEF SearchInv, Closed, Needed
  <2> QED BY <2>1, <2>2, <2>3 DEF P!AllListed
<1> QED BY <1>6, <1>7 DEF P!ListedInOrder

\* The packages asked for, and all they need, are listed once, each behind what it needs,
\* unless that needs it in turn: for every dependency graph.
THEOREM PackagesInOrder == P!PkgAssumption => (P!Spec => []P!ListedInOrder)
<1> SUFFICES ASSUME P!PkgAssumption PROVE P!Spec => []P!ListedInOrder
  OBVIOUS
<1>1. IsFiniteSet(Pkgs)
  BY DEF P!PkgAssumption, P!IsFiniteSet, IsFiniteSet
<1>2. P!Init => SearchInv
  BY SearchInit
<1>3. SearchInv /\ [P!Next]_(P!vars) => SearchInv'
  BY <1>1, SearchStep
<1>4. SearchInv => P!ListedInOrder
  BY SearchShows
<1> QED BY <1>2, <1>3, <1>4, PTL DEF P!Spec

\* The same for the tools as they are checked: nothing else moves the search.
THEOREM ToolsListInOrder == P!PkgAssumption => (ToolsSpec => []ListedInOrder)
<1> SUFFICES ASSUME P!PkgAssumption PROVE ToolsSpec => []ListedInOrder
  OBVIOUS
<1> DEFINE I == tool = "pkgSort" => SearchInv
<1>1. IsFiniteSet(Pkgs)
  BY DEF P!PkgAssumption, P!IsFiniteSet, IsFiniteSet
<1>2. ToolsInit => I
  BY SearchInit DEF ToolsInit
<1>3. I /\ [ToolsNext]_all => I'
  <2> SUFFICES ASSUME I, [ToolsNext]_all, tool' = "pkgSort" PROVE SearchInv'
    OBVIOUS
  <2>1. tool' = tool
    BY DEF ToolsNext, RunBase64, RunPkgSort, RunBinSplit, all
  <2>2. SearchInv
    BY <2>1
  <2>3. P!Next \/ UNCHANGED P!vars
    BY <2>1 DEF ToolsNext, RunBase64, RunPkgSort, RunBinSplit, all, pkgSort, P!vars, P!given
  <2> QED BY <1>1, <2>2, <2>3, SearchStep
<1>4. I => ListedInOrder
  BY SearchShows DEF ListedInOrder
<1> HIDE DEF I
<1> QED BY <1>2, <1>3, <1>4, PTL DEF ToolsSpec
-----------------------------------------------------------------------------
\* A head and its place, without SubSeq.
LEMMA PrefixFacts ==
  ASSUME NEW T, NEW s \in Seq(T), NEW t \in Seq(T)
  PROVE  S!IsPrefix(s, t) <=> (Len(s) <= Len(t) /\ \A i \in 1 .. Len(s) : s[i] = t[i])
<1>1. Len(s) \in Nat /\ Len(t) \in Nat
  BY LenProperties
<1>2. SubSeq(s, 1, Len(s)) = s
  BY SubSeqFull
<1>3. ASSUME Len(s) <= Len(t)
      PROVE  SubSeq(t, 1, Len(s)) = s <=> \A i \in 1 .. Len(s) : s[i] = t[i]
  <2> DEFINE p == SubSeq(t, 1, Len(s))
  <2>1. 1 \in 1 .. Len(t) + 1 /\ Len(s) \in 1 - 1 .. Len(t)
    BY <1>1, <1>3
  <2>2. p \in Seq(T) /\ Len(p) = Len(s) - 1 + 1 /\ \A i \in 1 .. Len(s) - 1 + 1 : p[i] = t[1 + i - 1]
    BY <2>1, Part
  <2>3. Len(p) = Len(s) /\ \A i \in 1 .. Len(s) : p[i] = t[i]
    <3>1. Len(s) - 1 + 1 = Len(s) /\ \A i \in 1 .. Len(s) : 1 + i - 1 = i
      BY <1>1
    <3> QED BY <2>2, <3>1
  <2> HIDE DEF p
  <2>4. ASSUME \A i \in 1 .. Len(s) : s[i] = t[i] PROVE p = s
    <3> \A i \in 1 .. Len(p) : p[i] = s[i]
      BY <2>3, <2>4
    <3> QED BY <2>2, <2>3, SeqEqual
  <2> QED BY <2>3, <2>4 DEF p
<1> QED BY <1>2, <1>3 DEF S!IsPrefix

\* The longest head.
LEMMA LongestHead ==
  ASSUME S!SplitAssumption
  PROVE  /\ S!getMaxNaluhSzie \in Nat \ {0}
         /\ Len(nuhVct) \in Nat \ {0} /\ DOMAIN nuhVct = 1 .. Len(nuhVct)
         /\ \A k \in 1 .. Len(nuhVct) : /\ nuhVct[k] \in Seq(Byte)
                                        /\ Len(nuhVct[k]) \in 1 .. S!getMaxNaluhSzie
<1> DEFINE n == Len(nuhVct)
           f == [k \in 1 .. n |-> Len(nuhVct[k])]
           L == {Len(nuhVct[k]) : k \in DOMAIN nuhVct}
<1>1. n \in Nat \ {0} /\ DOMAIN nuhVct = 1 .. n
  BY EmptySeq, LenProperties DEF S!SplitAssumption
<1>2. \A k \in 1 .. n : nuhVct[k] \in Seq(Byte) /\ Len(nuhVct[k]) \in Nat \ {0}
  <2> SUFFICES ASSUME NEW k \in 1 .. n PROVE nuhVct[k] \in Seq(Byte) /\ Len(nuhVct[k]) \in Nat \ {0}
    OBVIOUS
  <2>1. nuhVct[k] \in Seq(Byte) \ {<<>>}
    BY ElementOfSeq DEF S!SplitAssumption
  <2> QED BY <2>1, EmptySeq
<1> HIDE DEF n
<1>3. f \in [1 .. n -> Nat]
  BY <1>2
<1>4. PICK k \in 1 .. n : \A l \in 1 .. n : f[l] < f[k] \/ (f[l] = f[k] /\ k <= l)
  BY <1>1, <1>3, FirstLargest
<1>5. f[k] \in L /\ \A y \in L : f[k] >= y
  <2>1. f[k] \in L
    BY <1>1
  <2>2. ASSUME NEW l \in 1 .. n PROVE f[k] >= Len(nuhVct[l])
    <3>1. f[l] = Len(nuhVct[l]) /\ f[l] \in Nat /\ f[k] \in Nat
      BY <1>2
    <3>2. f[l] < f[k] \/ f[l] = f[k]
      BY <1>4
    <3> HIDE DEF f
    <3> QED BY <3>1, <3>2
  <2> QED BY <1>1, <2>1, <2>2
<1>6. S!getMaxNaluhSzie \in L /\ \A y \in L : S!getMaxNaluhSzie >= y
  BY <1>5, Zenon DEF S!getMaxNaluhSzie, S!Max
<1>7. \A k1 \in 1 .. n : Len(nuhVct[k1]) \in L
  BY <1>1
<1>8. S!getMaxNaluhSzie \in Nat \ {0}
  BY <1>1, <1>2, <1>6
<1> HIDE DEF L
<1>9. \A k1 \in 1 .. n : Len(nuhVct[k1]) \in 1 .. S!getMaxNaluhSzie
  BY <1>2, <1>6, <1>7, <1>8
<1> QED BY <1>1, <1>2, <1>8, <1>9 DEF n
-----------------------------------------------------------------------------
\* BinSplit: where a cut may be in a file f.
M == S!getMaxNaluhSzie

HeadIn(f, c) ==
  \E k \in 1 .. Len(nuhVct) :
    c \in Nat /\ c + Len(nuhVct[k]) <= Len(f) /\ \A j \in 1 .. Len(nuhVct[k]) : nuhVct[k][j] = f[c + j]

Piece(m) == m * bytesPerRead

CutRight(f, c) ==
  \/ HeadIn(f, c)
  \/ \E m \in 1 .. Len(f) : c < Piece(m) /\ Piece(m) < c + M
  \/ Len(f) < M

\* Every size found is the way from one cut to the next.
Sized(sizes, c, len) ==
  \A k \in 1 .. Len(sizes) : sizes[k] = (IF k < Len(c) THEN c[k + 1] ELSE len) - c[k]

\* What is found so far, and what is still to come of the present unit.
Running(sizes, c, rest) ==
  c # <<>> /\ Len(c) = Len(sizes) + 1 /\ Sized(sizes, c, 0) /\ rest = c[Len(c)]

SplitType ==
  /\ file \in Seq(Byte) /\ at \in {"check", "read", "find", "last", "end"} /\ feof \in BOOLEAN
  /\ ftell \in 0 .. Len(file) /\ buf \in Seq(Byte)
  /\ findStart \in Nat /\ findStartIdx \in Int /\ mNewNuh \in Nat /\ preSize \in Nat
  /\ foundBytes \in Int /\ nuSizeVct \in Seq(Int) /\ cuts \in Seq(Int)

\* The pieces read: how far, and what of them is in mBuf behind what was carried over.
SplitRead ==
  /\ findStartIdx - findStart = ftell - Len(buf) /\ ~feof /\ preSize < M
  /\ \E m \in Nat : ftell = Piece(m)

SplitFind ==
  /\ Len(buf) = preSize + bytesPerRead /\ ftell >= bytesPerRead
  /\ preSize = 0 \/ ftell > bytesPerRead
  /\ \A b \in preSize + 1 .. Len(buf) : buf[b] = file[(ftell - Len(buf)) + b]

SplitInv ==
  /\ SplitType
  /\ cuts # <<>> => cuts[1] = 0
  /\ \A k \in 1 .. Len(cuts) : CutRight(file, cuts[k])
  /\ at = "check" => /\ cuts = <<>> /\ nuSizeVct = <<>> /\ buf = <<>> /\ preSize = 0
                     /\ ftell = 0 /\ ~feof /\ foundBytes = 0
  /\ at \in {"read", "find", "last"} => Running(nuSizeVct, cuts, (findStartIdx - foundBytes) - mNewNuh)
  /\ at = "last" => ftell = Len(file)
  /\ at \in {"read", "find"} => SplitRead
  /\ at = "read" => Len(buf) = preSize /\ (preSize = 0 \/ ftell > 0)
  /\ at = "find" => SplitFind
  /\ at = "end" => Len(nuSizeVct) = Len(cuts) /\ Sized(nuSizeVct, cuts, Len(file))

\* s and d are sizes and c with a unit more.
UnitAdded(c, next, s, d) ==
  /\ s \in Seq(Int) /\ d \in Seq(Int) /\ Running(s, d, next)
  /\ Len(d) = Len(c) + 1 /\ d[Len(c) + 1] = next /\ \A k \in 1 .. Len(c) : d[k] = c[k]
  /\ Len(s) = Len(c) /\ Sized(s, c, next)

\* A unit more, up to where the next one begins.
LEMMA OneMoreUnit ==
  ASSUME NEW sizes \in Seq(Int), NEW c \in Seq(Int), NEW rest \in Int, Running(sizes, c, rest),
         NEW next \in Int
  PROVE  UnitAdded(c, next, Append(sizes, next - rest), Append(c, next))
<1> DEFINE x == next - rest
           s == Append(sizes, x)
           d == Append(c, next)
<1>0. x \in Int /\ next - rest = x
  OBVIOUS
<1> HIDE DEF x
<1> DEFINE n == Len(c)
<1>1. n \in Nat \ {0} /\ Len(sizes) = n - 1 /\ c[n] = rest
  BY EmptySeq, LenProperties DEF Running
<1>2. /\ s \in Seq(Int) /\ Len(s) = n /\ s[n] = x /\ \A k \in 1 .. n - 1 : s[k] = sizes[k]
  BY <1>0, <1>1, AppendProperties
<1>3. /\ d \in Seq(Int) /\ Len(d) = n + 1 /\ d[n + 1] = next /\ (\A k \in 1 .. n : d[k] = c[k]) /\ d # <<>>
  BY <1>1, AppendProperties
<1>4. \A k \in 1 .. n - 1 : sizes[k] = c[k + 1] - c[k]
  <2> SUFFICES ASSUME NEW k \in 1 .. n - 1 PROVE sizes[k] = c[k + 1] - c[k]
    OBVIOUS
  <2>1. k \in 1 .. Len(sizes) /\ k < Len(c)
    BY <1>1
  <2> QED BY <2>1 DEF Running, Sized
<1>5. \A k \in 1 .. n : k \in 1 .. n - 1 \/ k = n
  BY <1>1
<1> HIDE DEF n, s, d
<1>6. ASSUME NEW k \in 1 .. n PROVE s[k] = (IF k < n THEN c[k + 1] ELSE next) - c[k]
  <2>1. CASE k \in 1 .. n - 1
    BY <1>1, <1>2, <1>4, <2>1
  <2>2. CASE k = n
    BY <1>0, <1>1, <1>2, <2>2
  <2> QED BY <1>5, <2>1, <2>2
<1>7. ASSUME NEW k \in 1 .. n PROVE s[k] = d[k + 1] - d[k]
  <2>1. CASE k \in 1 .. n - 1
    <3> k + 1 \in 1 .. n
      BY <1>1, <2>1
    <3> QED BY <1>1, <1>2, <1>3, <1>4, <2>1
  <2>2. CASE k = n
    BY <1>0, <1>1, <1>2, <1>3, <2>2
  <2> QED BY <1>5, <2>1, <2>2
<1>8. Sized(s, c, next)
  BY <1>2, <1>6 DEF Sized, n
<1>9. Sized(s, d, 0)
  <2> SUFFICES ASSUME NEW k \in 1 .. n PROVE s[k] = (IF k < n + 1 THEN d[k + 1] ELSE 0) - d[k]
    BY <1>2, <1>3 DEF Sized
  <2> k < n + 1
    BY <1>1
  <2> QED BY <1>7
<1>10. Running(s, d, next)
  BY <1>2, <1>3, <1>9 DEF Running
<1>11. UnitAdded(c, next, s, d)
  BY <1>2, <1>3, <1>8, <1>10 DEF UnitAdded, n
<1> QED BY <1>11 DEF s, d, x

\* Where the pieces end.
LEMMA PieceFacts ==
  ASSUME bytesPerRead \in Nat \ {0}
  PROVE  /\ \A m \in Nat : Piece(m) \in Nat /\ Piece(m) >= m /\ Piece(m + 1) = Piece(m) + bytesPerRead
         /\ Piece(0) = 0
         /\ \A m \in Nat \ {0} : Piece(m - 1) = Piece(m) - bytesPerRead
<1>1. ASSUME NEW m \in Nat PROVE Piece(m + 1) = Piece(m) + bytesPerRead
  BY DEF Piece
<1>2. ASSUME NEW m \in Nat PROVE Piece(m) \in Nat /\ Piece(m) >= m
  <2> DEFINE b == bytesPerRead - 1
  <2>1. b \in Nat /\ bytesPerRead = b + 1
    OBVIOUS
  <2>2. m * b \in Nat /\ m * (b + 1) = (m * b) + m
    BY <2>1
  <2> QED BY <2>1, <2>2 DEF Piece
<1>3. Piece(0) = 0
  BY DEF Piece
<1>4. ASSUME NEW m \in Nat \ {0} PROVE Piece(m - 1) = Piece(m) - bytesPerRead
  BY DEF Piece
<1> QED BY <1>1, <1>2, <1>3, <1>4

\* A head that is found is one of the file, or begins in what was carried over.
LEMMA HitIsRight ==
  ASSUME S!SplitAssumption, SplitInv, at = "find",
         NEW k \in 1 .. Len(nuhVct), NEW a \in 0 .. Len(buf), S!Hit(k, a)
  PROVE  CutRight(file, findStartIdx + (a - findStart))
<1> DEFINE c == findStartIdx + (a - findStart)
           n == Len(nuhVct[k])
<1>0. SplitType /\ SplitRead /\ SplitFind /\ bytesPerRead \in Nat \ {0} /\ M \in Nat
  BY LongestHead DEF SplitInv, S!SplitAssumption, M
<1>1. nuhVct[k] \in Seq(Byte) /\ n \in Nat \ {0} /\ Len(buf) \in Nat /\ Len(file) \in Nat
      /\ buf \in Seq(Byte)
  BY <1>0, LongestHead, LenProperties DEF SplitType
<1>2. a + n <= Len(buf) /\ \A j \in 1 .. n : nuhVct[k][j] = buf[a + j]
  <2>1. a + n <= Len(buf) /\ S!IsPrefix(nuhVct[k], SubSeq(buf, a + 1, Len(buf)))
    BY DEF S!Hit, S!HeadAt
  <2> DEFINE p == SubSeq(buf, a + 1, Len(buf))
             m == a + 1
  <2>2. m \in 1 .. Len(buf) + 1 /\ Len(buf) \in m - 1 .. Len(buf)
    BY <1>1
  <2> HIDE DEF m
  <2>3. SubSeq(buf, m, Len(buf)) \in Seq(Byte)
        /\ \A j \in 1 .. Len(buf) - m + 1 : SubSeq(buf, m, Len(buf))[j] = buf[m + j - 1]
    BY <1>1, <2>2, Part
  <2>4. p \in Seq(Byte) /\ \A j \in 1 .. Len(buf) - m + 1 : p[j] = buf[m + j - 1]
    BY <2>3 DEF m
  <2>7. S!IsPrefix(nuhVct[k], p)
    BY <2>1
  <2> HIDE DEF p
  <2>5. \A j \in 1 .. n : nuhVct[k][j] = p[j]
    BY <1>1, <2>7, <2>4, PrefixFacts
  <2>6. \A j \in 1 .. n : j \in 1 .. Len(buf) - m + 1 /\ m + j - 1 = a + j
    BY <1>1, <2>1 DEF m
  <2> QED BY <2>1, <2>4, <2>5, <2>6
<1>3. /\ c = (ftell - Len(buf)) + a /\ ftell \in Nat /\ ftell <= Len(file) /\ c \in Int
      /\ Len(buf) = preSize + bytesPerRead /\ preSize \in Nat /\ preSize < M
      /\ ftell >= bytesPerRead /\ (preSize = 0 \/ ftell > bytesPerRead)
  <2> findStartIdx \in Int /\ findStart \in Nat /\ ftell \in 0 .. Len(file) /\ preSize \in Nat
    BY <1>0 DEF SplitType
  <2> findStartIdx - findStart = ftell - Len(buf)
    BY <1>0 DEF SplitRead
  <2> QED BY <1>0, <1>1 DEF SplitRead, SplitFind
<1> HIDE DEF c, n
<1>4. CASE a >= preSize
  <2>1. c \in Nat /\ c + n <= Len(file)
    BY <1>0, <1>1, <1>2, <1>3, <1>4
  <2>2. ASSUME NEW j \in 1 .. n PROVE buf[a + j] = file[c + j]
    <3>1. a + j \in preSize + 1 .. Len(buf) /\ (ftell - Len(buf)) + (a + j) = c + j
      BY <1>1, <1>2, <1>3, <1>4
    <3>2. buf[a + j] = file[(ftell - Len(buf)) + (a + j)]
      BY <1>0, <3>1 DEF SplitFind
    <3> QED BY <3>1, <3>2
  <2>3. HeadIn(file, c)
    BY <1>2, <2>1, <2>2 DEF HeadIn, n
  <2> QED BY <2>3 DEF CutRight, c
<1>6. a \in Int /\ preSize \in Int /\ a >= 0
  BY <1>3
<1>5. CASE a < preSize
  <2> PICK m \in Nat : ftell = Piece(m)
    BY <1>0 DEF SplitRead
  <2>1. ftell > bytesPerRead
    BY <1>3, <1>5
  <2>2. m # 0 /\ m - 1 # 0
    <3> Piece(0) = 0 /\ Piece(0 + 1) = Piece(0) + bytesPerRead
      BY <1>0, PieceFacts
    <3> Piece(1) = bytesPerRead
      BY <1>0
    <3> QED BY <1>0, <2>1
  <2>3. m - 1 \in Nat /\ Piece(m - 1) \in Nat /\ Piece(m - 1) = ftell - bytesPerRead /\ Piece(m - 1) >= m - 1
    BY <1>0, <2>2, PieceFacts
  <2>4. m - 1 \in 1 .. Len(file)
    BY <1>0, <1>1, <1>3, <2>2, <2>3
  <2>5. c < Piece(m - 1) /\ Piece(m - 1) < c + M
    <3> PICK q \in Nat : q = M
      BY <1>0
    <3> PICK o \in Nat : o = ftell - bytesPerRead
      BY <1>3, <2>3
    <3> PICK l \in Nat : l = Len(buf)
      BY <1>1
    <3>1. c = (ftell - l) + a /\ l = preSize + bytesPerRead /\ preSize < q
      BY <1>3
    <3>2. c = (o - preSize) + a
      BY ONLY <3>1, <1>0, <1>3, <1>6, o \in Nat, l \in Nat, o = ftell - bytesPerRead, bytesPerRead \in Nat, ftell \in Nat
    <3>4. preSize \in Nat /\ a \in Nat /\ a < preSize /\ preSize < q /\ q \in Nat /\ o \in Nat
      BY <1>3, <1>5, <1>6, <3>1
    <3>3. c < o /\ o < c + q
      BY ONLY <3>2, <3>4
    <3> QED BY <2>3, <3>3
  <2> QED BY <2>4, <2>5 DEF CutRight, c
<1> QED BY <1>4, <1>5, <1>6

\* At the start nothing is found.
LEMMA SplitStart ==
  ASSUME S!SplitAssumption, S!Init
  PROVE  SplitInv
<1>1. file \in Seq(Byte) /\ Len(file) \in Nat
  BY LenProperties DEF S!SplitAssumption, S!Init
<1>2. SplitType
  <2>1. <<>> \in Seq(Int) /\ <<>> \in Seq(Byte)
    OBVIOUS
  <2>2. feof \in BOOLEAN
    BY Zenon DEF S!Init
  <2>3. at \in {"check", "read", "find", "last", "end"} /\ ftell \in 0 .. Len(file)
    BY <1>1 DEF S!Init
  <2>4. /\ buf \in Seq(Byte) /\ nuSizeVct \in Seq(Int) /\ cuts \in Seq(Int)
        /\ findStart \in Nat /\ findStartIdx \in Int /\ mNewNuh \in Nat /\ preSize \in Nat
        /\ foundBytes \in Int
    BY <2>1 DEF S!Init
  <2> QED BY <1>1, <2>2, <2>3, <2>4 DEF SplitType
<1>3. cuts = <<>> /\ \A k \in 1 .. Len(cuts) : CutRight(file, cuts[k])
  BY DEF S!Init
<1>4. /\ at = "check" /\ cuts = <<>> /\ nuSizeVct = <<>> /\ buf = <<>> /\ preSize = 0
      /\ ftell = 0 /\ ~feof /\ foundBytes = 0
  BY DEF S!Init
<1> QED BY ONLY <1>2, <1>3, <1>4 DEF SplitInv

\* The first unit begins where the file does.
LEMMA SplitCheck ==
  ASSUME S!SplitAssumption, SplitInv, S!checkAndPreread
  PROVE  SplitInv'
<1>0. /\ SplitType /\ cuts = <<>> /\ nuSizeVct = <<>> /\ buf = <<>> /\ preSize = 0
      /\ ftell = 0 /\ ~feof /\ foundBytes = 0 /\ at = "check"
  BY DEF SplitInv, S!checkAndPreread
<1>1. file \in Seq(Byte) /\ Len(file) \in Nat /\ M \in Nat \ {0}
  BY <1>0, LongestHead, LenProperties DEF SplitType, M
<1>2. UNCHANGED <<file, ftell, feof, buf, preSize, foundBytes, nuSizeVct>>
  BY DEF S!checkAndPreread
<1> PICK junk \in S!Behind :
      LET first == {k \in DOMAIN nuhVct : S!IsPrefix(nuhVct[k], file \o junk)}
      IN IF first = {}
         THEN at' = "end" /\ UNCHANGED <<findStart, findStartIdx, mOldNuh, mNewNuh, cuts>>
         ELSE LET n == Len(nuhVct[CHOOSE k \in first : \A l \in first : k <= l])
              IN /\ at' = "read"
                 /\ findStart' = n /\ findStartIdx' = n /\ mOldNuh' = n /\ mNewNuh' = n
                 /\ cuts' = <<0>>
  BY Zenon DEF S!checkAndPreread
<1> DEFINE first == {k \in DOMAIN nuhVct : S!IsPrefix(nuhVct[k], file \o junk)}
           k0 == CHOOSE k \in first : \A l \in first : k <= l
<1>3. CASE first = {}
  <2>1. at' = "end" /\ UNCHANGED <<findStart, findStartIdx, mOldNuh, mNewNuh, cuts>>
    BY <1>3
  <2>2. SplitType'
    BY <1>0, <1>2, <2>1 DEF SplitType
  <2> QED BY <1>0, <1>2, <2>1, <2>2 DEF SplitInv, Sized
<1>4. CASE first # {}
  <2> DEFINE n == Len(nuhVct[k0])
  <2>1. /\ at' = "read" /\ findStart' = n /\ findStartIdx' = n /\ mNewNuh' = n /\ cuts' = <<0>>
    BY <1>4
  <2>2. k0 \in first
    <3>1. first \in SUBSET Nat
      BY LongestHead
    <3> HIDE DEF first
    <3>2. Min(first) \in first /\ \A l \in first : Min(first) <= l
      BY <1>4, <3>1, Least
    <3>3. \E k \in first : \A l \in first : k <= l
      BY <3>2
    <3> QED BY <3>3, Zenon
  <2> PICK k \in 1 .. Len(nuhVct) : k = k0 /\ S!IsPrefix(nuhVct[k], file \o junk)
    BY <2>2, LongestHead
  <2> HIDE DEF first, k0
  <2>3. n = Len(nuhVct[k]) /\ nuhVct[k] \in Seq(Byte) /\ n \in 1 .. M
    BY LongestHead DEF M
  <2> HIDE DEF n
  <2>4. junk \in Seq(Byte)
    BY <1>1, SeqDef DEF S!Behind, M
  <2> DEFINE r == file \o junk
  <2>5. r \in Seq(Byte) /\ \A i \in 1 .. Len(file) : r[i] = file[i]
    BY <1>1, <2>4, Joined
  <2>6. S!IsPrefix(nuhVct[k], r)
    OBVIOUS
  <2> HIDE DEF r
  <2>7. \A i \in 1 .. n : nuhVct[k][i] = r[i]
    BY <2>3, <2>5, <2>6, PrefixFacts
  <2>8. CutRight(file, 0)
    <3>1. CASE n <= Len(file)
      <4>1. ASSUME NEW j \in 1 .. n PROVE nuhVct[k][j] = file[0 + j]
        <5> j \in 1 .. Len(file) /\ 0 + j = j
          BY <1>1, <2>3, <3>1
        <5> QED BY <2>5, <2>7
      <4>2. 0 \in Nat /\ 0 + n <= Len(file)
        BY <2>3, <3>1
      <4> QED BY <2>3, <4>1, <4>2 DEF HeadIn, CutRight
    <3>2. CASE ~(n <= Len(file))
      <4> Len(file) < M
        BY <1>1, <2>3, <3>2
      <4> QED BY DEF CutRight
    <3> QED BY <3>1, <3>2
  <2>9. SplitType'
    <3>1. n \in Nat /\ n \in Int /\ <<0>> \in Seq(Int)
      BY <1>1, <2>3
    <3> QED BY <1>0, <1>2, <2>1, <3>1 DEF SplitType
  <2>10. Running(nuSizeVct, cuts, (findStartIdx - foundBytes) - mNewNuh)'
    <3> (n - 0) - n = 0
      BY <1>1, <2>3
    <3> QED BY <1>0, <1>2, <2>1 DEF Running, Sized
  <2>11. SplitRead'
    <3>1. Piece(0) = 0 /\ 0 \in Nat
      BY PieceFacts DEF S!SplitAssumption
    <3>2. n - n = 0 - Len(<<>>)
      <4> n - n = 0 /\ 0 - 0 = 0
        BY <1>1, <2>3
      <4> Len(<<>>) = 0
        OBVIOUS
      <4> QED OBVIOUS
    <3>3. findStartIdx' - findStart' = ftell' - Len(buf')
      <4> findStartIdx' = n /\ findStart' = n /\ ftell' = 0 /\ buf' = <<>>
        BY <1>0, <1>2, <2>1
      <4> QED BY <3>2
    <3>4. 0 < M
      BY <1>1
    <3> QED BY <1>0, <1>2, <3>1, <3>3, <3>4 DEF SplitRead
  <2>12. \A i \in 1 .. Len(cuts') : CutRight(file', cuts'[i])
    <3> Len(cuts') = 1 /\ cuts'[1] = 0
      BY <2>1
    <3> QED BY <1>2, <2>8
  <2> QED BY <1>0, <1>2, <2>1, <2>9, <2>10, <2>11, <2>12 DEF SplitInv
<1> QED BY <1>3, <1>4

\* A piece is read behind what was carried over, or the file is at its end.
LEMMA SplitReads ==
  ASSUME S!SplitAssumption, SplitInv, S!Read
  PROVE  SplitInv'
<1>0. /\ SplitType /\ SplitRead /\ at = "read" /\ Len(buf) = preSize /\ (preSize = 0 \/ ftell > 0)
      /\ Running(nuSizeVct, cuts, (findStartIdx - foundBytes) - mNewNuh) /\ bytesPerRead \in Nat \ {0}
      /\ (cuts # <<>> => cuts[1] = 0) /\ \A k \in 1 .. Len(cuts) : CutRight(file, cuts[k])
  BY DEF SplitInv, S!Read, S!SplitAssumption
<1>1. /\ file \in Seq(Byte) /\ Len(file) \in Nat /\ buf \in Seq(Byte) /\ ftell \in 0 .. Len(file)
      /\ ftell \in Nat /\ preSize \in Nat
  BY <1>0, LenProperties DEF SplitType
<1> DEFINE n == IF ftell + bytesPerRead <= Len(file) THEN bytesPerRead ELSE Len(file) - ftell
           part == SubSeq(file, ftell + 1, ftell + n)
<1>2. /\ ftell' = ftell + n /\ feof' = (n < bytesPerRead)
      /\ buf' = SubSeq(buf, 1, preSize) \o part
      /\ at' = (IF n < bytesPerRead THEN "last" ELSE "find")
      /\ UNCHANGED <<file, findStart, findStartIdx, mOldNuh, mNewNuh, preSize, foundBytes, nuSizeVct,
                     cuts>>
  BY <1>0 DEF S!Read, SplitRead
<1>3. n \in 0 .. bytesPerRead /\ ftell + n \in ftell .. Len(file)
      /\ (n < bytesPerRead => ftell + n = Len(file))
  BY <1>0, <1>1
<1> HIDE DEF n
<1>4. part \in Seq(Byte) /\ Len(part) = n /\ \A i \in 1 .. n : part[i] = file[ftell + i]
  <2> DEFINE m == ftell + 1
             o == ftell + n
  <2>1. m \in 1 .. Len(file) + 1 /\ o \in m - 1 .. Len(file) /\ o - m + 1 = n
    BY <1>1, <1>3
  <2> HIDE DEF m, o
  <2>2. /\ SubSeq(file, m, o) \in Seq(Byte) /\ Len(SubSeq(file, m, o)) = o - m + 1
        /\ \A i \in 1 .. o - m + 1 : SubSeq(file, m, o)[i] = file[m + i - 1]
    BY <1>1, <2>1, Part
  <2>3. \A i \in 1 .. n : m + i - 1 = ftell + i
    BY <1>1, <1>3 DEF m
  <2> QED BY <2>1, <2>2, <2>3 DEF m, o
<1> HIDE DEF part
<1>5. SubSeq(buf, 1, preSize) = buf
  BY <1>0, <1>1, SubSeqFull
<1>6. /\ buf' \in Seq(Byte) /\ Len(buf') = preSize + n
      /\ \A i \in 1 .. n : buf'[preSize + i] = part[i]
  <2>1. PICK s \in Seq(Byte), t \in Seq(Byte) : s = buf /\ t = part
    BY <1>1, <1>4
  <2> DEFINE r == s \o t
  <2>2. /\ r \in Seq(Byte) /\ Len(r) = Len(s) + Len(t)
        /\ \A i \in 1 .. Len(t) : r[Len(s) + i] = t[i]
    BY Joined
  <2>3. buf' = r
    BY <1>2, <1>5, <2>1
  <2> HIDE DEF r
  <2> QED BY <1>0, <1>4, <2>1, <2>2, <2>3
<1>7. SplitType'
  <2>1. feof' \in BOOLEAN
    BY <1>2
  <2>2. ftell' \in 0 .. Len(file')
    BY <1>1, <1>2, <1>3
  <2>3. at' \in {"check", "read", "find", "last", "end"}
    BY <1>2
  <2> QED BY <1>0, <1>2, <1>6, <2>1, <2>2, <2>3 DEF SplitType
<1>8. Running(nuSizeVct, cuts, (findStartIdx - foundBytes) - mNewNuh)'
  BY <1>0, <1>2
<1>9. (cuts # <<>> => cuts[1] = 0)' /\ \A k \in 1 .. Len(cuts') : CutRight(file', cuts'[k])
  BY <1>0, <1>2
<1>10. CASE n < bytesPerRead
  <2> at' = "last" /\ ftell' = Len(file')
    BY <1>2, <1>3, <1>10
  <2> QED BY ONLY <1>7, <1>8, <1>9, at' = "last", ftell' = Len(file') DEF SplitInv
<1>11. CASE ~(n < bytesPerRead)
  <2>1. n = bytesPerRead /\ at' = "find"
    BY <1>0, <1>2, <1>3, <1>11
  <2>2. ftell' = ftell + bytesPerRead /\ Len(buf') = preSize + bytesPerRead
        /\ (ftell + bytesPerRead) - (preSize + bytesPerRead) = ftell - preSize
    BY <1>0, <1>1, <1>2, <1>6, <2>1
  <2>3. SplitRead'
    <3> PICK m \in Nat : ftell = Piece(m)
      BY <1>0 DEF SplitRead
    <3>1. m + 1 \in Nat /\ ftell' = Piece(m + 1)
      BY <1>0, <2>2, PieceFacts
    <3>2. ~feof' /\ preSize' < M
      BY <1>0, <1>2, <1>11 DEF SplitRead
    <3>3. findStartIdx' - findStart' = ftell' - Len(buf')
      <4> findStartIdx - findStart = ftell - preSize
        BY <1>0 DEF SplitRead
      <4> QED BY <1>2, <2>2
    <3> QED BY <3>1, <3>2, <3>3 DEF SplitRead
  <2>4. SplitFind'
    <3>1. ftell' >= bytesPerRead /\ (preSize' = 0 \/ ftell' > bytesPerRead)
      BY <1>0, <1>1, <1>2, <2>2
    <3>2. ASSUME NEW b \in preSize + 1 .. Len(buf') PROVE buf'[b] = file[(ftell' - Len(buf')) + b]
      <4> DEFINE i == b - preSize
      <4>1. i \in 1 .. n /\ preSize + i = b /\ (ftell' - Len(buf')) + b = ftell + i
        BY <1>0, <1>1, <2>1, <2>2
      <4> HIDE DEF i
      <4> QED BY <1>4, <1>6, <4>1
    <3> QED BY <1>2, <2>2, <3>1, <3>2 DEF SplitFind
  <2> QED BY ONLY <1>7, <1>8, <1>9, <2>1, <2>3, <2>4 DEF SplitInv
<1> QED BY <1>10, <1>11

\* A head is found: the unit before it is complete.
LEMMA SplitFinds ==
  ASSUME S!SplitAssumption, SplitInv, S!findNextNalu
  PROVE  SplitInv'
<1>0. /\ SplitType /\ SplitRead /\ SplitFind /\ at = "find"
      /\ Running(nuSizeVct, cuts, (findStartIdx - foundBytes) - mNewNuh)
      /\ (cuts # <<>> => cuts[1] = 0) /\ \A k \in 1 .. Len(cuts) : CutRight(file, cuts[k])
  BY DEF SplitInv, S!findNextNalu
<1>1. foundBytes' = 0 /\ UNCHANGED <<file, at, ftell, feof, buf, preSize>>
  BY DEF S!findNextNalu
<1> PICK k \in 1 .. Len(nuhVct), a \in 0 .. Len(buf) :
       /\ S!Hit(k, a)
       /\ nuSizeVct' = Append(nuSizeVct, foundBytes + (a - findStart) + mNewNuh)
       /\ cuts' = Append(cuts, findStartIdx + (a - findStart))
       /\ findStartIdx' = findStartIdx + (a - findStart) + Len(nuhVct[k])
       /\ findStart' = a + Len(nuhVct[k])
       /\ mOldNuh' = mNewNuh /\ mNewNuh' = Len(nuhVct[k])
  BY LongestHead DEF S!findNextNalu
<1>2. CutRight(file, findStartIdx + (a - findStart))
  BY <1>0, HitIsRight
<1> DEFINE c == findStartIdx + (a - findStart)
           x == foundBytes + (a - findStart) + mNewNuh
           rest == (findStartIdx - foundBytes) - mNewNuh
           n == Len(nuhVct[k])
<1>3. /\ nuSizeVct \in Seq(Int) /\ cuts \in Seq(Int) /\ c \in Int /\ x \in Int /\ rest \in Int
      /\ c - rest = x /\ n \in Nat /\ a \in Nat /\ findStartIdx \in Int /\ findStart \in Nat
  <2> n \in Nat /\ Len(buf) \in Nat
    BY <1>0, LongestHead, LenProperties DEF SplitType
  <2> QED BY <1>0 DEF SplitType
<1>4. /\ nuSizeVct' = Append(nuSizeVct, x) /\ cuts' = Append(cuts, c)
      /\ findStartIdx' = c + n /\ findStart' = a + n /\ mNewNuh' = n
  OBVIOUS
<1>13. c = findStartIdx + (a - findStart)
  OBVIOUS
<1> HIDE DEF c, x, n
<1>5. (findStartIdx' - foundBytes') - mNewNuh' = c /\ findStartIdx' - findStart' = findStartIdx - findStart
  <2>1. ((c + n) - 0) - n = c
    BY <1>3
  <2>2. (c + n) - (a + n) = findStartIdx - findStart
    BY <1>3, <1>13
  <2> QED BY <1>1, <1>4, <2>1, <2>2
<1>6. /\ nuSizeVct' \in Seq(Int) /\ cuts' \in Seq(Int) /\ Running(nuSizeVct', cuts', c)
      /\ Len(cuts') = Len(cuts) + 1 /\ cuts'[Len(cuts) + 1] = c
      /\ \A i \in 1 .. Len(cuts) : cuts'[i] = cuts[i]
  <2> Running(nuSizeVct, cuts, rest)
    BY <1>0
  <2> HIDE DEF rest
  <2>1. UnitAdded(cuts, c, Append(nuSizeVct, c - rest), Append(cuts, c))
    BY <1>3, OneMoreUnit, Zenon
  <2>2. UnitAdded(cuts, c, nuSizeVct', cuts')
    BY <1>3, <1>4, <2>1
  <2> QED BY <2>2 DEF UnitAdded
<1>7. CutRight(file, c)
  BY <1>2 DEF c
<1>8. SplitType'
  <2>1. findStartIdx' \in Int /\ findStart' \in Nat /\ mNewNuh' \in Nat
    BY <1>3, <1>4
  <2>2. feof' \in BOOLEAN
    BY <1>0, <1>1 DEF SplitType
  <2>3. foundBytes' \in Int /\ preSize' \in Nat /\ buf' \in Seq(Byte) /\ ftell' \in 0 .. Len(file')
    BY <1>0, <1>1 DEF SplitType
  <2>4. file' \in Seq(Byte) /\ at' \in {"check", "read", "find", "last", "end"}
    BY <1>0, <1>1 DEF SplitType
  <2> QED BY <1>6, <2>1, <2>2, <2>3, <2>4 DEF SplitType
<1>9. \A i \in 1 .. Len(cuts') : CutRight(file', cuts'[i])
  <2> SUFFICES ASSUME NEW i \in 1 .. Len(cuts') PROVE CutRight(file, cuts'[i])
    BY <1>1
  <2> PICK n1 \in Nat : n1 = Len(cuts)
    BY <1>3, LenProperties
  <2>1. i \in 1 .. n1 + 1
    BY <1>6
  <2>2. i \in 1 .. n1 \/ i = n1 + 1
    BY <2>1
  <2> QED BY <1>0, <1>6, <1>7, <2>2
<1>10. cuts'[1] = 0
  <2> cuts # <<>> /\ 1 \in 1 .. Len(cuts)
    BY <1>0, <1>3, EmptySeq, LenProperties DEF Running
  <2> QED BY <1>0, <1>6
<1>11. Running(nuSizeVct, cuts, (findStartIdx - foundBytes) - mNewNuh)'
  BY <1>5, <1>6
<1>12. SplitRead' /\ SplitFind' /\ at' = "find"
  BY <1>0, <1>1, <1>5 DEF SplitRead, SplitFind
<1> QED BY ONLY <1>8, <1>9, <1>10, <1>11, <1>12 DEF SplitInv

\* What is carried over of a piece is shorter than a head.
LEMMA CarriedIsShort ==
  ASSUME S!SplitAssumption, NEW k \in 1 .. Len(nuhVct), NEW other
  PROVE  S!getPreSize(nuhVct[k], other) \in 0 .. Len(nuhVct[k]) - 1
<1> DEFINE n == Len(nuhVct[k])
<1>1. n \in Nat \ {0}
  BY LongestHead
<1>2. \A H \in SUBSET (1 .. n - 1) : S!Cardinality(H) \in 0 .. n - 1
  <2> SUFFICES ASSUME NEW H \in SUBSET (1 .. n - 1) PROVE S!Cardinality(H) \in 0 .. n - 1
    OBVIOUS
  <2>1. S!Cardinality(H) = Cardinality(H)
    BY DEF S!Cardinality, Cardinality, S!IsFiniteSet, IsFiniteSet
  <2> DEFINE b == n - 1
  <2>2. 1 \in Int /\ b \in Nat
    BY <1>1
  <2> HIDE DEF b
  <2>3. IsFiniteSet(1 .. b) /\ Cardinality(1 .. b) = IF 1 > b THEN 0 ELSE b - 1 + 1
    BY <2>2, FS_Interval
  <2>4. Cardinality(H) \in Nat /\ Cardinality(H) <= Cardinality(1 .. b)
    BY <2>3, FS_Subset, FS_CardinalityType DEF b
  <2>5. Cardinality(H) \in 0 .. b
    BY <2>2, <2>3, <2>4
  <2> QED BY <2>1, <2>5 DEF b
<1>3. \E H \in SUBSET (1 .. n - 1) : S!getPreSize(nuhVct[k], other) \in {0, S!Cardinality(H)}
  <2> DEFINE end == findStart + bytesPerRead
             byte(i) == IF end - i < Len(buf) THEN buf[end - i + 1] ELSE other[i]
             Back == 1 .. n - 1
             hit(j, i) == nuhVct[k][j[i] + 1] = byte(i)
             row == CHOOSE j \in [Back -> 0 .. n - 2] : \A i \in Back :
                      j[i] = IF i + 1 \in Back /\ hit(j, i + 1) THEN j[i + 1] + 1 ELSE 0
             hits == {i \in Back : hit(row, i)}
  <2>1. S!getPreSize(nuhVct[k], other) = IF 1 \in hits THEN S!Cardinality(hits) ELSE 0
    BY Zenon DEF S!getPreSize
  <2>2. hits \in SUBSET (1 .. n - 1)
    OBVIOUS
  <2> HIDE DEF hits
  <2> QED BY <2>1, <2>2
<1> QED BY <1>1, <1>2, <1>3

\* Nothing is found: the end of the piece is carried over, and counted as not found yet.
LEMMA SplitCarries ==
  ASSUME S!SplitAssumption, SplitInv, S!updateMaxNuh
  PROVE  SplitInv'
<1>0. /\ SplitType /\ SplitRead /\ SplitFind /\ at = "find"
      /\ Running(nuSizeVct, cuts, (findStartIdx - foundBytes) - mNewNuh) /\ bytesPerRead \in Nat \ {0}
      /\ (cuts # <<>> => cuts[1] = 0) /\ \A k \in 1 .. Len(cuts) : CutRight(file, cuts[k])
  BY DEF SplitInv, S!updateMaxNuh, S!SplitAssumption
<1>1. findStart' = 0 /\ at' = "read"
      /\ UNCHANGED <<file, ftell, feof, mOldNuh, mNewNuh, nuSizeVct, cuts>>
  BY DEF S!updateMaxNuh
<1> PICK other \in [1 .. S!getMaxNaluhSzie - 1 -> Byte] :
       LET pre == [k \in DOMAIN nuhVct |-> S!getPreSize(nuhVct[k], other)]
           k   == CHOOSE k \in DOMAIN nuhVct : \A l \in DOMAIN nuhVct :
                    pre[l] < pre[k] \/ (pre[l] = pre[k] /\ k <= l)
       IN /\ preSize' = pre[k] /\ buf' = SubSeq(nuhVct[k], 1, pre[k])
          /\ foundBytes' = foundBytes + (ftell - findStartIdx - pre[k])
          /\ findStartIdx' = ftell - pre[k]
  BY Zenon DEF S!updateMaxNuh
<1> DEFINE pre == [k \in DOMAIN nuhVct |-> S!getPreSize(nuhVct[k], other)]
           k0 == CHOOSE k \in DOMAIN nuhVct : \A l \in DOMAIN nuhVct :
                   pre[l] < pre[k] \/ (pre[l] = pre[k] /\ k <= l)
           p == pre[k0]
<1>2. /\ preSize' = p /\ buf' = SubSeq(nuhVct[k0], 1, p)
      /\ foundBytes' = foundBytes + (ftell - findStartIdx - p)
      /\ findStartIdx' = ftell - p
  BY Zenon
<1>3. Len(nuhVct) \in Nat \ {0} /\ DOMAIN nuhVct = 1 .. Len(nuhVct) /\ M \in Nat \ {0}
  BY LongestHead DEF M
<1>4. \A k \in 1 .. Len(nuhVct) : pre[k] \in 0 .. Len(nuhVct[k]) - 1
  BY <1>3, CarriedIsShort
<1>5. pre \in [1 .. Len(nuhVct) -> Nat]
  <2> \A k \in 1 .. Len(nuhVct) : pre[k] \in Nat
    BY <1>4, LongestHead
  <2> QED BY <1>3
<1>6. k0 \in DOMAIN nuhVct
  <2> HIDE DEF pre
  <2>1. \E k \in 1 .. Len(nuhVct) : \A l \in 1 .. Len(nuhVct) :
          pre[l] < pre[k] \/ (pre[l] = pre[k] /\ k <= l)
    BY <1>3, <1>5, FirstLargest
  <2>2. \E k \in DOMAIN nuhVct : \A l \in DOMAIN nuhVct :
          pre[l] < pre[k] \/ (pre[l] = pre[k] /\ k <= l)
    BY <1>3, <2>1
  <2> QED BY <2>2, Zenon
<1> HIDE DEF pre, k0
<1> PICK k \in 1 .. Len(nuhVct) : k = k0
  BY <1>3, <1>6
<1> DEFINE n == Len(nuhVct[k])
<1>7. p \in 0 .. n - 1 /\ n \in 1 .. M /\ nuhVct[k] \in Seq(Byte)
  BY <1>4, LongestHead DEF M
<1> HIDE DEF p
<1>8. buf' \in Seq(Byte) /\ Len(buf') = p /\ p \in Nat /\ p < M
  <2>1. 1 \in 1 .. n + 1 /\ p \in 1 - 1 .. n /\ p - 1 + 1 = p /\ p \in Nat /\ p < M
    BY <1>3, <1>7
  <2> PICK h \in Seq(Byte) : h = nuhVct[k] /\ Len(h) = n
    BY <1>7
  <2>6. PICK m \in Nat : m = 1
    OBVIOUS
  <2>3. m \in 1 .. Len(h) + 1 /\ p \in m - 1 .. Len(h)
    BY <2>1, <2>6
  <2>2. SubSeq(h, m, p) \in Seq(Byte) /\ Len(SubSeq(h, m, p)) = p - m + 1
    BY <2>3, Part
  <2>4. p \in Nat /\ p < M /\ p - m + 1 = p
    BY ONLY <2>1, <2>6
  <2>5. buf' = SubSeq(h, m, p)
    BY <1>2, <2>6
  <2> HIDE DEF n
  <2> QED BY ONLY <2>2, <2>4, <2>5
<1> HIDE DEF n
<1>9. /\ ftell \in Nat /\ findStartIdx \in Int /\ foundBytes \in Int /\ mNewNuh \in Nat
      /\ ftell \in 0 .. Len(file)
  <2> Len(file) \in Nat /\ ftell \in 0 .. Len(file)
    BY <1>0, LenProperties DEF SplitType
  <2> QED BY <1>0 DEF SplitType
<1>10. SplitType'
  <2>1. findStartIdx' \in Int /\ findStart' \in Nat /\ foundBytes' \in Int /\ preSize' \in Nat
        /\ mNewNuh' \in Nat
    <3> ftell - p \in Int /\ foundBytes + (ftell - findStartIdx - p) \in Int /\ p \in Nat
      BY <1>8, <1>9
    <3> mNewNuh' = mNewNuh
      BY <1>0 DEF S!updateMaxNuh
    <3> QED BY <1>1, <1>2, <1>9
  <2>2. feof' \in BOOLEAN
    BY <1>0, <1>1 DEF SplitType
  <2>3. file' \in Seq(Byte) /\ at' \in {"check", "read", "find", "last", "end"}
        /\ ftell' \in 0 .. Len(file') /\ nuSizeVct' \in Seq(Int) /\ cuts' \in Seq(Int)
    BY <1>0, <1>1 DEF SplitType
  <2> QED BY <1>8, <2>1, <2>2, <2>3 DEF SplitType
<1>11. Running(nuSizeVct, cuts, (findStartIdx - foundBytes) - mNewNuh)'
  <2> ((ftell - p) - (foundBytes + (ftell - findStartIdx - p))) - mNewNuh
        = (findStartIdx - foundBytes) - mNewNuh
    BY <1>8, <1>9
  <2> QED BY <1>0, <1>1, <1>2
<1>12. SplitRead'
  <2>1. (ftell - p) - 0 = ftell - p
    BY <1>8, <1>9
  <2>2. findStartIdx' - findStart' = ftell' - Len(buf')
    BY <1>1, <1>2, <1>8, <2>1
  <2>3. ~feof' /\ preSize' < M /\ \E m \in Nat : ftell' = Piece(m)
    BY <1>0, <1>1, <1>2, <1>8 DEF SplitRead
  <2> QED BY <2>2, <2>3 DEF SplitRead
<1>13. Len(buf') = preSize' /\ ftell' > 0
  <2> ftell >= bytesPerRead
    BY <1>0 DEF SplitFind
  <2> QED BY <1>0, <1>1, <1>2, <1>8, <1>9
<1>14. (cuts # <<>> => cuts[1] = 0)' /\ \A i \in 1 .. Len(cuts') : CutRight(file', cuts'[i])
  BY <1>0, <1>1
<1>15. at' = "read"
  BY <1>1
<1> QED BY ONLY <1>10, <1>11, <1>12, <1>13, <1>14, <1>15 DEF SplitInv

\* The last unit reaches to the end of the file.
LEMMA SplitLast ==
  ASSUME S!SplitAssumption, SplitInv, S!LastUnit
  PROVE  SplitInv'
<1>0. /\ SplitType /\ at = "last" /\ ftell = Len(file)
      /\ Running(nuSizeVct, cuts, (findStartIdx - foundBytes) - mNewNuh)
      /\ (cuts # <<>> => cuts[1] = 0) /\ \A k \in 1 .. Len(cuts) : CutRight(file, cuts[k])
  BY DEF SplitInv, S!LastUnit
<1>1. /\ at' = "end"
      /\ nuSizeVct' = Append(nuSizeVct, foundBytes + (ftell - findStartIdx) + mNewNuh)
      /\ UNCHANGED <<file, ftell, feof, buf, findStart, findStartIdx, mOldNuh, mNewNuh, preSize,
                     foundBytes, cuts>>
  BY DEF S!LastUnit
<1> DEFINE rest == (findStartIdx - foundBytes) - mNewNuh
<1>2. /\ rest \in Int /\ ftell \in Int /\ foundBytes + (ftell - findStartIdx) + mNewNuh = ftell - rest
      /\ nuSizeVct \in Seq(Int) /\ cuts \in Seq(Int)
  BY <1>0 DEF SplitType
<1>3. Running(nuSizeVct, cuts, rest)
  BY <1>0
<1> HIDE DEF rest
<1>4. UnitAdded(cuts, ftell, Append(nuSizeVct, ftell - rest), Append(cuts, ftell))
  BY <1>2, <1>3, OneMoreUnit, Zenon
<1>5. nuSizeVct' \in Seq(Int) /\ Len(nuSizeVct') = Len(cuts) /\ Sized(nuSizeVct', cuts, ftell)
  <2> nuSizeVct' = Append(nuSizeVct, ftell - rest)
    BY <1>1, <1>2
  <2> QED BY <1>4 DEF UnitAdded
<1>6. SplitType'
  <2>1. feof' \in BOOLEAN
    BY <1>0, <1>1 DEF SplitType
  <2>2. /\ file' \in Seq(Byte) /\ at' \in {"check", "read", "find", "last", "end"}
        /\ ftell' \in 0 .. Len(file') /\ buf' \in Seq(Byte) /\ cuts' \in Seq(Int)
        /\ findStart' \in Nat /\ findStartIdx' \in Int /\ mNewNuh' \in Nat /\ preSize' \in Nat
        /\ foundBytes' \in Int
    BY <1>0, <1>1 DEF SplitType
  <2> QED BY <1>5, <2>1, <2>2 DEF SplitType
<1>7. (cuts # <<>> => cuts[1] = 0)' /\ \A i \in 1 .. Len(cuts') : CutRight(file', cuts'[i])
  BY <1>0, <1>1
<1>8. at' = "end" /\ Len(nuSizeVct') = Len(cuts') /\ Sized(nuSizeVct', cuts', Len(file'))
  BY <1>0, <1>1, <1>5
<1> QED BY ONLY <1>6, <1>7, <1>8 DEF SplitInv

\* A head that is in a file begins what follows.
LEMMA HeadBegins ==
  ASSUME S!SplitAssumption, NEW f \in Seq(Byte), NEW c, HeadIn(f, c)
  PROVE  \E k \in DOMAIN nuhVct : S!IsPrefix(nuhVct[k], SubSeq(f, c + 1, Len(f)))
<1> PICK k \in 1 .. Len(nuhVct) :
      c \in Nat /\ c + Len(nuhVct[k]) <= Len(f) /\ \A j \in 1 .. Len(nuhVct[k]) : nuhVct[k][j] = f[c + j]
  BY DEF HeadIn
<1>1. k \in DOMAIN nuhVct
  BY LongestHead
<1>2. PICK h \in Seq(Byte) : h = nuhVct[k]
  BY LongestHead
<1>3. PICK n \in Nat : n = Len(h)
  BY LenProperties
<1>4. PICK l \in Nat : l = Len(f)
  BY LenProperties
<1>5. c + n <= l /\ \A j \in 1 .. n : h[j] = f[c + j]
  BY <1>2, <1>3, <1>4
<1>6. PICK m \in Nat : m = c + 1
  OBVIOUS
<1>7. PICK t : t = SubSeq(f, m, l)
  OBVIOUS
<1>8. m \in 1 .. l + 1 /\ l \in m - 1 .. l /\ n <= l - m + 1
  BY <1>5, <1>6
<1>9. t \in Seq(Byte) /\ Len(t) = l - m + 1 /\ \A j \in 1 .. l - m + 1 : t[j] = f[m + j - 1]
  <2>1. m \in 1 .. Len(f) + 1 /\ l \in m - 1 .. Len(f)
    BY <1>4, <1>8
  <2>2. /\ SubSeq(f, m, l) \in Seq(Byte) /\ Len(SubSeq(f, m, l)) = l - m + 1
        /\ \A j \in 1 .. l - m + 1 : SubSeq(f, m, l)[j] = f[m + j - 1]
    BY <2>1, Part
  <2> QED BY <1>7, <2>2
<1>10. \A j \in 1 .. n : j \in 1 .. l - m + 1 /\ m + j - 1 = c + j
  <2>1. n \in Nat /\ l \in Nat /\ m \in Nat /\ c \in Nat
    OBVIOUS
  <2> QED BY ONLY <1>6, <1>8, <2>1
<1>11. \A j \in 1 .. n : h[j] = t[j]
  BY <1>5, <1>9, <1>10
<1>12. S!IsPrefix(h, t)
  BY <1>3, <1>8, <1>9, <1>11, PrefixFacts
<1> QED BY <1>1, <1>2, <1>4, <1>6, <1>7, <1>12

\* The invariant is what is claimed of the sizes and of the cuts.
LEMMA SplitShows ==
  ASSUME S!SplitAssumption, SplitInv
  PROVE  S!SizesPartition /\ S!CutsAtHeads
<1>0. SplitType /\ (cuts # <<>> => cuts[1] = 0) /\ \A k \in 1 .. Len(cuts) : CutRight(file, cuts[k])
  BY DEF SplitInv
<1>1. /\ file \in Seq(Byte) /\ Len(file) \in Nat /\ cuts \in Seq(Int) /\ nuSizeVct \in Seq(Int)
      /\ Len(cuts) \in Nat /\ DOMAIN cuts = 1 .. Len(cuts)
  BY <1>0, LenProperties DEF SplitType
<1>2. S!SizesPartition
  <2>1. CASE at = "check"
    BY <2>1 DEF SplitInv, S!SizesPartition
  <2>2. CASE at \in {"read", "find", "last"}
    <3>1. Running(nuSizeVct, cuts, (findStartIdx - foundBytes) - mNewNuh)
      BY <2>2 DEF SplitInv
    <3>2. Len(cuts) = Len(nuSizeVct) + 1 /\ Sized(nuSizeVct, cuts, 0)
      BY <3>1 DEF Running
    <3>3. ASSUME NEW k \in 1 .. Len(nuSizeVct)
          PROVE  nuSizeVct[k] = (IF k < Len(cuts) THEN cuts[k + 1] ELSE Len(file)) - cuts[k]
      <4> Len(nuSizeVct) \in Nat
        BY <1>1, LenProperties
      <4> k < Len(cuts)
        BY <3>2
      <4> QED BY <3>2 DEF Sized
    <3> QED BY <1>0, <2>2, <3>3 DEF S!SizesPartition
  <2>3. CASE at = "end"
    <3> Len(nuSizeVct) = Len(cuts) /\ Sized(nuSizeVct, cuts, Len(file))
      BY <2>3 DEF SplitInv
    <3> QED BY <1>0 DEF S!SizesPartition, Sized
  <2> QED BY <1>0, <2>1, <2>2, <2>3 DEF SplitType
<1>3. S!CutsAtHeads
  <2> SUFFICES ASSUME NEW j \in 1 .. Len(cuts)
               PROVE  \/ \E k \in DOMAIN nuhVct :
                           S!IsPrefix(nuhVct[k], SubSeq(file, cuts[j] + 1, Len(file)))
                      \/ S!Straddles(cuts[j]) \/ Len(file) < S!getMaxNaluhSzie
    BY <1>1 DEF S!CutsAtHeads
  <2> PICK c : c = cuts[j]
    OBVIOUS
  <2>1. CASE HeadIn(file, c)
    BY <1>1, <2>1, HeadBegins
  <2>2. CASE \E m \in 1 .. Len(file) : c < Piece(m) /\ Piece(m) < c + M
    BY <2>2 DEF S!Straddles, Piece, M
  <2>3. CASE Len(file) < M
    BY <2>3 DEF M
  <2> QED BY <1>0, <2>1, <2>2, <2>3 DEF CutRight
<1> QED BY <1>2, <1>3

\* A step of BinSplit.
LEMMA SplitStep ==
  ASSUME S!SplitAssumption, SplitInv, S!Next
  PROVE  SplitInv'
<1>1. CASE S!checkAndPreread
  BY <1>1, SplitCheck
<1>2. CASE S!Read
  BY <1>2, SplitReads
<1>3. CASE S!findNextNalu
  BY <1>3, SplitFinds
<1>4. CASE S!updateMaxNuh
  BY <1>4, SplitCarries
<1>5. CASE S!LastUnit
  BY <1>5, SplitLast
<1> QED BY <1>1, <1>2, <1>3, <1>4, <1>5 DEF S!Next, S!RunSplit

\* A step of BinSplit, or of nothing it keeps.
LEMMA SplitStutter ==
  ASSUME S!SplitAssumption, SplitInv, S!Next \/ UNCHANGED S!vars
  PROVE  SplitInv'
<1>1. CASE S!Next
  BY <1>1, SplitStep
<1>2. CASE UNCHANGED S!vars
  <2>1. SplitType'
    <3>1. SplitType
      BY DEF SplitInv
    <3>2. feof' \in BOOLEAN
      BY <1>2, <3>1 DEF SplitType, S!vars
    <3> QED BY <1>2, <3>1, <3>2 DEF SplitType, S!vars
  <2>2. SplitRead' = SplitRead /\ SplitFind' = SplitFind
    BY <1>2 DEF SplitRead, SplitFind, S!vars
  <2>3. UNCHANGED <<at, cuts, file, nuSizeVct, buf, preSize, ftell, feof, foundBytes, findStartIdx, mNewNuh>>
    BY <1>2 DEF S!vars
  <2> QED BY <2>1, <2>2, <2>3 DEF SplitInv
<1> QED BY <1>1, <1>2

\* The sizes partition the file and the cuts are at heads, for every file, every list of
\* heads and every size of the pieces.
THEOREM SizesCoverFile ==
  S!SplitAssumption => (S!Spec => [](S!SizesPartition /\ S!CutsAtHeads))
<1> SUFFICES ASSUME S!SplitAssumption PROVE S!Spec => [](S!SizesPartition /\ S!CutsAtHeads)
  OBVIOUS
<1>1. S!Init => SplitInv
  BY SplitStart
<1>2. SplitInv /\ [S!Next]_(S!vars) => SplitInv'
  BY SplitStutter
<1>3. SplitInv => S!SizesPartition /\ S!CutsAtHeads
  BY SplitShows
<1> QED BY <1>1, <1>2, <1>3, PTL DEF S!Spec

\* The same for the tools as they are checked.
THEOREM ToolsPartitionFile == S!SplitAssumption => (ToolsSpec => []UnitsPartitionFile)
<1> SUFFICES ASSUME S!SplitAssumption PROVE ToolsSpec => []UnitsPartitionFile
  OBVIOUS
<1> DEFINE I == tool = "binSplit" => SplitInv
<1>1. ToolsInit => I
  BY SplitStart DEF ToolsInit
<1>2. I /\ [ToolsNext]_all => I'
  <2> SUFFICES ASSUME I, [ToolsNext]_all, tool' = "binSplit" PROVE SplitInv'
    OBVIOUS
  <2>1. tool' = tool
    BY DEF ToolsNext, RunBase64, RunPkgSort, RunBinSplit, all
  <2>2. SplitInv
    BY <2>1
  <2>3. S!Next \/ UNCHANGED S!vars
    BY <2>1 DEF ToolsNext, RunBase64, RunPkgSort, RunBinSplit, all, shared, binSplit, S!vars
  <2> QED BY <2>2, <2>3, SplitStutter
<1>3. I => UnitsPartitionFile
  BY SplitShows DEF UnitsPartitionFile
<1> HIDE DEF I
<1> QED BY <1>1, <1>2, <1>3, PTL DEF ToolsSpec
-----------------------------------------------------------------------------
\* A number below m * k is put together of a quotient below m and a remainder.
LEMMA Parted ==
  ASSUME NEW k \in Nat \ {0}, NEW m \in Nat, NEW x \in Nat, x < m * k
  PROVE  /\ x \div k \in Nat /\ x % k \in Nat /\ x % k < k /\ x = ((x \div k) * k) + (x % k)
         /\ x \div k < m
<1> DEFINE q == x \div k
           s == x % k
<1>1. q \in Int /\ s \in 0 .. k - 1 /\ x = k * q + s
  OBVIOUS
<1> HIDE DEF q, s
<1>2. q >= 0
  <2> SUFFICES ASSUME q <= -1 PROVE FALSE
    BY <1>1
  <2> k * q <= 0 - k
    BY <1>1
  <2> QED BY <1>1
<1>3. q < m
  <2> SUFFICES ASSUME q >= m PROVE FALSE
    BY <1>1
  <2> k * q >= k * m
    BY <1>1
  <2> k * q \in Int /\ k * m = m * k
    BY <1>1
  <2> QED BY <1>1
<1>4. k * q = q * k
  BY <1>1
<1> QED BY <1>1, <1>2, <1>3, <1>4 DEF q, s

\* The powers of the quarter.
LEMMA Powers ==
  ASSUME B!Base64Assumption
  PROVE  /\ \A n \in 1 .. 4 : B!Pow(n) \in Nat /\ B!Pow(n) > 1
         /\ B!Pow(2) = B!Pow(1) * B!Pow(1)
         /\ B!Pow(3) = B!Pow(2) * B!Pow(1) /\ B!Pow(3) = B!Pow(1) * B!Pow(2)
         /\ B!Pow(4) = B!Pow(3) * B!Pow(1) /\ B!Pow(4) = B!Pow(2) * B!Pow(2)
         /\ B!Pow(4) = B!Pow(1) * B!Pow(3)
         /\ B!Pow(3) > 3 /\ Figures \in 1 .. B!Pow(3) - 3
<1> DEFINE q == Quarter
           r == q * q
           s == r * q
           t == s * q
<1>1. q \in Nat /\ q > 1
  BY DEF B!Base64Assumption
<1>2. r \in Nat /\ r >= 2 * q
  BY <1>1
<1> HIDE DEF r
<1>3. s \in Nat /\ s >= 2 * r
  BY <1>1, <1>2
<1> HIDE DEF s
<1>4. t \in Nat /\ t >= 2 * s
  BY <1>1, <1>3
<1>5. B!Pow(1) = q /\ B!Pow(2) = r /\ B!Pow(3) = s /\ B!Pow(4) = t
  <2>1. s = (q * q) * q /\ t = ((q * q) * q) * q
    BY DEF r, s
  <2> QED BY <2>1 DEF B!Pow, r
<1>6. s = q * r /\ t = r * r /\ t = q * s
  <2>1. s = q * r
    BY <1>1, <1>2 DEF s
  <2>2. t = r * r
    <3>1. t = (r * q) * q
      BY DEF s
    <3>2. (r * q) * q = r * (q * q)
      BY <1>1, <1>2
    <3> QED BY <3>1, <3>2 DEF r
  <2>3. t = q * s
    BY <1>1, <1>3
  <2> QED BY <2>1, <2>2, <2>3
<1>7. Figures \in 1 .. s - 3
  BY <1>5 DEF B!Base64Assumption
<1>8. \A n \in 1 .. 4 : n = 1 \/ n = 2 \/ n = 3 \/ n = 4
  OBVIOUS
<1> HIDE DEF t
<1>9. r > 1 /\ s > 3 /\ t > 1 /\ s > 1
  BY <1>1, <1>2, <1>3, <1>4
<1>10. \A n \in 1 .. 4 : B!Pow(n) \in Nat /\ B!Pow(n) > 1
  BY <1>1, <1>2, <1>3, <1>4, <1>5, <1>8, <1>9
<1>11. r = q * q /\ s = r * q /\ t = s * q
  BY DEF r, s, t
<1> QED BY <1>5, <1>6, <1>7, <1>9, <1>10, <1>11

\* The figures come first in the alphabet of fileBase64: its characters are moved.
Moved(d) ==
  LET n == B!Pow(3) - 2
  IN  IF d >= n THEN d ELSE IF d < Figures THEN d + n - Figures ELSE d - Figures

\* The character of a digit in each alphabet.
LEMMA FileChar ==
  ASSUME B!Base64Assumption, NEW d \in B!Digits
  PROVE  B!base64Char("fileBase64", d) = Moved(d) /\ B!base64Char("myBase64", d) = d
<1> DEFINE n == B!Pow(3) - 2
<1>1. n \in Nat \ {0, 1} /\ Figures \in 1 .. n - 1 /\ d \in 0 .. n + 1
  BY Powers DEF B!Digits
<1>2. B!base64Char("myBase64", d) = d
  BY DEF B!base64Char, B!base64Char_my
<1>3. B!base64Char("fileBase64", d) = IF d >= n THEN d ELSE (d + B!Pow(3) - 2 - Figures) % n
  BY DEF B!base64Char, B!base64Char_file
<1>4. d + B!Pow(3) - 2 - Figures = d + n - Figures
  BY <1>1, Powers
<1> HIDE DEF n
<1>5. CASE d >= n
  BY <1>2, <1>3, <1>5 DEF Moved, n
<1>6. CASE d < Figures
  <2>1. PICK r \in Nat : r = d + n - Figures /\ r < n
    BY <1>1, <1>6
  <2>2. ((0 * n) + r) % n = r
    BY <1>1, <2>1, Quotient
  <2>3. (0 * n) + r = d + n - Figures
    BY <1>1, <2>1
  <2>4. (d + n - Figures) % n = d + n - Figures
    BY <2>1, <2>2, <2>3
  <2>5. ~(d >= n)
    BY <1>1, <1>6
  <2> QED BY <1>2, <1>3, <1>4, <1>6, <2>4, <2>5 DEF Moved, n
<1>7. CASE ~(d >= n) /\ ~(d < Figures)
  <2>1. PICK r \in Nat : r = d - Figures /\ r < n
    BY <1>1, <1>7
  <2>2. ((1 * n) + r) % n = r
    BY <1>1, <2>1, Quotient
  <2>3. (1 * n) + r = d + n - Figures
    BY <1>1, <2>1
  <2>4. (d + n - Figures) % n = d - Figures
    BY <2>1, <2>2, <2>3
  <2> QED BY <1>2, <1>3, <1>4, <1>7, <2>4 DEF Moved, n
<1> QED BY <1>2, <1>5, <1>6, <1>7

\* A digit's character is a digit again, and differs between the programs but for the
\* last two.
LEMMA Characters ==
  ASSUME B!Base64Assumption, NEW p \in B!Programs
  PROVE  /\ \A d \in B!Digits : B!base64Char(p, d) \in B!Digits
         /\ \A d, e \in B!Digits : B!base64Char(p, d) = B!base64Char(p, e) => d = e
         /\ \A d \in B!Digits, o \in B!Programs :
              B!base64Char(p, d) < B!Pow(3) - 2 /\ o # p => B!base64Char(o, d) # B!base64Char(p, d)
         /\ \A d \in B!Digits : B!base64Char(p, d) < B!Pow(3) - 2 <=> d < B!Pow(3) - 2
<1> DEFINE n == B!Pow(3) - 2
<1>1. n \in Nat \ {0, 1} /\ Figures \in 1 .. n - 1 /\ B!Digits = 0 .. n + 1
  <2>1. n \in Nat \ {0, 1} /\ Figures \in 1 .. n - 1
    BY Powers
  <2>2. B!Pow(3) - 1 = n + 1
    BY Powers
  <2> QED BY <2>1, <2>2 DEF B!Digits
<1>2. \A d \in B!Digits : B!base64Char("fileBase64", d) = Moved(d) /\ B!base64Char("myBase64", d) = d
  BY FileChar
<1>3. \A d \in B!Digits : Moved(d) = IF d >= n THEN d ELSE IF d < Figures THEN d + n - Figures ELSE d - Figures
  BY DEF Moved
<1>4. B!Programs = {"fileBase64", "myBase64"}
  BY DEF B!Programs
<1> HIDE DEF n
<1>5. \A d \in B!Digits : /\ Moved(d) \in B!Digits /\ (Moved(d) < n <=> d < n)
                          /\ (Moved(d) < n => Moved(d) # d)
  BY <1>1, <1>3
<1>6. \A d, e \in B!Digits : Moved(d) = Moved(e) => d = e
  BY <1>1, <1>3
<1>7. p = "fileBase64" \/ p = "myBase64"
  BY <1>4
<1>8. (\A d \in B!Digits : B!base64Char(p, d) \in B!Digits)
      /\ \A d, e \in B!Digits : B!base64Char(p, d) = B!base64Char(p, e) => d = e
  BY <1>2, <1>5, <1>6, <1>7
<1>9. \A d \in B!Digits : B!base64Char(p, d) < n <=> d < n
  BY <1>2, <1>5, <1>7
<1>10. ASSUME NEW d \in B!Digits, NEW o \in B!Programs, B!base64Char(p, d) < n, o # p
       PROVE  B!base64Char(o, d) # B!base64Char(p, d)
  <2>1. Moved(d) # d
    BY <1>5, <1>9, <1>10
  <2> QED BY <1>2, <1>4, <1>7, <1>10, <2>1
<1> QED BY <1>8, <1>9, <1>10 DEF n

\* A character is read as the digit it was written for, and by the other program as
\* another one.
LEMMA Decoded ==
  ASSUME B!Base64Assumption, NEW p \in B!Programs, NEW d \in B!Digits
  PROVE  /\ B!digit(p, B!base64Char(p, d)) = d
         /\ \A o \in B!Programs : B!base64Char(p, d) < B!Pow(3) - 2 /\ o # p =>
              /\ B!digit(o, B!base64Char(p, d)) \in B!Digits
              /\ B!digit(o, B!base64Char(p, d)) # d
<1> DEFINE ch == B!base64Char(p, d)
<1>1. B!digit(p, ch) = d
  <2>1. \E e \in B!Digits : B!base64Char(p, e) = ch
    OBVIOUS
  <2>2. B!digit(p, ch) = CHOOSE e \in B!Digits : B!base64Char(p, e) = ch
    BY <2>1, Zenon DEF B!digit
  <2>3. B!digit(p, ch) \in B!Digits /\ B!base64Char(p, B!digit(p, ch)) = ch
    BY <2>1, <2>2, Zenon
  <2> QED BY <2>3, Characters
<1>2. ASSUME NEW o \in B!Programs, ch < B!Pow(3) - 2, o # p
      PROVE  B!digit(o, ch) \in B!Digits /\ B!digit(o, ch) # d
  <2>1. B!base64Char(o, d) # ch
    BY <1>2, Characters
  <2>2. \E e \in B!Digits : B!base64Char(o, e) = ch
    <3> DEFINE n == B!Pow(3) - 2
    <3>1. n \in Nat \ {0, 1} /\ Figures \in 1 .. n - 1 /\ B!Digits = 0 .. n + 1
      <4>1. n \in Nat \ {0, 1} /\ Figures \in 1 .. n - 1
        BY Powers
      <4>2. B!Pow(3) - 1 = n + 1
        BY Powers
      <4> QED BY <4>1, <4>2 DEF B!Digits
    <3>2. ch \in B!Digits /\ ch < n
      BY <1>2, Characters
    <3>3. \A e \in B!Digits : Moved(e) = IF e >= n THEN e ELSE IF e < Figures THEN e + n - Figures ELSE e - Figures
      BY DEF Moved
    <3>4. \A e \in B!Digits : B!base64Char("fileBase64", e) = Moved(e) /\ B!base64Char("myBase64", e) = e
      BY FileChar
    <3> HIDE DEF n, ch
    <3>5. CASE o = "myBase64"
      BY <3>2, <3>4, <3>5
    <3>6. CASE o = "fileBase64"
      <4>1. CASE ch + Figures < n
        <5> ch + Figures \in B!Digits /\ Moved(ch + Figures) = ch
          BY <3>1, <3>2, <3>3, <4>1
        <5> QED BY <3>4, <3>6
      <4>2. CASE ~(ch + Figures < n)
        <5> DEFINE e == ch + Figures - n
        <5>1. e \in B!Digits /\ e < Figures /\ ~(e >= n)
          BY <3>1, <3>2, <4>2
        <5>2. e + n - Figures = ch
          BY <3>1, <3>2
        <5> HIDE DEF e
        <5>3. Moved(e) = ch
          BY <3>3, <5>1, <5>2
        <5> QED BY <3>4, <3>6, <5>1, <5>3
      <4> QED BY <4>1, <4>2
    <3> QED BY <3>5, <3>6 DEF B!Programs
  <2>3. B!digit(o, ch) = CHOOSE e \in B!Digits : B!base64Char(o, e) = ch
    BY <2>2, Zenon DEF B!digit
  <2>4. B!digit(o, ch) \in B!Digits /\ B!base64Char(o, B!digit(o, ch)) = ch
    BY <2>2, <2>3, Zenon
  <2> QED BY <2>1, <2>4
<1> QED BY <1>1, <1>2

\* Two numbers put side by side: h above, y below.
LEMMA Packed ==
  ASSUME NEW m \in Nat, NEW i \in Nat \ {0}, NEW h \in Nat, h < m, NEW y \in Nat, y < i
  PROVE  /\ (h * i) + y \in Nat /\ (h * i) + y < m * i
         /\ ((h * i) + y) \div i = h /\ ((h * i) + y) % i = y /\ y % i = y
<1>1. ((h * i) + y) \div i = h /\ ((h * i) + y) % i = y
  BY Quotient
<1>2. PICK n \in Nat : n = (m - h) - 1
  OBVIOUS
<1>3. m * i = ((h * i) + i) + (n * i) /\ n * i \in Nat /\ h * i \in Nat
  <2>1. m = (h + 1) + n
    BY <1>2
  <2>2. ((h + 1) + n) * i = ((h * i) + i) + (n * i)
    OBVIOUS
  <2>3. n * i \in Nat /\ h * i \in Nat
    OBVIOUS
  <2> QED BY <2>1, <2>2, <2>3
<1>4. (h * i) + y \in Nat /\ (h * i) + y < m * i
  BY <1>3
<1>5. ((0 * i) + y) % i = y
  <2>1. 0 \in Nat
    OBVIOUS
  <2> QED BY <2>1, Quotient
<1>6. (0 * i) + y = y
  OBVIOUS
<1> QED BY <1>1, <1>4, <1>5, <1>6

\* Shifting h and q up by k and cutting them to j * k leaves q.
IsShifted(j, k, h, q) == (((h * j) + q) * k) % (j * k) = q * k

\* What is shifted out of a byte does not count.
LEMMA Shifted ==
  ASSUME NEW j \in Nat \ {0}, NEW k \in Nat \ {0}, NEW h \in Nat, NEW q \in Nat, q < j
  PROVE  IsShifted(j, k, h, q)
<1>1. j * k \in Nat \ {0} /\ q * k \in Nat /\ q * k < j * k
  <2>1. 0 \in Nat /\ 0 < k /\ (q * k) + 0 = q * k
    OBVIOUS
  <2>2. (q * k) + 0 \in Nat /\ (q * k) + 0 < j * k
    BY <2>1, Packed
  <2>3. j * k \in Nat
    OBVIOUS
  <2> QED BY <2>1, <2>2, <2>3
<1>2. PICK w \in Nat \ {0} : w = j * k
  BY <1>1
<1>3. PICK r \in Nat : r = q * k /\ r < w
  BY <1>1, <1>2
<1>4. ((h * j) + q) * k = (h * w) + r
  <2>1. ((h * j) + q) * k = ((h * j) * k) + (q * k)
    OBVIOUS
  <2>2. (h * j) * k = h * (j * k)
    OBVIOUS
  <2> QED BY <1>2, <1>3, <2>1, <2>2
<1>5. ((h * w) + r) % w = r
  BY <1>3, Quotient
<1> QED BY <1>2, <1>3, <1>4, <1>5 DEF IsShifted

\* A byte is put together again from the lower part of one digit and the upper part of
\* the next.
IsRejoined(j, k, h, x, i, y) ==
  /\ ((((h * j) + (x \div k)) * k) % (j * k)) + (((((x % k) * i) + y) \div i) % k) = x
  /\ ((x % k) * i) + y \in Nat /\ ((x % k) * i) + y < k * i

\* The parts of a number in two digits, put together again.
LEMMA Rejoined ==
  ASSUME NEW j \in Nat \ {0}, NEW k \in Nat \ {0}, NEW h \in Nat, NEW x \in Nat, x < j * k,
         NEW i \in Nat \ {0}, NEW y \in Nat, y < i
  PROVE  IsRejoined(j, k, h, x, i, y)
<1>1. x \div k \in Nat /\ x % k \in Nat /\ x % k < k /\ x = ((x \div k) * k) + (x % k) /\ x \div k < j
  BY Parted, Zenon
<1> DEFINE q == x \div k
           r == x % k
<1>2. q \in Nat /\ r \in Nat /\ r < k /\ x = (q * k) + r /\ q < j
  BY <1>1, Zenon
<1> HIDE DEF q, r
<1>3. (((h * j) + q) * k) % (j * k) = q * k
  <2>1. q \in Nat /\ q < j
    BY <1>2
  <2>2. IsShifted(j, k, h, q)
    BY <2>1, Shifted, Zenon
  <2> QED BY <2>2, Zenon DEF IsShifted
<1>4. ((r * i) + y) \div i = r /\ (r * i) + y \in Nat /\ (r * i) + y < k * i
  BY <1>2, Packed
<1>5. r % k = r
  <2> k \in Nat /\ 0 \in Nat /\ 0 < k
    OBVIOUS
  <2> QED BY <1>2, Packed
<1>6. ((((h * j) + q) * k) % (j * k)) + ((((r * i) + y) \div i) % k) = x
  BY <1>2, <1>3, <1>4, <1>5
<1> QED BY <1>4, <1>6, Zenon DEF q, r, IsRejoined

\* The digits of three bytes.
First(x)     == x \div B!Pow(1)
\* The second digit of two bytes.
Second(x, y) == ((x % B!Pow(1)) * B!Pow(2)) + (y \div B!Pow(2))
Third(y, z)  == ((y % B!Pow(2)) * B!Pow(1)) + (z \div B!Pow(3))
Fourth(z)    == z % B!Pow(3)

\* The bytes that four digits make.
FirstByte(t, u)  == ((t * B!Pow(1)) % B!Pow(4)) + ((u \div B!Pow(2)) % B!Pow(1))
\* The second byte of two digits.
SecondByte(u, v) == ((u * B!Pow(2)) % B!Pow(4)) + ((v \div B!Pow(1)) % B!Pow(2))
ThirdByte(v, w)  == ((v * B!Pow(3)) % B!Pow(4)) + (w % B!Pow(3))

\* Three bytes are put together again from their four digits.
LEMMA FourDigits ==
  ASSUME B!Base64Assumption, NEW x \in B!Bytes, NEW y \in B!Bytes, NEW z \in B!Bytes
  PROVE  /\ First(x) \in B!Digits /\ Second(x, y) \in B!Digits
         /\ Third(y, z) \in B!Digits /\ Fourth(z) \in B!Digits
         /\ FirstByte(First(x), Second(x, y)) = x
         /\ SecondByte(Second(x, y), Third(y, z)) = y
         /\ ThirdByte(Third(y, z), Fourth(z)) = z
<1>1. PICK a \in Nat \ {0}, b \in Nat \ {0}, c \in Nat \ {0}, w \in Nat :
        /\ a = B!Pow(1) /\ b = B!Pow(2) /\ c = B!Pow(3) /\ w = B!Pow(4)
        /\ c = b * a /\ c = a * b /\ w = c * a /\ w = b * b /\ w = a * c
  <2> 1 \in 1 .. 4 /\ 2 \in 1 .. 4 /\ 3 \in 1 .. 4 /\ 4 \in 1 .. 4
    OBVIOUS
  <2> QED BY Powers
<1>20. a \in Nat /\ b \in Nat /\ c \in Nat
  OBVIOUS
<1>2. x \in Nat /\ x < w /\ y \in Nat /\ y < w /\ z \in Nat /\ z < w
  BY <1>1 DEF B!Bytes
<1>3. x < c * a /\ y < b * b /\ z < a * c
  BY <1>1, <1>2
<1>4. x \div a \in Nat /\ x \div a < c
  BY <1>2, <1>3, <1>20, Parted, Zenon
<1>5. y \div b \in Nat /\ y \div b < b
  BY <1>2, <1>3, <1>20, Parted, Zenon
<1>6. z \div c \in Nat /\ z \div c < a
  BY <1>2, <1>3, <1>20, Parted, Zenon
<1>7. x % a \in Nat /\ y % b \in Nat /\ z % c \in Nat /\ z % c < c
  BY <1>2
<1>8. IsRejoined(c, a, 0, x, b, y \div b)
  <2> 0 \in Nat
    OBVIOUS
  <2> QED BY <1>2, <1>3, <1>5, Rejoined, Zenon
<1>9. IsRejoined(b, b, x % a, y, a, z \div c)
  BY <1>2, <1>3, <1>6, <1>7, Rejoined, Zenon
<1>10. IsRejoined(a, c, y % b, z, 1, 0)
  <2> 1 \in Nat \ {0} /\ 0 \in Nat /\ 0 < 1
    OBVIOUS
  <2> QED BY <1>2, <1>3, <1>7, Rejoined, Zenon
<1>11. (0 * c) + (x \div a) = x \div a /\ (((z % c) * 1) + 0) \div 1 = z % c
  BY <1>4, <1>7
<1>12. /\ First(x) = x \div a /\ Second(x, y) = ((x % a) * b) + (y \div b)
       /\ Third(y, z) = ((y % b) * a) + (z \div c) /\ Fourth(z) = z % c
  BY <1>1, Zenon DEF First, Second, Third, Fourth
<1>13. \A n \in Nat : n < c => n \in B!Digits
  <2> B!Digits = 0 .. c - 1
    BY <1>1, Zenon DEF B!Digits
  <2> QED OBVIOUS
<1>14. /\ First(x) \in B!Digits /\ Second(x, y) \in B!Digits
       /\ Third(y, z) \in B!Digits /\ Fourth(z) \in B!Digits
  BY <1>1, <1>4, <1>7, <1>8, <1>9, <1>12, <1>13, Zenon DEF IsRejoined
<1>15. ((First(x) * a) % w) + ((Second(x, y) \div b) % a) = x
  BY <1>1, <1>8, <1>11, <1>12, Zenon DEF IsRejoined
<1>16. ((Second(x, y) * b) % w) + ((Third(y, z) \div a) % b) = y
  BY <1>1, <1>9, <1>12, Zenon DEF IsRejoined
<1>17. ((Third(y, z) * c) % w) + (Fourth(z) % c) = z
  BY <1>1, <1>10, <1>11, <1>12, Zenon DEF IsRejoined
<1> QED BY <1>1, <1>14, <1>15, <1>16, <1>17, Zenon DEF FirstByte, SecondByte, ThirdByte

\* The first of two digits decides the byte they begin.
LEMMA FirstDigit ==
  ASSUME B!Base64Assumption, NEW d \in B!Digits, NEW e \in Nat, NEW x \in B!Bytes, d # First(x)
  PROVE  FirstByte(d, e) # x
<1>1. PICK a \in Nat \ {0}, b \in Nat \ {0}, c \in Nat \ {0}, w \in Nat :
        a = B!Pow(1) /\ b = B!Pow(2) /\ c = B!Pow(3) /\ w = B!Pow(4) /\ w = c * a
  <2> 1 \in 1 .. 4 /\ 2 \in 1 .. 4 /\ 3 \in 1 .. 4 /\ 4 \in 1 .. 4
    OBVIOUS
  <2> QED BY Powers
<1>2. d \in Nat /\ d < c
  BY <1>1 DEF B!Digits
<1>3. (d * a) % w = d * a
  <2>1. IsShifted(c, a, 0, d)
    <3> 0 \in Nat
      OBVIOUS
    <3> QED BY <1>2, Shifted, Zenon
  <2>2. (0 * c) + d = d
    BY <1>2
  <2> QED BY <1>1, <2>1, <2>2, Zenon DEF IsShifted
<1>4. e \div b \in Int
  OBVIOUS
<1>5. PICK r \in Nat : r = (e \div b) % a /\ r < a
  BY <1>4
<1>6. ((d * a) + r) \div a = d
  BY <1>2, <1>5, Quotient
<1>7. First(x) = x \div a
  BY <1>1 DEF First
<1>8. ((d * a) % w) + ((e \div b) % a) # x
  BY <1>1, <1>3, <1>5, <1>6, <1>7
<1> QED BY <1>1, <1>8, Zenon DEF FirstByte

\* base64Decode makes one to three bytes of four characters.
Made(p, s, i) ==
  IF s[i + 2] = B!EQ THEN <<FirstByte(B!digit(p, s[i]), B!digit(p, s[i + 1]))>>
  ELSE IF s[i + 3] = B!EQ
       THEN <<FirstByte(B!digit(p, s[i]), B!digit(p, s[i + 1])),
              SecondByte(B!digit(p, s[i + 1]), B!digit(p, s[i + 2]))>>
       ELSE <<FirstByte(B!digit(p, s[i]), B!digit(p, s[i + 1])),
              SecondByte(B!digit(p, s[i + 1]), B!digit(p, s[i + 2])),
              ThirdByte(B!digit(p, s[i + 2]), B!digit(p, s[i + 3]))>>

\* What a character is read as is a number, whatever it is.
LEMMA Numbers ==
  ASSUME B!Base64Assumption, NEW p \in B!Programs
  PROVE  \A ch : B!digit(p, ch) \in Nat
<1>1. B!Digits \subseteq Nat /\ B!Pow(4) - 1 \in Nat
  <2> 4 \in 1 .. 4 /\ 3 \in 1 .. 4
    OBVIOUS
  <2> QED BY Powers DEF B!Digits
<1> TAKE ch
<1>2. CASE \E d \in B!Digits : B!base64Char(p, d) = ch
  <2>1. B!digit(p, ch) = CHOOSE d \in B!Digits : B!base64Char(p, d) = ch
    BY <1>2, Zenon DEF B!digit
  <2> QED BY <1>1, <1>2, <2>1, Zenon
<1>3. CASE ~\E d \in B!Digits : B!base64Char(p, d) = ch
  <2>1. B!digit(p, ch) = B!Pow(4) - 1
    BY <1>3, Zenon DEF B!digit
  <2> QED BY <1>1, <2>1, Zenon
<1> QED BY <1>2, <1>3, Zenon

\* The bytes of a quantum, by its number of '='.
LEMMA Unquantum ==
  ASSUME B!Base64Assumption, NEW p \in B!Programs, NEW s, NEW i \in Nat
  PROVE  /\ B!unquantum(p, s, i) = Made(p, s, i)
         /\ B!unquantum(p, s, i) \in Seq(Int)
         /\ Len(B!unquantum(p, s, i)) = IF s[i + 2] = B!EQ THEN 1 ELSE IF s[i + 3] = B!EQ THEN 2 ELSE 3
         /\ B!unquantum(p, s, i)[1] = FirstByte(B!digit(p, s[i]), B!digit(p, s[i + 1]))
<1>1. i + 0 = i
  OBVIOUS
<1>2. B!unquantum(p, s, i) = Made(p, s, i)
  BY <1>1, Zenon DEF B!unquantum, Made, FirstByte, SecondByte, ThirdByte
<1>3. \A ch : B!digit(p, ch) \in Nat
  BY Numbers, Zenon
<1>4. \A t, u \in Nat : FirstByte(t, u) \in Int /\ SecondByte(t, u) \in Int /\ ThirdByte(t, u) \in Int
  <2>1. \A n \in 1 .. 4 : B!Pow(n) \in Nat \ {0}
    BY Powers
  <2>2. PICK a \in Nat \ {0}, b \in Nat \ {0}, c \in Nat \ {0}, w \in Nat \ {0} :
          a = B!Pow(1) /\ b = B!Pow(2) /\ c = B!Pow(3) /\ w = B!Pow(4)
    <3> 1 \in 1 .. 4 /\ 2 \in 1 .. 4 /\ 3 \in 1 .. 4 /\ 4 \in 1 .. 4
      OBVIOUS
    <3> QED BY <2>1
  <2> TAKE t, u \in Nat
  <2>3. ((t * a) % w) + ((u \div b) % a) \in Int
    <3> t * a \in Nat /\ u \div b \in Int
      OBVIOUS
    <3> QED OBVIOUS
  <2>4. ((t * b) % w) + ((u \div a) % b) \in Int
    <3> t * b \in Nat /\ u \div a \in Int
      OBVIOUS
    <3> QED OBVIOUS
  <2>5. ((t * c) % w) + (u % c) \in Int
    <3> t * c \in Nat
      OBVIOUS
    <3> QED OBVIOUS
  <2> QED BY <2>2, <2>3, <2>4, <2>5, Zenon DEF FirstByte, SecondByte, ThirdByte
<1> DEFINE one == FirstByte(B!digit(p, s[i]), B!digit(p, s[i + 1]))
           two == SecondByte(B!digit(p, s[i + 1]), B!digit(p, s[i + 2]))
           three == ThirdByte(B!digit(p, s[i + 2]), B!digit(p, s[i + 3]))
<1>5. one \in Int /\ two \in Int /\ three \in Int
  BY <1>3, <1>4, Zenon
<1>6. Made(p, s, i) = IF s[i + 2] = B!EQ THEN <<one>> ELSE IF s[i + 3] = B!EQ THEN <<one, two>> ELSE <<one, two, three>>
  BY Zenon DEF Made
<1> HIDE DEF one, two, three
<1>7. /\ Made(p, s, i) \in Seq(Int)
      /\ Len(Made(p, s, i)) = IF s[i + 2] = B!EQ THEN 1 ELSE IF s[i + 3] = B!EQ THEN 2 ELSE 3
      /\ Made(p, s, i)[1] = one
  <2>1. <<one>> \in Seq(Int) /\ <<one, two>> \in Seq(Int) /\ <<one, two, three>> \in Seq(Int)
    BY <1>5
  <2>2. CASE s[i + 2] = B!EQ
    BY <1>6, <2>1, <2>2
  <2>3. CASE s[i + 2] # B!EQ /\ s[i + 3] = B!EQ
    BY <1>6, <2>1, <2>3
  <2>4. CASE s[i + 2] # B!EQ /\ s[i + 3] # B!EQ
    BY <1>6, <2>1, <2>4
  <2> QED BY <2>2, <2>3, <2>4, Zenon
<1> QED BY <1>2, <1>7 DEF one

\* The characters of one to three bytes; missing ones count as 0.
Filled(s, i) == IF i <= Len(s) THEN s[i] ELSE 0

\* The characters of a quantum, by its number of bytes.
LEMMA Quantum ==
  ASSUME B!Base64Assumption, NEW p \in B!Programs, NEW s \in Seq(B!Bytes), Len(s) \in 1 .. 3
  PROVE  /\ B!quantum(p, s) \in Seq(Int) /\ Len(B!quantum(p, s)) = 4
         /\ \A k \in 1 .. 4 : B!quantum(p, s)[k] # B!NL
         /\ B!quantum(p, s)[1] = B!base64Char(p, First(Filled(s, 1)))
         /\ B!quantum(p, s)[2] = B!base64Char(p, Second(Filled(s, 1), Filled(s, 2)))
         /\ B!quantum(p, s)[3] = IF Len(s) < 2 THEN B!EQ ELSE B!base64Char(p, Third(Filled(s, 2), Filled(s, 3)))
         /\ B!quantum(p, s)[4] = IF Len(s) < 3 THEN B!EQ ELSE B!base64Char(p, Fourth(Filled(s, 3)))
         /\ \A k \in 1 .. 3 : Filled(s, k) \in B!Bytes
         /\ (B!quantum(p, s)[3] = B!EQ <=> Len(s) < 2) /\ (B!quantum(p, s)[4] = B!EQ <=> Len(s) < 3)
<1> DEFINE x == Filled(s, 1)
           y == Filled(s, 2)
           z == Filled(s, 3)
           one   == B!base64Char(p, First(x))
           two   == B!base64Char(p, Second(x, y))
           three == IF Len(s) < 2 THEN B!EQ ELSE B!base64Char(p, Third(y, z))
           four  == IF Len(s) < 3 THEN B!EQ ELSE B!base64Char(p, Fourth(z))
<1>1. B!quantum(p, s) = <<one, two, three, four>>
  BY Zenon DEF B!quantum, Filled, First, Second, Third, Fourth
<1>2. x \in B!Bytes /\ y \in B!Bytes /\ z \in B!Bytes
  <2>1. 0 \in B!Bytes
    <3> 4 \in 1 .. 4
      OBVIOUS
    <3> QED BY Powers DEF B!Bytes
  <2>2. \A k \in Nat \ {0} : Filled(s, k) \in B!Bytes
    BY <2>1, ElementOfSeq DEF Filled
  <2> QED BY <2>2
<1>3. /\ First(x) \in B!Digits /\ Second(x, y) \in B!Digits
      /\ Third(y, z) \in B!Digits /\ Fourth(z) \in B!Digits
  BY <1>2, FourDigits, Zenon
<1>4. \A d \in B!Digits : B!base64Char(p, d) \in Int /\ B!base64Char(p, d) # B!EQ /\ B!base64Char(p, d) # B!NL
  <2>1. \A d \in B!Digits : B!base64Char(p, d) \in B!Digits
    BY Characters, Zenon
  <2>2. \A d \in B!Digits : d \in Int /\ d >= 0
    <3> 3 \in 1 .. 4
      OBVIOUS
    <3> QED BY Powers DEF B!Digits
  <2>3. B!EQ = -1 /\ B!NL = -2
    BY DEF B!EQ, B!NL
  <2>4. \A d \in B!Digits : d \in Int /\ d # B!EQ /\ d # B!NL
    BY <2>2, <2>3
  <2> QED BY <2>1, <2>4, Zenon
<1>5. /\ one \in Int /\ two \in Int /\ three \in Int /\ four \in Int
      /\ one # B!NL /\ two # B!NL /\ three # B!NL /\ four # B!NL
      /\ (three = B!EQ <=> Len(s) < 2) /\ (four = B!EQ <=> Len(s) < 3)
  <2>1. B!EQ \in Int /\ B!EQ # B!NL
    BY DEF B!EQ, B!NL
  <2> QED BY <1>3, <1>4, <2>1, Zenon
<1>6. \A k \in 1 .. 3 : k = 1 \/ k = 2 \/ k = 3
  OBVIOUS
<1>7. \A k \in 1 .. 3 : Filled(s, k) \in B!Bytes
  BY <1>2, <1>6, Zenon
<1>8. \A k \in 1 .. 4 : k = 1 \/ k = 2 \/ k = 3 \/ k = 4
  OBVIOUS
<1> HIDE DEF one, two, three, four
<1>9. /\ B!quantum(p, s) \in Seq(Int) /\ Len(B!quantum(p, s)) = 4
      /\ B!quantum(p, s)[1] = one /\ B!quantum(p, s)[2] = two
      /\ B!quantum(p, s)[3] = three /\ B!quantum(p, s)[4] = four
  BY <1>1, <1>5
<1>10. \A k \in 1 .. 4 : B!quantum(p, s)[k] # B!NL
  BY <1>5, <1>8, <1>9, Zenon
<1>11. (B!quantum(p, s)[3] = B!EQ <=> Len(s) < 2) /\ (B!quantum(p, s)[4] = B!EQ <=> Len(s) < 3)
  BY <1>5, <1>9, Zenon
<1> QED BY <1>7, <1>9, <1>10, <1>11, Zenon DEF one, two, three, four

\* The four characters of one to three bytes stand in t from i on.
Holds(p, s, t, i) ==
  /\ t[i] = B!quantum(p, s)[1] /\ t[i + 1] = B!quantum(p, s)[2]
  /\ t[i + 2] = B!quantum(p, s)[3] /\ t[i + 3] = B!quantum(p, s)[4]

\* The program that wrote them reads the bytes back, and the padding ends the line.
LEMMA RoundTrip ==
  ASSUME B!Base64Assumption, NEW p \in B!Programs, NEW s \in Seq(B!Bytes), Len(s) \in 1 .. 3,
         NEW t, NEW i \in Nat, Holds(p, s, t, i)
  PROVE  B!unquantum(p, t, i) = s /\ (B!ends(t, i) <=> Len(s) < 3)
<1> DEFINE x == Filled(s, 1)
           y == Filled(s, 2)
           z == Filled(s, 3)
<1>1. x \in B!Bytes /\ y \in B!Bytes /\ z \in B!Bytes
  <2> 1 \in 1 .. 3 /\ 2 \in 1 .. 3 /\ 3 \in 1 .. 3
    OBVIOUS
  <2> QED BY Quantum, Zenon
<1>2. /\ First(x) \in B!Digits /\ Second(x, y) \in B!Digits
      /\ Third(y, z) \in B!Digits /\ Fourth(z) \in B!Digits
  BY <1>1, FourDigits, Zenon
<1>3. /\ FirstByte(First(x), Second(x, y)) = x
      /\ SecondByte(Second(x, y), Third(y, z)) = y
      /\ ThirdByte(Third(y, z), Fourth(z)) = z
  BY <1>1, FourDigits, Zenon
<1>4. B!digit(p, t[i]) = First(x) /\ B!digit(p, t[i + 1]) = Second(x, y)
  <2>1. t[i] = B!base64Char(p, First(x)) /\ t[i + 1] = B!base64Char(p, Second(x, y))
    BY Quantum, Zenon DEF Holds
  <2> QED BY <1>2, <2>1, Decoded, Zenon
<1>5. Len(s) >= 2 => t[i + 2] # B!EQ /\ B!digit(p, t[i + 2]) = Third(y, z)
  <2> SUFFICES ASSUME Len(s) >= 2 PROVE t[i + 2] # B!EQ /\ B!digit(p, t[i + 2]) = Third(y, z)
    OBVIOUS
  <2>1. ~(Len(s) < 2)
    OBVIOUS
  <2>2. t[i + 2] = B!base64Char(p, Third(y, z)) /\ t[i + 2] # B!EQ
    BY <2>1, Quantum, Zenon DEF Holds
  <2> QED BY <1>2, <2>2, Decoded, Zenon
<1>6. Len(s) = 3 => t[i + 3] # B!EQ /\ B!digit(p, t[i + 3]) = Fourth(z)
  <2> SUFFICES ASSUME Len(s) = 3 PROVE t[i + 3] # B!EQ /\ B!digit(p, t[i + 3]) = Fourth(z)
    OBVIOUS
  <2>1. ~(Len(s) < 3)
    OBVIOUS
  <2>2. t[i + 3] = B!base64Char(p, Fourth(z)) /\ t[i + 3] # B!EQ
    BY <2>1, Quantum, Zenon DEF Holds
  <2> QED BY <1>2, <2>2, Decoded, Zenon
<1>7. (t[i + 2] = B!EQ <=> Len(s) < 2) /\ (t[i + 3] = B!EQ <=> Len(s) < 3)
  BY Quantum, Zenon DEF Holds
<1>8. B!ends(t, i) <=> Len(s) < 3
  <2>1. Len(s) < 2 => Len(s) < 3
    OBVIOUS
  <2> QED BY <1>7, <2>1, Zenon DEF B!ends
<1>9. B!unquantum(p, t, i) = Made(p, t, i)
  BY Unquantum, Zenon
<1>10. CASE Len(s) = 1
  <2>1. t[i + 2] = B!EQ
    BY <1>7, <1>10
  <2>2. Made(p, t, i) = <<x>>
    BY <1>3, <1>4, <2>1, Zenon DEF Made
  <2>3. s = <<s[1]>> /\ x = s[1]
    BY <1>10 DEF Filled
  <2> QED BY <1>8, <1>9, <2>2, <2>3, Zenon
<1>11. CASE Len(s) = 2
  <2>1. t[i + 2] # B!EQ /\ t[i + 3] = B!EQ
    BY <1>7, <1>11
  <2>2. B!digit(p, t[i + 2]) = Third(y, z)
    BY <1>5, <1>11
  <2>3. Made(p, t, i) = <<x, y>>
    BY <1>3, <1>4, <2>1, <2>2, Zenon DEF Made
  <2>4. s = <<s[1], s[2]>> /\ x = s[1] /\ y = s[2]
    BY <1>11 DEF Filled
  <2> QED BY <1>8, <1>9, <2>3, <2>4, Zenon
<1>12. CASE Len(s) = 3
  <2>1. t[i + 2] # B!EQ /\ t[i + 3] # B!EQ
    BY <1>7, <1>12
  <2>2. B!digit(p, t[i + 2]) = Third(y, z) /\ B!digit(p, t[i + 3]) = Fourth(z)
    BY <1>5, <1>6, <1>12
  <2>3. Made(p, t, i) = <<x, y, z>>
    BY <1>3, <1>4, <2>1, <2>2, Zenon DEF Made
  <2>4. s = <<s[1], s[2], s[3]>> /\ x = s[1] /\ y = s[2] /\ z = s[3]
    BY <1>12 DEF Filled
  <2> QED BY <1>8, <1>9, <2>3, <2>4, Zenon
<1> QED BY <1>10, <1>11, <1>12

\* The other program reads as many bytes and another first one, unless they begin with
\* a character that both alphabets share.
LEMMA OtherTrip ==
  ASSUME B!Base64Assumption, NEW p \in B!Programs, NEW o \in B!Programs, o # p,
         NEW s \in Seq(B!Bytes), Len(s) \in 1 .. 3, NEW t, NEW i \in Nat, Holds(p, s, t, i)
  PROVE  /\ Len(B!unquantum(o, t, i)) = Len(s)
         /\ B!quantum(p, s)[1] < B!Pow(3) - 2 => B!unquantum(o, t, i)[1] # s[1]
<1>1. (t[i + 2] = B!EQ <=> Len(s) < 2) /\ (t[i + 3] = B!EQ <=> Len(s) < 3)
  BY Quantum, Zenon DEF Holds
<1>2. Len(B!unquantum(o, t, i)) = IF t[i + 2] = B!EQ THEN 1 ELSE IF t[i + 3] = B!EQ THEN 2 ELSE 3
  BY Unquantum, Zenon
<1>3. Len(B!unquantum(o, t, i)) = Len(s)
  <2>1. CASE Len(s) = 1
    <3>1. t[i + 2] = B!EQ
      BY <1>1, <2>1
    <3> QED BY <1>2, <2>1, <3>1
  <2>2. CASE Len(s) = 2
    <3>1. t[i + 2] # B!EQ /\ t[i + 3] = B!EQ
      BY <1>1, <2>2
    <3> QED BY <1>2, <2>2, <3>1
  <2>3. CASE Len(s) = 3
    <3>1. t[i + 2] # B!EQ /\ t[i + 3] # B!EQ
      BY <1>1, <2>3
    <3> QED BY <1>2, <2>3, <3>1
  <2> QED BY <2>1, <2>2, <2>3
<1>4. ASSUME B!quantum(p, s)[1] < B!Pow(3) - 2 PROVE B!unquantum(o, t, i)[1] # s[1]
  <2> DEFINE x == Filled(s, 1)
             y == Filled(s, 2)
             d == B!digit(o, t[i])
             e == B!digit(o, t[i + 1])
  <2>1. x \in B!Bytes /\ y \in B!Bytes /\ x = s[1]
    <3>1. 1 \in 1 .. 3 /\ 2 \in 1 .. 3 /\ 1 <= Len(s)
      OBVIOUS
    <3>2. x \in B!Bytes /\ y \in B!Bytes
      BY <3>1, Quantum, Zenon
    <3> QED BY <3>1, <3>2, Zenon DEF Filled
  <2>2. First(x) \in B!Digits
    BY <2>1, FourDigits, Zenon
  <2>3. t[i] = B!base64Char(p, First(x)) /\ B!base64Char(p, First(x)) < B!Pow(3) - 2
    BY <1>4, Quantum, Zenon DEF Holds
  <2>4. d \in B!Digits /\ d # First(x)
    BY <2>2, <2>3, Decoded, Zenon
  <2>5. e \in Nat
    BY Numbers, Zenon
  <2>6. FirstByte(d, e) # x
    BY <2>1, <2>4, <2>5, FirstDigit, Zenon
  <2>7. B!unquantum(o, t, i)[1] = FirstByte(d, e)
    BY Unquantum, Zenon
  <2> QED BY <2>1, <2>6, <2>7, Zenon
<1> QED BY <1>3, <1>4

\* What FlattenSeq has put together of the first m of the lists s.
Table(s, m, f) == f = [i \in 1 .. m |-> IF i = 1 THEN s[i] ELSE f[i - 1] \o s[i]]

\* The table that folds a sequence of sequences exists.
LEMMA TableIs ==
  ASSUME NEW s, NEW n \in Nat
  PROVE  \E f : Table(s, n, f)
<1> DEFINE Has(m) == \E f : Table(s, m, f)
           I == {m \in 0 .. n : ~Has(m)}
<1>1. Has(0)
  <2> DEFINE g == [i \in 1 .. 0 |-> s[i]]
  <2>1. \A i \in 1 .. 0 : FALSE
    OBVIOUS
  <2>2. g = [i \in 1 .. 0 |-> IF i = 1 THEN s[i] ELSE g[i - 1] \o s[i]]
    BY <2>1, Zenon
  <2> QED BY <2>2, Zenon DEF Table
<1>2. ASSUME NEW m \in 1 .. n, Has(m - 1) PROVE Has(m)
  <2> PICK f : Table(s, m - 1, f)
    BY <1>2
  <2> DEFINE g == [i \in 1 .. m |-> IF i = m THEN (IF m = 1 THEN s[m] ELSE f[m - 1] \o s[m]) ELSE f[i]]
             h == [i \in 1 .. m |-> IF i = 1 THEN s[i] ELSE g[i - 1] \o s[i]]
  <2>1. \A i \in 1 .. m - 1 : f[i] = IF i = 1 THEN s[i] ELSE f[i - 1] \o s[i]
    BY DEF Table
  <2>2. ASSUME NEW i \in 1 .. m PROVE g[i] = h[i]
    <3>1. CASE i = m /\ i = 1
      BY <3>1
    <3>2. CASE i = m /\ i # 1
      <4>1. i - 1 \in 1 .. m /\ i - 1 # m /\ m # 1
        BY <3>2
      <4>2. g[i - 1] = f[i - 1] /\ h[i] = g[i - 1] \o s[i]
        BY <3>2, <4>1, Zenon
      <4>3. g[i] = f[m - 1] \o s[m]
        BY <3>2, <4>1, Zenon
      <4> QED BY <3>2, <4>2, <4>3, Zenon
    <3>3. CASE i # m /\ i = 1
      <4>1. i \in 1 .. m - 1
        BY <3>3
      <4> QED BY <2>1, <3>3, <4>1, Zenon
    <3>4. CASE i # m /\ i # 1
      <4>1. i \in 1 .. m - 1 /\ i - 1 \in 1 .. m /\ i - 1 # m
        BY <3>4
      <4>2. g[i - 1] = f[i - 1] /\ h[i] = g[i - 1] \o s[i]
        BY <3>4, <4>1, Zenon
      <4>3. g[i] = f[i - 1] \o s[i]
        BY <2>1, <3>4, <4>1, Zenon
      <4> QED BY <4>2, <4>3, Zenon
    <3> QED BY <3>1, <3>2, <3>3, <3>4, Zenon
  <2>3. g = h
    BY <2>2, Zenon
  <2> QED BY <2>3, Zenon DEF Table
<1> HIDE DEF Has
<1>3. ASSUME I # {} PROVE FALSE
  <2>0. I \in SUBSET Nat
    OBVIOUS
  <2>1. Min(I) \in I /\ \A y \in I : Min(I) <= y
    <3> HIDE DEF I
    <3> QED BY <1>3, <2>0, Least
  <2> PICK m \in I : \A y \in I : m <= y
    BY <2>1
  <2>2. m # 0 /\ m \in 1 .. n
    BY <1>1
  <2>3. Has(m - 1)
    <3> m - 1 \in 0 .. n /\ ~(m <= m - 1)
      BY <2>2
    <3> QED OBVIOUS
  <2> QED BY <1>2, <2>2, <2>3
<1>4. Has(n)
  BY <1>3
<1> QED BY <1>4 DEF Has

\* r is the first i of the lists s, one behind the other; all but the last have w
\* elements.
Flat(T, s, w, i, r) ==
  /\ r \in Seq(T) /\ Len(r) = ((i - 1) * w) + Len(s[i])
  /\ \A k \in 1 .. i : \A j \in 1 .. Len(s[k]) :
       ((k - 1) * w) + j \in 1 .. Len(r) /\ r[((k - 1) * w) + j] = s[k][j]

\* One step of the fold adds the next sequence.
LEMMA FlatNext ==
  ASSUME NEW T, NEW s, NEW w \in Nat, NEW i \in Nat \ {0, 1}, NEW r, Flat(T, s, w, i - 1, r),
         s[i] \in Seq(T), Len(s[i - 1]) = w, \A k \in 1 .. i : Len(s[k]) \in Nat
  PROVE  Flat(T, s, w, i, r \o s[i])
<1> PICK t : t = r \o s[i]
  BY Zenon
<1>1. /\ r \in Seq(T) /\ Len(r) = (((i - 1) - 1) * w) + w
      /\ \A k \in 1 .. i - 1 : \A j \in 1 .. Len(s[k]) :
           ((k - 1) * w) + j \in 1 .. Len(r) /\ r[((k - 1) * w) + j] = s[k][j]
  BY Zenon DEF Flat
<1>2. /\ t \in Seq(T) /\ Len(r) \in Nat /\ Len(s[i]) \in Nat /\ Len(t) = Len(r) + Len(s[i])
      /\ \A j \in 1 .. Len(r) : t[j] = r[j]
      /\ \A j \in 1 .. Len(s[i]) : t[Len(r) + j] = s[i][j]
  <2> PICK v : v = s[i]
    BY Zenon
  <2>1. r \in Seq(T) /\ v \in Seq(T) /\ t = r \o v
    BY <1>1, Zenon
  <2>2. /\ t \in Seq(T) /\ Len(r) \in Nat /\ Len(v) \in Nat /\ Len(t) = Len(r) + Len(v)
        /\ \A j \in 1 .. Len(r) : t[j] = r[j]
        /\ \A j \in 1 .. Len(v) : t[Len(r) + j] = v[j]
    BY ONLY <2>1, Joined
  <2> QED BY <2>2, Zenon
<1>3. Len(r) = (i - 1) * w
  BY <1>1
<1>4. ASSUME NEW k \in 1 .. i, NEW j \in 1 .. Len(s[k])
      PROVE  ((k - 1) * w) + j \in 1 .. Len(t) /\ t[((k - 1) * w) + j] = s[k][j]
  <2>1. CASE k = i
    <3>1. Len(r) + j \in 1 .. Len(t) /\ t[Len(r) + j] = s[i][j]
      BY <1>2, <2>1
    <3> QED BY <1>3, <2>1, <3>1, Zenon
  <2>2. CASE k # i
    <3>1. k \in 1 .. i - 1
      BY <2>2
    <3> DEFINE x == ((k - 1) * w) + j
    <3>2. x \in 1 .. Len(r) /\ r[x] = s[k][j]
      BY <1>1, <3>1, Zenon
    <3> HIDE DEF x
    <3>3. x \in 1 .. Len(t) /\ t[x] = r[x]
      BY <1>2, <3>2
    <3> QED BY <3>2, <3>3, Zenon DEF x
  <2> QED BY <2>1, <2>2, Zenon
<1>5. Len(t) = ((i - 1) * w) + Len(s[i])
  BY <1>2, <1>3, Zenon
<1> QED BY <1>2, <1>4, <1>5, Zenon DEF Flat

\* FlattenSeq puts its lists one behind the other.
LEMMA Flattened ==
  ASSUME NEW T, NEW w \in Nat, NEW n \in Nat \ {0}, NEW s \in Seq(Seq(T)), Len(s) = n,
         \A k \in 1 .. n - 1 : Len(s[k]) = w
  PROVE  Flat(T, s, w, n, B!FlattenSeq(s))
<1>1. \A k \in 1 .. n : s[k] \in Seq(T) /\ Len(s[k]) \in Nat
  <2>1. \A k \in 1 .. n : s[k] \in Seq(T)
    BY ElementOfSeq
  <2> QED BY <2>1, LenProperties
<1> DEFINE f == CHOOSE g : Table(s, n, g)
<1>2. Table(s, n, f)
  <2> \E g : Table(s, n, g)
    BY TableIs
  <2> QED BY Zenon
<1>3. B!FlattenSeq(s) = f[n]
  BY DEF B!FlattenSeq, Table
<1> HIDE DEF f
<1>4. \A i \in 1 .. n : f[i] = IF i = 1 THEN s[i] ELSE f[i - 1] \o s[i]
  BY <1>2 DEF Table
<1> DEFINE Is(i) == Flat(T, s, w, i, f[i])
           I == {i \in 1 .. n : ~Is(i)}
<1>5. Is(1)
  <2>1. f[1] = s[1] /\ s[1] \in Seq(T) /\ Len(s[1]) \in Nat
    BY <1>1, <1>4
  <2>2. (1 - 1) * w = 0 /\ 0 + Len(s[1]) = Len(s[1])
    BY <2>1
  <2>3. \A k \in 1 .. 1 : k = 1
    OBVIOUS
  <2>4. \A j \in 1 .. Len(s[1]) : 0 + j = j
    OBVIOUS
  <2>5. \A k \in 1 .. 1 : \A j \in 1 .. Len(s[k]) :
          ((k - 1) * w) + j \in 1 .. Len(f[1]) /\ f[1][((k - 1) * w) + j] = s[k][j]
    BY <2>1, <2>2, <2>3, <2>4, Zenon
  <2> QED BY <2>1, <2>2, <2>5, Zenon DEF Flat
<1>6. ASSUME NEW i \in 1 .. n, i # 1, Is(i - 1) PROVE Is(i)
  <2>1. i \in Nat \ {0, 1} /\ i - 1 \in 1 .. n - 1
    BY <1>6
  <2>2. s[i] \in Seq(T) /\ Len(s[i - 1]) = w /\ \A k \in 1 .. i : Len(s[k]) \in Nat
    BY <1>1, <2>1
  <2>3. Flat(T, s, w, i, f[i - 1] \o s[i])
    BY <1>6, <2>1, <2>2, FlatNext, Zenon
  <2> QED BY <1>4, <1>6, <2>3, Zenon
<1> HIDE DEF Is
<1>7. ASSUME I # {} PROVE FALSE
  <2>0. I \in SUBSET Nat
    OBVIOUS
  <2>1. Min(I) \in I /\ \A y \in I : Min(I) <= y
    <3> HIDE DEF I
    <3> QED BY <1>7, <2>0, Least
  <2> PICK m \in I : \A y \in I : m <= y
    BY <2>1
  <2>2. m # 1 /\ m \in 1 .. n
    BY <1>5
  <2>3. Is(m - 1)
    <3> m - 1 \in 1 .. n /\ ~(m <= m - 1)
      BY <2>2
    <3> QED OBVIOUS
  <2> QED BY <1>6, <2>2, <2>3
<1>8. Is(n)
  BY <1>7
<1> QED BY <1>3, <1>8 DEF Is

\* A block is encoded in pieces of three bytes, the last of which may be shorter.
Count(bin)    == (Len(bin) + 2) \div 3
\* The bytes that become the k-th quantum.
Triple(bin, k) == SubSeq(bin, 3 * k - 2, IF 3 * k < Len(bin) THEN 3 * k ELSE Len(bin))

\* Every quantum but the last is of three bytes.
LEMMA Triples ==
  ASSUME NEW T, NEW bin \in Seq(T), Len(bin) > 0
  PROVE  /\ Count(bin) \in Nat \ {0} /\ Count(bin) * 3 - 2 <= Len(bin) /\ Len(bin) <= Count(bin) * 3
         /\ \A k \in 1 .. Count(bin) :
              /\ Triple(bin, k) \in Seq(T) /\ Len(Triple(bin, k)) \in 1 .. 3
              /\ k # Count(bin) => Len(Triple(bin, k)) = 3
              /\ k = Count(bin) => Len(Triple(bin, k)) = Len(bin) - ((k - 1) * 3)
              /\ \A j \in 1 .. Len(Triple(bin, k)) : Triple(bin, k)[j] = bin[((k - 1) * 3) + j]
<1> PICK n \in Nat : n = Len(bin)
  BY LenProperties
<1>1. n > 0
  OBVIOUS
<1> PICK c \in Int : c = Count(bin)
  BY DEF Count
<1>2. c = (n + 2) \div 3
  BY DEF Count
<1>3. c \in Nat \ {0} /\ c * 3 - 2 <= n /\ n <= c * 3
  BY <1>1, <1>2
<1>4. ASSUME NEW k \in 1 .. c
      PROVE  /\ Triple(bin, k) \in Seq(T) /\ Len(Triple(bin, k)) \in 1 .. 3
             /\ k # c => Len(Triple(bin, k)) = 3
             /\ k = c => Len(Triple(bin, k)) = n - ((k - 1) * 3)
             /\ \A j \in 1 .. Len(Triple(bin, k)) : Triple(bin, k)[j] = bin[((k - 1) * 3) + j]
  <2> DEFINE a == 3 * k - 2
             b == IF 3 * k < n THEN 3 * k ELSE n
  <2>1. Triple(bin, k) = SubSeq(bin, a, b)
    BY DEF Triple
  <2>2. a \in 1 .. n + 1 /\ b \in a - 1 .. n /\ b - a + 1 \in 1 .. 3 /\ a = ((k - 1) * 3) + 1
        /\ (k # c => b - a + 1 = 3) /\ (k = c => b - a + 1 = n - ((k - 1) * 3))
    <3>1. a \in 1 .. n + 1 /\ a = ((k - 1) * 3) + 1
      BY <1>3
    <3>2. CASE 3 * k < n
      BY <1>3, <3>2
    <3>3. CASE ~(3 * k < n)
      BY <1>3, <3>3
    <3> QED BY <3>1, <3>2, <3>3
  <2> HIDE DEF a, b
  <2>3. /\ SubSeq(bin, a, b) \in Seq(T) /\ Len(SubSeq(bin, a, b)) = b - a + 1
        /\ \A i \in 1 .. b - a + 1 : SubSeq(bin, a, b)[i] = bin[a + i - 1]
    <3>1. a \in 1 .. Len(bin) + 1 /\ b \in a - 1 .. Len(bin)
      BY <2>2
    <3> QED BY <3>1, Part
  <2>4. \A j \in 1 .. b - a + 1 : a + j - 1 = ((k - 1) * 3) + j
    BY <2>2
  <2> QED BY <2>1, <2>2, <2>3, <2>4
<1> QED BY <1>3, <1>4

\* Every byte is in the quantum of its place.
LEMMA TripleOf ==
  ASSUME NEW T, NEW bin \in Seq(T), NEW i \in 1 .. Len(bin)
  PROVE  \E k \in 1 .. Count(bin) : \E j \in 1 .. Len(Triple(bin, k)) : i = ((k - 1) * 3) + j
<1>1. PICK n \in Nat : n = Len(bin)
  BY LenProperties
<1>2. PICK c \in Nat : c = Count(bin)
  BY <1>1, Triples
<1>3. n <= c * 3 /\ n > 0
  BY <1>1, <1>2, Triples
<1> DEFINE k == ((i - 1) \div 3) + 1
           j == i - ((k - 1) * 3)
<1>4. k \in 1 .. c /\ j \in 1 .. 3 /\ i = ((k - 1) * 3) + j
  BY <1>1, <1>3
<1> HIDE DEF k, j
<1>5. CASE k # c
  <2> Len(Triple(bin, k)) = 3
    BY <1>1, <1>2, <1>3, <1>4, <1>5, Triples
  <2> QED BY <1>2, <1>4
<1>6. CASE k = c
  <2>1. Len(Triple(bin, k)) = n - ((k - 1) * 3)
    BY <1>1, <1>2, <1>3, <1>4, <1>6, Triples
  <2>2. j \in 1 .. n - ((k - 1) * 3)
    BY <1>1, <1>4
  <2> QED BY <1>2, <1>4, <2>1, <2>2
<1> QED BY <1>5, <1>6

\* The characters of a block's pieces stand in e, one piece behind the other, and none
\* of them ends the line.
LEMMA Encodes ==
  ASSUME B!Base64Assumption, NEW p \in B!Programs, NEW bin \in Seq(B!Bytes), Len(bin) > 0
  PROVE  /\ B!base64Encode(p, bin) \in Seq(Int) /\ Len(B!base64Encode(p, bin)) = Count(bin) * 4
         /\ \A k \in 1 .. Count(bin) : \A j \in 1 .. 4 :
              B!base64Encode(p, bin)[((k - 1) * 4) + j] = B!quantum(p, Triple(bin, k))[j]
         /\ \A i \in 1 .. Count(bin) * 4 : B!base64Encode(p, bin)[i] # B!NL
<1> PICK c \in Nat \ {0} : c = Count(bin)
  BY Triples
<1> DEFINE s == [k \in 1 .. c |-> B!quantum(p, Triple(bin, k))]
           e == B!base64Encode(p, bin)
<1>1. e = B!FlattenSeq(s)
  BY Zenon DEF B!base64Encode, Count, Triple
<1>2. \A k \in 1 .. c : Triple(bin, k) \in Seq(B!Bytes) /\ Len(Triple(bin, k)) \in 1 .. 3
  BY Triples
<1>3. \A k \in 1 .. c : /\ s[k] = B!quantum(p, Triple(bin, k)) /\ s[k] \in Seq(Int) /\ Len(s[k]) = 4
                        /\ \A j \in 1 .. 4 : s[k][j] # B!NL
  BY <1>2, Quantum, Zenon
<1>4. s \in Seq(Seq(Int)) /\ Len(s) = c
  BY <1>3
<1> HIDE DEF s, e
<1>5. Flat(Int, s, 4, c, e)
  <2> \A k \in 1 .. c - 1 : Len(s[k]) = 4
    BY <1>3
  <2> QED BY <1>1, <1>4, Flattened
<1>6. e \in Seq(Int) /\ Len(e) = ((c - 1) * 4) + Len(s[c])
      /\ \A k \in 1 .. c : \A j \in 1 .. Len(s[k]) : e[((k - 1) * 4) + j] = s[k][j]
  BY <1>5, Zenon DEF Flat
<1>7. Len(e) = c * 4
  <2>1. c \in 1 .. c
    OBVIOUS
  <2>2. Len(s[c]) = 4
    BY <1>3, <2>1, Zenon
  <2>3. Len(e) = ((c - 1) * 4) + 4
    BY <1>6, <2>2, Zenon
  <2> QED BY <2>3
<1>8. \A k \in 1 .. c : \A j \in 1 .. 4 : e[((k - 1) * 4) + j] = B!quantum(p, Triple(bin, k))[j]
  <2> TAKE k \in 1 .. c
  <2> TAKE j \in 1 .. 4
  <2>1. s[k] = B!quantum(p, Triple(bin, k)) /\ Len(s[k]) = 4
    BY <1>3, Zenon
  <2>2. j \in 1 .. Len(s[k])
    BY <2>1, Zenon
  <2>3. e[((k - 1) * 4) + j] = s[k][j]
    BY <1>6, <2>2, Zenon
  <2> QED BY <2>1, <2>3, Zenon
<1>9. ASSUME NEW i \in 1 .. c * 4 PROVE e[i] # B!NL
  <2>1. PICK k \in 1 .. c, j \in 1 .. 4 : i = ((k - 1) * 4) + j
    <3> DEFINE k == ((i - 1) \div 4) + 1
               j == i - ((k - 1) * 4)
    <3> k \in 1 .. c /\ j \in 1 .. 4 /\ i = ((k - 1) * 4) + j
      OBVIOUS
    <3> QED OBVIOUS
  <2>2. e[i] = B!quantum(p, Triple(bin, k))[j]
    BY <1>8, <2>1, Zenon
  <2>3. B!quantum(p, Triple(bin, k))[j] # B!NL
    BY <1>2, Quantum, Zenon
  <2> QED BY <2>2, <2>3, Zenon
<1> QED BY <1>6, <1>7, <1>8, <1>9 DEF e

\* The line that a block was written in.
Written(p, bin, t) == \A i \in 1 .. Count(bin) * 4 : t[i - 1] = B!base64Encode(p, bin)[i]

\* How many times the decoder makes bytes of four characters: once more than there
\* are pieces when the last one is full.
Rounds(bin) == IF Len(bin) % 3 = 0 THEN Count(bin) + 1 ELSE Count(bin)

\* What the buffer holds at a quantum is that quantum.
LEMMA LineHolds ==
  ASSUME B!Base64Assumption, NEW p \in B!Programs, NEW bin \in Seq(B!Bytes), Len(bin) > 0,
         NEW t, Written(p, bin, t), NEW k \in 1 .. Count(bin)
  PROVE  Holds(p, Triple(bin, k), t, 4 * (k - 1)) /\ 4 * (k - 1) \in Nat
<1> PICK c \in Nat \ {0} : c = Count(bin)
  BY Triples
<1>1. \A j \in 1 .. 4 : t[(((k - 1) * 4) + j) - 1] = B!quantum(p, Triple(bin, k))[j]
  <2> TAKE j \in 1 .. 4
  <2>1. ((k - 1) * 4) + j \in 1 .. c * 4
    OBVIOUS
  <2>2. B!base64Encode(p, bin)[((k - 1) * 4) + j] = B!quantum(p, Triple(bin, k))[j]
    BY Encodes, Zenon
  <2> QED BY <2>1, <2>2, Zenon DEF Written
<1> DEFINE a == 4 * (k - 1)
<1>2. /\ (((k - 1) * 4) + 1) - 1 = a /\ (((k - 1) * 4) + 2) - 1 = a + 1
      /\ (((k - 1) * 4) + 3) - 1 = a + 2 /\ (((k - 1) * 4) + 4) - 1 = a + 3
      /\ a \in Nat /\ 1 \in 1 .. 4 /\ 2 \in 1 .. 4 /\ 3 \in 1 .. 4 /\ 4 \in 1 .. 4
  OBVIOUS
<1> HIDE DEF a
<1>3. Holds(p, Triple(bin, k), t, a)
  BY <1>1, <1>2, Zenon DEF Holds
<1> QED BY <1>2, <1>3 DEF a

\* The decoder of d makes its bytes of the pieces of the line, in their order, and
\* all but the last time three of them.
IsDecoded(d, bin, t, r, s) ==
  /\ r = B!base64Decode(d, t, (Count(bin) * 4) + 1) /\ r \in Seq(Int)
  /\ Flat(Int, s, 3, Rounds(bin), r)
  /\ \A k \in 1 .. Rounds(bin) : s[k] = B!unquantum(d, t, 4 * (k - 1))

\* A line is decoded quantum by quantum, up to a '=' or the newline.
LEMMA Decodes ==
  ASSUME B!Base64Assumption, NEW p \in B!Programs, NEW d \in B!Programs,
         NEW bin \in Seq(B!Bytes), Len(bin) > 0, NEW t, Written(p, bin, t)
  PROVE  \E r, s : IsDecoded(d, bin, t, r, s)
<1> DEFINE size == (Count(bin) * 4) + 1
<1> PICK n \in Nat \ {0} : n = Len(bin)
  <2> Len(bin) \in Nat
    BY LenProperties
  <2> QED OBVIOUS
<1> PICK c \in Nat \ {0} : c = Count(bin)
  BY Triples
<1> PICK m : m = Rounds(bin)
  BY Zenon
<1>1. c * 3 - 2 <= n /\ n <= c * 3
  BY Triples
<1>2. m = IF n = c * 3 THEN c + 1 ELSE c
  <2> n % 3 = 0 <=> n = c * 3
    BY <1>1
  <2> QED BY DEF Rounds
<1>3. m \in Nat \ {0}
  BY <1>2
<1>4. \A k \in 1 .. c : B!ends(t, 4 * (k - 1)) <=> Len(Triple(bin, k)) < 3
  <2> TAKE k \in 1 .. c
  <2>1. Triple(bin, k) \in Seq(B!Bytes) /\ Len(Triple(bin, k)) \in 1 .. 3
    BY Triples
  <2>2. Holds(p, Triple(bin, k), t, 4 * (k - 1)) /\ 4 * (k - 1) \in Nat
    BY LineHolds, Zenon
  <2>3. B!ends(t, 4 * (k - 1)) <=> Len(Triple(bin, k)) < 3
    BY <2>1, <2>2, RoundTrip, ZenonT(30)
  <2> QED BY <2>3, Zenon
<1>5. \A k \in 1 .. c : B!ends(t, 4 * (k - 1)) <=> (k = c /\ n # c * 3)
  <2> TAKE k \in 1 .. c
  <2>1. CASE k # c
    <3>1. Len(Triple(bin, k)) = 3
      BY <2>1, Triples
    <3>2. B!ends(t, 4 * (k - 1)) <=> Len(Triple(bin, k)) < 3
      BY <1>4, Zenon
    <3>3. ~(3 < 3)
      OBVIOUS
    <3> QED BY <2>1, <3>1, <3>2, <3>3, Zenon
  <2>2. CASE k = c
    <3>1. Len(Triple(bin, k)) = n - ((c - 1) * 3)
      BY <2>2, Triples
    <3>2. B!ends(t, 4 * (k - 1)) <=> Len(Triple(bin, k)) < 3
      BY <1>4, Zenon
    <3>3. n - ((c - 1) * 3) < 3 <=> n # c * 3
      BY <1>1
    <3> QED BY <2>2, <3>1, <3>2, <3>3, Zenon
  <2> QED BY <2>1, <2>2
<1> DEFINE Q == {k \in 0 .. (size - 1) \div 4 : \A j \in 0 .. k - 1 : ~B!ends(t, 4 * j)}
<1>6. Q = 0 .. m - 1
  <2>1. (size - 1) \div 4 = c
    OBVIOUS
  <2>2. \A j \in 0 .. c - 1 : B!ends(t, 4 * j) <=> (j = c - 1 /\ n # c * 3)
    <3> TAKE j \in 0 .. c - 1
    <3>1. j + 1 \in 1 .. c /\ 4 * ((j + 1) - 1) = 4 * j /\ (j + 1 = c <=> j = c - 1)
      OBVIOUS
    <3>2. B!ends(t, 4 * ((j + 1) - 1)) <=> (j + 1 = c /\ n # c * 3)
      BY <1>5, <3>1
    <3> QED BY <3>1, <3>2, Zenon
  <2>3. ASSUME NEW k \in 0 .. c PROVE (\A j \in 0 .. k - 1 : ~B!ends(t, 4 * j)) <=> k \in 0 .. m - 1
    <3>1. CASE n = c * 3
      <4>1. k \in 0 .. m - 1
        BY <1>2, <3>1
      <4>2. \A j \in 0 .. k - 1 : j \in 0 .. c - 1
        OBVIOUS
      <4> QED BY <2>2, <3>1, <4>1, <4>2, Zenon
    <3>2. CASE n # c * 3 /\ k < c
      <4>1. k \in 0 .. m - 1
        BY <1>2, <3>2
      <4>2. \A j \in 0 .. k - 1 : j \in 0 .. c - 1 /\ j # c - 1
        BY <3>2
      <4> QED BY <2>2, <4>1, <4>2, Zenon
    <3>3. CASE n # c * 3 /\ ~(k < c)
      <4>1. ~(k \in 0 .. m - 1) /\ c - 1 \in 0 .. k - 1 /\ c - 1 \in 0 .. c - 1
        BY <1>2, <3>3
      <4> QED BY <2>2, <3>3, <4>1, Zenon
    <3> QED BY <3>1, <3>2, <3>3, Zenon
  <2>4. 0 .. m - 1 \subseteq 0 .. c
    BY <1>2
  <2>5. Q = {k \in 0 .. c : \A j \in 0 .. k - 1 : ~B!ends(t, 4 * j)}
    BY <2>1, Zenon
  <2> HIDE DEF Q
  <2> QED BY <2>3, <2>4, <2>5, Zenon
<1>7. B!Cardinality(Q) = m
  <2>1. B!Cardinality(Q) = Cardinality(Q)
    BY DEF B!Cardinality, Cardinality, B!IsFiniteSet, IsFiniteSet
  <2> HIDE DEF Q
  <2> DEFINE b == m - 1
  <2>2. 0 \in Int /\ b \in Int /\ ~(0 > b) /\ b - 0 + 1 = m
    BY <1>3
  <2> HIDE DEF b
  <2>3. Cardinality(0 .. b) = IF 0 > b THEN 0 ELSE b - 0 + 1
    BY <2>2, FS_Interval
  <2> QED BY <1>6, <2>1, <2>2, <2>3, Zenon DEF b
<1> DEFINE s == [k \in 1 .. m |-> B!unquantum(d, t, 4 * (k - 1))]
           r == B!base64Decode(d, t, size)
<1>8. r = B!FlattenSeq(s)
  BY <1>7, Zenon DEF B!base64Decode
<1>9. \A k \in 1 .. m : 4 * (k - 1) \in Nat
  BY <1>3
<1>10. \A k \in 1 .. m : s[k] = B!unquantum(d, t, 4 * (k - 1)) /\ s[k] \in Seq(Int)
  BY <1>9, Unquantum, Zenon
<1>11. \A k \in 1 .. m - 1 : Len(s[k]) = 3
  <2> TAKE k \in 1 .. m - 1
  <2>1. k \in 1 .. m /\ k \in 1 .. c /\ ~(k = c /\ n # c * 3) /\ 4 * (k - 1) \in Nat
    BY <1>2, <1>3
  <2>2. ~B!ends(t, 4 * (k - 1))
    BY <1>5, <2>1, Zenon
  <2>3. t[4 * (k - 1) + 2] # B!EQ /\ t[4 * (k - 1) + 3] # B!EQ
    BY <2>2, Zenon DEF B!ends
  <2>4. Len(B!unquantum(d, t, 4 * (k - 1))) = 3
    BY <2>1, <2>3, Unquantum, Zenon
  <2> QED BY <1>10, <2>1, <2>4, Zenon
<1>12. s \in Seq(Seq(Int)) /\ Len(s) = m
  <2>1. \A k \in 1 .. m : s[k] \in Seq(Int)
    BY <1>10, Zenon
  <2>2. s = [k \in 1 .. m |-> s[k]]
    OBVIOUS
  <2> HIDE DEF s
  <2> QED BY <1>3, <2>1, <2>2
<1> HIDE DEF s, r
<1>13. Flat(Int, s, 3, m, r)
  BY <1>3, <1>8, <1>11, <1>12, Flattened
<1>14. r \in Seq(Int)
  BY <1>13, Zenon DEF Flat
<1>15. \A k \in 1 .. m : s[k] = B!unquantum(d, t, 4 * (k - 1))
  BY <1>10, Zenon
<1>16. IsDecoded(d, bin, t, r, s)
  BY <1>13, <1>14, <1>15, Zenon DEF r, IsDecoded
<1> QED BY <1>16, Zenon

\* The program that wrote the line gives the block back, and one to three bytes more
\* when its last piece was full.
IsBack(bin, r) ==
  /\ r \in Seq(Int) /\ \A i \in 1 .. Len(bin) : r[i] = bin[i]
  /\ Len(bin) % 3 # 0 => Len(r) = Len(bin)
  /\ Len(bin) % 3 = 0 => Len(r) \in Len(bin) + 1 .. Len(bin) + 3

\* A line of a program's own gives the block back.
LEMMA BlockBack ==
  ASSUME B!Base64Assumption, NEW p \in B!Programs,
         NEW bin \in Seq(B!Bytes), Len(bin) > 0, NEW t, Written(p, bin, t),
         NEW r, r = B!base64Decode(p, t, (Count(bin) * 4) + 1)
  PROVE  IsBack(bin, r)
<1> PICK n \in Nat \ {0} : n = Len(bin)
  <2> Len(bin) \in Nat
    BY LenProperties
  <2> QED OBVIOUS
<1> PICK c \in Nat \ {0} : c = Count(bin)
  BY Triples
<1> PICK m : m = Rounds(bin)
  BY Zenon
<1>1. c * 3 - 2 <= n /\ n <= c * 3
  BY Triples
<1>2. m = (IF n % 3 = 0 THEN c + 1 ELSE c) /\ (n % 3 = 0 <=> n = c * 3)
  <2> n % 3 = 0 <=> n = c * 3
    BY <1>1
  <2> QED BY DEF Rounds
<1>3. PICK s : IsDecoded(p, bin, t, r, s)
  <2> PICK r1, s1 : IsDecoded(p, bin, t, r1, s1)
    BY Decodes
  <2> r1 = r
    BY Zenon DEF IsDecoded
  <2> QED OBVIOUS
<1>4. /\ r \in Seq(Int) /\ Flat(Int, s, 3, m, r)
      /\ \A k \in 1 .. m : s[k] = B!unquantum(p, t, 4 * (k - 1))
  BY <1>3, Zenon DEF IsDecoded
<1>5. \A k \in 1 .. c : s[k] = Triple(bin, k)
  <2> TAKE k \in 1 .. c
  <2>1. Triple(bin, k) \in Seq(B!Bytes) /\ Len(Triple(bin, k)) \in 1 .. 3
    BY Triples
  <2>2. Holds(p, Triple(bin, k), t, 4 * (k - 1)) /\ 4 * (k - 1) \in Nat
    BY LineHolds, Zenon
  <2>3. B!unquantum(p, t, 4 * (k - 1)) = Triple(bin, k)
    <3> PICK v, a : v = Triple(bin, k) /\ a = 4 * (k - 1)
      BY Zenon
    <3>1. v \in Seq(B!Bytes) /\ Len(v) \in 1 .. 3 /\ a \in Nat /\ Holds(p, v, t, a)
      BY <2>1, <2>2
    <3>2. B!unquantum(p, t, a) = v
      BY <3>1, RoundTrip
    <3> QED BY <3>2
  <2>4. k \in 1 .. m
    BY <1>2
  <2> QED BY <1>4, <2>3, <2>4, Zenon
<1>6. /\ Len(r) = ((m - 1) * 3) + Len(s[m])
      /\ \A k \in 1 .. m : \A j \in 1 .. Len(s[k]) : r[((k - 1) * 3) + j] = s[k][j]
  BY <1>4, Zenon DEF Flat
<1>7. ASSUME NEW i \in 1 .. n PROVE r[i] = bin[i]
  <2>0. PICK k \in 1 .. c : \E j \in 1 .. Len(Triple(bin, k)) : i = ((k - 1) * 3) + j
    <3> i \in 1 .. Len(bin)
      OBVIOUS
    <3> QED BY TripleOf
  <2>1. PICK j \in 1 .. Len(Triple(bin, k)) : i = ((k - 1) * 3) + j
    BY <2>0, Zenon
  <2>2. Triple(bin, k)[j] = bin[((k - 1) * 3) + j]
    BY Triples, Zenon
  <2>3. k \in 1 .. m
    BY <1>2
  <2> QED BY <1>5, <1>6, <2>1, <2>2, <2>3, Zenon
<1>8. CASE n % 3 # 0
  <2>1. m = c /\ c \in 1 .. c
    BY <1>2, <1>8
  <2>2. s[m] = Triple(bin, c)
    BY <1>5, <2>1, Zenon
  <2>3. Len(Triple(bin, c)) = n - ((c - 1) * 3)
    BY <2>1, Triples
  <2>4. Len(r) = ((c - 1) * 3) + (n - ((c - 1) * 3))
    BY <1>6, <2>1, <2>2, <2>3, Zenon
  <2>5. Len(r) = n
    BY <2>4
  <2> QED BY <1>4, <1>7, <1>8, <2>5, Zenon DEF IsBack
<1>9. CASE n % 3 = 0
  <2>1. m = c + 1 /\ m \in 1 .. m /\ 4 * (m - 1) \in Nat
    BY <1>2, <1>9
  <2>2. s[m] = B!unquantum(p, t, 4 * (m - 1))
    BY <1>4, <2>1, Zenon
  <2>3. Len(s[m]) = 1 \/ Len(s[m]) = 2 \/ Len(s[m]) = 3
    <3> PICK a \in Nat : a = 4 * (m - 1)
      BY <2>1
    <3>1. Len(B!unquantum(p, t, a)) = IF t[a + 2] = B!EQ THEN 1 ELSE IF t[a + 3] = B!EQ THEN 2 ELSE 3
      BY Unquantum
    <3> QED BY <2>2, <3>1
  <2>4. Len(r) \in n + 1 .. n + 3
    <3> PICK l \in 1 .. 3 : l = Len(s[m])
      BY <2>3
    <3>1. Len(r) = ((m - 1) * 3) + l
      BY <1>6
    <3>2. n = c * 3 /\ (m - 1) * 3 = n
      BY <1>2, <1>9, <2>1
    <3>3. Len(r) = n + l
      BY <3>1, <3>2, Zenon
    <3> QED BY ONLY <3>3
  <2> QED BY <1>4, <1>7, <1>9, <2>4, Zenon DEF IsBack
<1> QED BY <1>8, <1>9, Zenon

\* The other program gives another first byte, but for the shared characters.
LEMMA BlockOther ==
  ASSUME B!Base64Assumption, NEW p \in B!Programs, NEW o \in B!Programs, o # p,
         NEW bin \in Seq(B!Bytes), Len(bin) > 0, NEW t, Written(p, bin, t),
         NEW r, r = B!base64Decode(o, t, (Count(bin) * 4) + 1)
  PROVE  /\ r \in Seq(Int) /\ Len(r) > 0
         /\ B!base64Encode(p, bin)[1] < B!Pow(3) - 2 => r[1] # bin[1]
<1> PICK c \in Nat \ {0} : c = Count(bin)
  BY Triples
<1> PICK m : m = Rounds(bin)
  BY Zenon
<1>1. 1 \in 1 .. m /\ 1 \in 1 .. c
  BY DEF Rounds
<1>2. PICK s : IsDecoded(o, bin, t, r, s)
  <2> PICK r1, s1 : IsDecoded(o, bin, t, r1, s1)
    BY Decodes
  <2> r1 = r
    BY Zenon DEF IsDecoded
  <2> QED OBVIOUS
<1>3. /\ r \in Seq(Int) /\ Flat(Int, s, 3, m, r)
      /\ \A k \in 1 .. m : s[k] = B!unquantum(o, t, 4 * (k - 1))
  BY <1>2, Zenon DEF IsDecoded
<1> DEFINE one == Triple(bin, 1)
           a   == 4 * (1 - 1)
<1>4. /\ one \in Seq(B!Bytes) /\ Len(one) \in 1 .. 3
      /\ \A j \in 1 .. Len(one) : one[j] = bin[((1 - 1) * 3) + j]
  BY <1>1, Triples
<1>5. Holds(p, one, t, a) /\ a \in Nat
  BY <1>1, LineHolds, Zenon
<1>14. a = 4 * (1 - 1) /\ one = Triple(bin, 1)
  BY Zenon
<1> HIDE DEF one, a
<1>6. /\ Len(B!unquantum(o, t, a)) = Len(one)
      /\ B!quantum(p, one)[1] < B!Pow(3) - 2 => B!unquantum(o, t, a)[1] # one[1]
  BY <1>4, <1>5, OtherTrip
<1>7. s[1] = B!unquantum(o, t, a)
  BY <1>1, <1>3, Zenon DEF a
<1>8. 1 \in 1 .. Len(one) /\ 1 \in 1 .. 4
  <2>1. Len(one) \in 1 .. 3
    BY <1>4, Zenon
  <2> QED BY ONLY <2>1
<1>9. ((1 - 1) * 3) + 1 = 1 /\ ((1 - 1) * 4) + 1 = 1
  OBVIOUS
<1>10. 1 \in 1 .. Len(r) /\ r[1] = s[1][1]
  <2>1. \A j \in 1 .. Len(s[1]) : ((1 - 1) * 3) + j \in 1 .. Len(r) /\ r[((1 - 1) * 3) + j] = s[1][j]
    BY <1>1, <1>3, Zenon DEF Flat
  <2>2. 1 \in 1 .. Len(s[1])
    BY <1>6, <1>7, <1>8, Zenon
  <2>3. ((1 - 1) * 3) + 1 \in 1 .. Len(r) /\ r[((1 - 1) * 3) + 1] = s[1][1]
    BY <2>1, <2>2, Zenon
  <2> QED BY <1>9, <2>3
<1>11. one[1] = bin[1]
  <2> one[1] = bin[((1 - 1) * 3) + 1]
    BY <1>4, <1>8, Zenon
  <2> QED BY <1>9
<1>12. B!base64Encode(p, bin)[1] = B!quantum(p, one)[1]
  <2> \A j \in 1 .. 4 : B!base64Encode(p, bin)[((1 - 1) * 4) + j] = B!quantum(p, one)[j]
    BY <1>1, Encodes, Zenon DEF one
  <2> B!base64Encode(p, bin)[((1 - 1) * 4) + 1] = B!quantum(p, one)[1]
    BY <1>8, Zenon
  <2> QED BY <1>9
<1>13. Len(r) > 0
  <2> Len(r) \in Nat
    BY <1>3, LenProperties
  <2> QED BY <1>10
<1> QED BY <1>3, <1>6, <1>7, <1>10, <1>11, <1>12, <1>13, Zenon

\* The blocks of a file, and the lines that they are encoded in: where line m starts in
\* the file and in the text, and how wide it is with its newline.
Start(m)   == m * Block
Width      == (((Block + 2) \div 3) * 4) + 1
Place(m)   == m * Width
\* The m-th block of a file has so many bytes, and its line so many characters.
Size(f, m) == IF Start(m) + Block < Len(f) THEN Block ELSE Len(f) - Start(m)
Bin(f, m)  == SubSeq(f, Start(m) + 1, Start(m) + Size(f, m))
Span(f, m) == (Count(Bin(f, m)) * 4) + 1

\* Where a line and a block begin.
LEMMA Places ==
  ASSUME B!Base64Assumption
  PROVE  /\ Block \in Nat \ {0} /\ Block % 3 = 1 /\ Width \in Nat /\ LineCap \in Nat /\ LineCap > Width
         /\ Start(0) = 0 /\ Place(0) = 0
         /\ \A m \in Nat : /\ Start(m) \in Nat /\ Start(m + 1) = Start(m) + Block
                           /\ Place(m) \in Nat /\ Place(m + 1) = Place(m) + Width
         /\ \A m, n \in Nat : m <= n => Start(m) <= Start(n) /\ Place(m) <= Place(n)
<1>1. Block \in Nat \ {0} /\ Block % 3 = 1 /\ LineCap \in Nat
  BY DEF B!Base64Assumption
<1>2. Width \in Nat /\ LineCap > Width
  <2> LineCap > 4 * ((Block + 2) \div 3) + 4
    BY DEF B!Base64Assumption
  <2> QED BY <1>1 DEF Width
<1>3. /\ 0 * Block = 0
      /\ \A m \in Nat : m * Block \in Nat /\ (m + 1) * Block = (m * Block) + Block
      /\ \A m, n \in Nat : m <= n => m * Block <= n * Block
  BY <1>1, Multiples
<1>4. /\ 0 * Width = 0
      /\ \A m \in Nat : m * Width \in Nat /\ (m + 1) * Width = (m * Width) + Width
      /\ \A m, n \in Nat : m <= n => m * Width <= n * Width
  BY <1>2, Multiples
<1> QED BY <1>1, <1>2, <1>3, <1>4, Zenon DEF Start, Place

\* A block of a file.
IsBlock(f, m) ==
  /\ Bin(f, m) \in Seq(B!Bytes) /\ Len(Bin(f, m)) = Size(f, m) /\ Size(f, m) \in 1 .. Block
  /\ Size(f, m) = IF Start(m) + Block <= Len(f) THEN Block ELSE Len(f) - Start(m)
  /\ \A i \in 1 .. Size(f, m) : Bin(f, m)[i] = f[Start(m) + i]
  /\ Span(f, m) \in 5 .. Width /\ (Size(f, m) = Block => Span(f, m) = Width)
  /\ Count(Bin(f, m)) \in Nat \ {0}

\* Every block but the last is full, and a line fits in the buffer.
LEMMA BlockFacts ==
  ASSUME B!Base64Assumption, NEW f \in Seq(B!Bytes), NEW m \in Nat, Start(m) < Len(f)
  PROVE  IsBlock(f, m)
<1> PICK n \in Nat : n = Len(f)
  BY LenProperties
<1> PICK b \in Nat \ {0} : b = Block
  BY Places
<1> PICK a \in Nat : a = Start(m)
  BY Places
<1> PICK s : s = Size(f, m)
  BY Zenon
<1>1. s \in 1 .. b /\ s = IF a + b <= n THEN b ELSE n - a
  BY DEF Size
<1>2. a + s <= n
  BY <1>1
<1>0. n = Len(f) /\ n \in Nat /\ a \in Nat /\ b \in Nat
  OBVIOUS
<1>3. a + 1 \in 1 .. Len(f) + 1 /\ a + s \in (a + 1) - 1 .. Len(f) /\ (a + s) - (a + 1) + 1 = s
  BY ONLY <1>0, <1>1, <1>2
<1> DEFINE c == a + 1
           d == a + s
<1>4. Bin(f, m) = SubSeq(f, c, d)
  BY Zenon DEF Bin
<1>5. c \in 1 .. Len(f) + 1 /\ d \in c - 1 .. Len(f) /\ d - c + 1 = s /\ \A i \in 1 .. s : c + i - 1 = a + i
  BY <1>1, <1>3
<1> HIDE DEF c, d
<1>6. /\ Bin(f, m) \in Seq(B!Bytes) /\ Len(Bin(f, m)) = s
      /\ \A i \in 1 .. s : Bin(f, m)[i] = f[a + i]
  <2> /\ SubSeq(f, c, d) \in Seq(B!Bytes) /\ Len(SubSeq(f, c, d)) = d - c + 1
      /\ \A i \in 1 .. d - c + 1 : SubSeq(f, c, d)[i] = f[c + i - 1]
    BY <1>5, Part
  <2> QED BY <1>4, <1>5, Zenon
<1>7. Count(Bin(f, m)) = (s + 2) \div 3
  BY <1>6, Zenon DEF Count
<1>8. Span(f, m) = (((s + 2) \div 3) * 4) + 1
  BY <1>7, Zenon DEF Span
<1>9. Width = (((b + 2) \div 3) * 4) + 1
  BY Zenon DEF Width
<1>10. /\ Span(f, m) \in 5 .. Width /\ (s = b => Span(f, m) = Width)
       /\ Count(Bin(f, m)) \in Nat \ {0}
  <2> PICK g, h \in Int : g = (s + 2) \div 3 /\ h = (b + 2) \div 3
    BY <1>1
  <2>0. g = (s + 2) \div 3 /\ h = (b + 2) \div 3 /\ g \in Int /\ h \in Int
    OBVIOUS
  <2>1. g \in 1 .. h
    <3> s \in Int /\ 1 <= s /\ s <= b
      BY <1>1
    <3> QED BY ONLY <1>0, <2>0, s \in Int, 1 <= s, s <= b
  <2>2. Span(f, m) = (g * 4) + 1 /\ Width = (h * 4) + 1 /\ Count(Bin(f, m)) = g
    BY <1>7, <1>8, <1>9, Zenon
  <2>3. (g * 4) + 1 \in 5 .. (h * 4) + 1 /\ g \in Nat \ {0} /\ (s = b => (g * 4) + 1 = (h * 4) + 1)
    BY <2>1
  <2> QED BY <2>2, <2>3, Zenon
<1> QED BY <1>1, <1>6, <1>10, Zenon DEF IsBlock

\* The m-th line of the text holds the m-th block and ends with a newline.
LineAt(f, p, t, m) ==
  /\ \A i \in 1 .. Count(Bin(f, m)) * 4 : t[Place(m) + i] = B!base64Encode(p, Bin(f, m))[i]
  /\ t[Place(m) + Span(f, m)] = B!NL /\ Place(m) + Span(f, m) <= Len(t)

\* Where the text of l lines ends.
Ending(f, l) == IF Start(l) <= Len(f) THEN Place(l) ELSE Place(l - 1) + Span(f, l - 1)

\* A text of l lines, one for each block.
LinesIn(f, p, t, l) ==
  /\ t \in Seq(Int) /\ (l = 0 \/ Start(l - 1) < Len(f))
  /\ Len(t) = Ending(f, l)
  /\ \A m \in 0 .. l - 1 : LineAt(f, p, t, m)

\* encode adds a line.
LEMMA LineAdded ==
  ASSUME B!Base64Assumption, NEW f \in Seq(B!Bytes), NEW p \in B!Programs, NEW l \in Nat,
         NEW t, LinesIn(f, p, t, l), Start(l) < Len(f),
         NEW u, u = t \o B!base64Encode(p, Bin(f, l)) \o <<B!NL>>
  PROVE  LinesIn(f, p, u, l + 1)
<1> PICK e, nl : e = B!base64Encode(p, Bin(f, l)) /\ nl = <<B!NL>>
  BY Zenon
<1> PICK v : v = t \o e
  BY Zenon
<1> PICK c \in Nat \ {0} : c = Count(Bin(f, l))
  BY BlockFacts DEF IsBlock
<1> PICK a \in Nat : a = Place(l)
  BY Places
<1>1. IsBlock(f, l)
  BY BlockFacts
<1>2. e \in Seq(Int) /\ Len(e) = c * 4
  <2> Bin(f, l) \in Seq(B!Bytes) /\ Len(Bin(f, l)) > 0
    BY <1>1 DEF IsBlock
  <2> QED BY Encodes
<1>3. nl \in Seq(Int) /\ Len(nl) = 1 /\ nl[1] = B!NL
  BY DEF B!NL
<1>4. t \in Seq(Int) /\ Len(t) = a /\ \A m \in 0 .. l - 1 : LineAt(f, p, t, m)
  <2> Start(l) <= Len(f)
    <3> Start(l) \in Nat /\ Len(f) \in Nat
      BY Places, LenProperties
    <3> QED OBVIOUS
  <2> QED BY Zenon DEF LinesIn, Ending
<1>5. /\ v \in Seq(Int) /\ Len(v) = a + (c * 4)
      /\ \A i \in 1 .. a : v[i] = t[i]
      /\ \A i \in 1 .. c * 4 : v[a + i] = e[i]
  <2> /\ v \in Seq(Int) /\ Len(v) = Len(t) + Len(e)
      /\ \A i \in 1 .. Len(t) : v[i] = t[i]
      /\ \A i \in 1 .. Len(e) : v[Len(t) + i] = e[i]
    <3>1. t \in Seq(Int) /\ e \in Seq(Int) /\ v = t \o e
      BY <1>2, <1>4
    <3> QED BY ONLY <3>1, Joined
  <2> QED BY <1>2, <1>4, Zenon
<1>6. /\ u \in Seq(Int) /\ Len(u) = (a + (c * 4)) + 1
      /\ \A i \in 1 .. a + (c * 4) : u[i] = v[i]
      /\ u[(a + (c * 4)) + 1] = B!NL
  <2>1. /\ u \in Seq(Int) /\ Len(u) = Len(v) + Len(nl)
        /\ \A i \in 1 .. Len(v) : u[i] = v[i]
        /\ \A i \in 1 .. Len(nl) : u[Len(v) + i] = nl[i]
    <3>1. v \in Seq(Int) /\ nl \in Seq(Int) /\ u = v \o nl
      BY <1>3, <1>5
    <3> QED BY ONLY <3>1, Joined
  <2>2. 1 \in 1 .. Len(nl)
    BY <1>3
  <2>3. u[Len(v) + 1] = nl[1]
    BY <2>1, <2>2, Zenon
  <2> QED BY <1>3, <1>5, <2>1, <2>3, Zenon
<1>7. Span(f, l) = (c * 4) + 1
  BY Zenon DEF Span
<1>8. LineAt(f, p, u, l)
  <2>1. \A i \in 1 .. c * 4 : a + i \in 1 .. a + (c * 4)
    OBVIOUS
  <2>2. \A i \in 1 .. c * 4 : u[a + i] = e[i]
    BY <1>5, <1>6, <2>1, Zenon
  <2>3. a + ((c * 4) + 1) = (a + (c * 4)) + 1 /\ a + ((c * 4) + 1) <= (a + (c * 4)) + 1
    OBVIOUS
  <2>4. u[a + ((c * 4) + 1)] = B!NL /\ a + ((c * 4) + 1) <= Len(u)
    BY <1>6, <2>3, Zenon
  <2> QED BY <1>7, <2>2, <2>4, Zenon DEF LineAt
<1>9. ASSUME NEW m \in 0 .. l - 1 PROVE LineAt(f, p, u, m)
  <2> PICK x \in Nat : x = Place(m)
    <3> m \in Nat
      OBVIOUS
    <3> QED BY Places
  <2>1. /\ \A i \in 1 .. Count(Bin(f, m)) * 4 : t[x + i] = B!base64Encode(p, Bin(f, m))[i]
        /\ t[x + Span(f, m)] = B!NL /\ x + Span(f, m) <= a
    BY <1>4, Zenon DEF LineAt
  <2>2. Start(m) < Len(f)
    <3> m \in Nat /\ m <= l
      OBVIOUS
    <3> Start(m) <= Start(l) /\ Start(m) \in Nat /\ Start(l) \in Nat /\ Len(f) \in Nat
      BY Places, LenProperties
    <3> QED OBVIOUS
  <2> PICK d \in Nat \ {0} : d = Count(Bin(f, m))
    BY <2>2, BlockFacts DEF IsBlock
  <2>3. Span(f, m) = (d * 4) + 1
    BY Zenon DEF Span
  <2>4. /\ \A i \in 1 .. d * 4 : x + i \in 1 .. a /\ x + i \in 1 .. a + (c * 4)
        /\ x + ((d * 4) + 1) \in 1 .. a /\ x + ((d * 4) + 1) \in 1 .. a + (c * 4)
        /\ x + ((d * 4) + 1) <= (a + (c * 4)) + 1
    <3>1. x + ((d * 4) + 1) <= a
      BY <2>1, <2>3, Zenon
    <3> PICK g \in Nat \ {0} : g = d * 4
      OBVIOUS
    <3>2. /\ \A i \in 1 .. g : x + i \in 1 .. a /\ x + i \in 1 .. a + (c * 4)
          /\ x + (g + 1) \in 1 .. a /\ x + (g + 1) \in 1 .. a + (c * 4)
          /\ x + (g + 1) <= (a + (c * 4)) + 1
      <4>1. x + (g + 1) <= a
        BY <3>1
      <4> QED BY ONLY <4>1
    <3> QED BY <3>2
  <2>5. \A i \in 1 .. d * 4 : u[x + i] = B!base64Encode(p, Bin(f, m))[i]
    <3> TAKE i \in 1 .. d * 4
    <3>1. t[x + i] = B!base64Encode(p, Bin(f, m))[i]
      BY <2>1, Zenon
    <3>2. u[x + i] = v[x + i] /\ v[x + i] = t[x + i]
      BY <1>5, <1>6, <2>4, Zenon
    <3> QED BY <3>1, <3>2, Zenon
  <2>6. u[x + ((d * 4) + 1)] = B!NL /\ x + ((d * 4) + 1) <= Len(u)
    BY <1>5, <1>6, <2>1, <2>3, <2>4, Zenon
  <2> QED BY <2>3, <2>5, <2>6, Zenon DEF LineAt
<1>10. \A m \in 0 .. (l + 1) - 1 : LineAt(f, p, u, m)
  <2> \A m \in 0 .. (l + 1) - 1 : m \in 0 .. l - 1 \/ m = l
    OBVIOUS
  <2> QED BY <1>8, <1>9, Zenon
<1>11. Len(u) = Ending(f, l + 1)
  <2>1. (l + 1) - 1 = l /\ Len(u) = a + ((c * 4) + 1)
    BY <1>6
  <2>2. CASE Start(l + 1) <= Len(f)
    <3>1. Start(l) + Block <= Len(f)
      BY <2>2, Places
    <3>2. Span(f, l) = Width
      BY <1>1, <3>1, Zenon DEF IsBlock
    <3>3. Place(l + 1) = a + Width
      BY Places
    <3> QED BY <1>7, <2>1, <2>2, <3>2, <3>3, Zenon DEF Ending
  <2>3. CASE ~(Start(l + 1) <= Len(f))
    BY <1>7, <2>1, <2>3, Zenon DEF Ending
  <2> QED BY <2>2, <2>3
<1>12. (l + 1) - 1 = l
  OBVIOUS
<1> QED BY <1>6, <1>10, <1>11, <1>12, Zenon DEF LinesIn

\* A line ends where the next one starts, or the text ends.
LEMMA LineEnds ==
  ASSUME B!Base64Assumption, NEW f \in Seq(B!Bytes), NEW p \in B!Programs, NEW l \in Nat,
         NEW t, LinesIn(f, p, t, l), NEW m \in 0 .. l - 1
  PROVE  /\ Start(m) < Len(f) /\ IsBlock(f, m)
         /\ Place(m) + Span(f, m) = IF m + 1 < l THEN Place(m + 1) ELSE Len(t)
<1> PICK n \in Nat : n = Len(f)
  BY LenProperties
<1>1. m \in Nat /\ l - 1 \in Nat /\ m <= l - 1 /\ l # 0
  OBVIOUS
<1>2. Start(m) < n
  <2> Start(m) <= Start(l - 1) /\ Start(m) \in Nat /\ Start(l - 1) \in Nat
    BY <1>1, Places
  <2> Start(l - 1) < n
    BY <1>1, Zenon DEF LinesIn
  <2> QED OBVIOUS
<1>3. IsBlock(f, m)
  BY <1>1, <1>2, BlockFacts
<1>4. Start(m) + Block <= n => Span(f, m) = Width /\ Place(m + 1) = Place(m) + Width
  <2>1. Start(m) + Block <= n => Span(f, m) = Width
    BY <1>3, Zenon DEF IsBlock
  <2> QED BY <1>1, <2>1, Places
<1>5. Start(m + 1) = Start(m) + Block /\ Start(m + 1) \in Nat
  <2> m + 1 \in Nat
    OBVIOUS
  <2> QED BY <1>1, Places
<1>6. CASE m + 1 < l
  <2>1. m + 1 \in Nat /\ m + 1 <= l - 1
    BY <1>6
  <2>2. Start(m + 1) <= Start(l - 1) /\ Start(l - 1) \in Nat
    BY <1>1, <2>1, Places
  <2>3. Start(l - 1) < n
    BY <1>1, Zenon DEF LinesIn
  <2>4. Start(m) + Block <= n
    BY <1>5, <2>2, <2>3
  <2> QED BY <1>2, <1>3, <1>4, <1>6, <2>4, Zenon
<1>7. CASE ~(m + 1 < l)
  <2>1. m = l - 1 /\ m + 1 = l
    BY <1>7
  <2>2. Len(t) = IF Start(m + 1) <= n THEN Place(m + 1) ELSE Place(m) + Span(f, m)
    BY <2>1, Zenon DEF LinesIn, Ending
  <2> QED BY <1>2, <1>3, <1>4, <1>5, <1>7, <2>2, Zenon
<1> QED BY <1>6, <1>7

\* getline reads the line with its newline.
LEMMA LineCount ==
  ASSUME B!Base64Assumption, NEW f \in Seq(B!Bytes), NEW p \in B!Programs, NEW l \in Nat,
         NEW t, LinesIn(f, p, t, l), NEW m \in 0 .. l - 1
  PROVE  1 + B!Cardinality({i \in Place(m) + 1 .. Len(t) : \A j \in Place(m) + 1 .. i : t[j] # B!NL})
           = Span(f, m)
<1> PICK c \in Nat \ {0} : c = Count(Bin(f, m))
  BY LineEnds DEF IsBlock
<1> PICK a \in Nat : a = Place(m)
  <2> m \in Nat
    OBVIOUS
  <2> QED BY Places
<1> PICK z \in Nat : z = Len(t)
  BY LenProperties DEF LinesIn
<1> PICK g \in Nat \ {0} : g = c * 4
  OBVIOUS
<1>0. a \in Nat /\ z \in Nat /\ g \in Nat /\ g >= 1
  OBVIOUS
<1>1. Span(f, m) = g + 1
  BY Zenon DEF Span
<1>2. /\ \A i \in 1 .. g : t[a + i] = B!base64Encode(p, Bin(f, m))[i]
      /\ t[a + (g + 1)] = B!NL /\ a + (g + 1) <= z
  <2> LineAt(f, p, t, m)
    BY Zenon DEF LinesIn
  <2> QED BY <1>1, Zenon DEF LineAt
<1>3. \A i \in 1 .. g : t[a + i] # B!NL
  <2> Bin(f, m) \in Seq(B!Bytes) /\ Len(Bin(f, m)) > 0
    BY LineEnds DEF IsBlock
  <2> \A i \in 1 .. g : B!base64Encode(p, Bin(f, m))[i] # B!NL
    BY Encodes
  <2> QED BY <1>2, Zenon
<1> DEFINE I == {i \in a + 1 .. z : \A j \in a + 1 .. i : t[j] # B!NL}
           x == a + 1
           y == a + g
<1>4. I = x .. y
  <2>1. \A j \in x .. y : j - a \in 1 .. g /\ a + (j - a) = j
    BY ONLY <1>0
  <2>2. \A j \in x .. y : t[j] # B!NL
    BY <1>3, <2>1
  <2>3. ASSUME NEW i \in a + 1 .. z PROVE (\A j \in a + 1 .. i : t[j] # B!NL) <=> i \in x .. y
    <3>1. CASE i <= y
      <4>1. i \in x .. y /\ \A j \in a + 1 .. i : j \in x .. y
        BY <3>1
      <4> QED BY <2>2, <4>1, Zenon
    <3>2. CASE ~(i <= y)
      <4>1. ~(i \in x .. y) /\ a + (g + 1) \in a + 1 .. i
        BY ONLY <1>0, <3>2
      <4> QED BY <1>2, <4>1, Zenon
    <3> QED BY <3>1, <3>2
  <2>4. x .. y \subseteq a + 1 .. z
    <3>1. a + (g + 1) <= z
      BY <1>2
    <3> QED BY ONLY <1>0, <3>1
  <2> HIDE DEF x, y
  <2> QED BY <2>3, <2>4, Zenon
<1>5. x \in Int /\ y \in Int /\ ~(x > y) /\ y - x + 1 = g
  BY ONLY <1>0
<1> HIDE DEF I, x, y
<1>6. B!Cardinality(I) = Cardinality(I)
  BY DEF B!Cardinality, Cardinality, B!IsFiniteSet, IsFiniteSet
<1>7. Cardinality(x .. y) = IF x > y THEN 0 ELSE y - x + 1
  BY <1>5, FS_Interval
<1>8. B!Cardinality(I) = g
  BY <1>4, <1>5, <1>6, <1>7, Zenon
<1>9. 1 + g = g + 1
  OBVIOUS
<1> QED BY <1>1, <1>8, <1>9, Zenon DEF I

\* The buffer holds the line.
LEMMA LineHeld ==
  ASSUME B!Base64Assumption, NEW f \in Seq(B!Bytes), NEW p \in B!Programs, NEW l \in Nat,
         NEW t, LinesIn(f, p, t, l), NEW m \in 0 .. l - 1,
         NEW b, \A i \in 0 .. LineCap - 1 : i < Span(f, m) => b[i] = t[Place(m) + 1 + i]
  PROVE  Written(p, Bin(f, m), b)
<1> PICK c \in Nat \ {0} : c = Count(Bin(f, m))
  BY LineEnds DEF IsBlock
<1> PICK a \in Nat : a = Place(m)
  <2> m \in Nat
    OBVIOUS
  <2> QED BY Places
<1> PICK g \in Nat \ {0} : g = c * 4
  OBVIOUS
<1>1. Span(f, m) = g + 1
  BY Zenon DEF Span
<1>2. g + 1 <= Width /\ Width < LineCap /\ LineCap \in Nat /\ Width \in Nat
  <2> Span(f, m) \in 5 .. Width
    BY LineEnds, Zenon DEF IsBlock
  <2> QED BY <1>1, Places
<1>3. \A i \in 1 .. g : t[a + i] = B!base64Encode(p, Bin(f, m))[i]
  <2> LineAt(f, p, t, m)
    BY Zenon DEF LinesIn
  <2> QED BY Zenon DEF LineAt
<1>4. ASSUME NEW i \in 1 .. g PROVE b[i - 1] = B!base64Encode(p, Bin(f, m))[i]
  <2>0. a \in Nat /\ g \in Nat /\ i \in Nat /\ 1 <= i /\ i <= g
    OBVIOUS
  <2>1. i - 1 \in 0 .. LineCap - 1 /\ i - 1 < Span(f, m) /\ a + 1 + (i - 1) = a + i
    <3> i - 1 \in 0 .. LineCap - 1 /\ i - 1 < g + 1 /\ a + 1 + (i - 1) = a + i
      BY ONLY <1>2, <2>0
    <3> QED BY <1>1, Zenon
  <2>2. b[i - 1] = t[a + 1 + (i - 1)]
    BY <2>1, Zenon
  <2> QED BY <1>3, <2>1, <2>2, Zenon
<1> QED BY <1>4, Zenon DEF Written

\* The bytes of the first m blocks.
Read(f, m) == IF Start(m) < Len(f) THEN Start(m) ELSE Len(f)

\* What has been decoded of the first m lines: the blocks of the file, and more only
\* behind the last one, if it is a multiple of three bytes that fills no line.
Good(f, m, o) ==
  /\ Len(o) >= Read(f, m) /\ Len(o) <= Read(f, m) + 3
  /\ \A i \in 1 .. Read(f, m) : o[i] = f[i]
  /\ Len(o) = Read(f, m) <=> (Start(m) <= Len(f) \/ (Len(f) % Block) % 3 # 0)

\* What is decoded of m lines, by the program that encoded them or by the other.
OutIs(f, p, d, t, m, o) ==
  /\ o \in Seq(Int) /\ (m = 0 => o = <<>>)
  /\ p = d => Good(f, m, o)
  /\ p # d => (m > 0 /\ t[1] < B!Pow(3) - 2 => Len(o) > 0 /\ o[1] # f[1])

\* decode by the program that encoded.
LEMMA GoodNext ==
  ASSUME B!Base64Assumption, NEW f \in Seq(B!Bytes), NEW p \in B!Programs, NEW m \in Nat,
         Start(m) < Len(f), NEW b, Written(p, Bin(f, m), b),
         NEW o \in Seq(Int), Good(f, m, o), NEW r, r = B!base64Decode(p, b, Span(f, m)),
         NEW q, q = o \o r
  PROVE  Good(f, m + 1, q) /\ q \in Seq(Int)
<1>1. PICK n \in Nat : n = Len(f)
  BY LenProperties
<1>2. PICK a \in Nat : a = Start(m) /\ a < n
  BY <1>1, Places
<1>3. PICK k \in Nat \ {0} : k = Block /\ k % 3 = 1
  BY Places
<1>4. PICK s \in 1 .. k : /\ s = Size(f, m) /\ s = Len(Bin(f, m))
                          /\ s = IF a + k <= n THEN k ELSE n - a
                          /\ \A i \in 1 .. s : Bin(f, m)[i] = f[a + i]
  <2>1. IsBlock(f, m)
    BY BlockFacts
  <2>2. Start(m) + Block = a + k
    BY <1>2, <1>3, Zenon
  <2> QED BY <1>1, <1>2, <1>3, <2>1, <2>2, Zenon DEF IsBlock
<1>5. /\ r \in Seq(Int) /\ (\A i \in 1 .. s : r[i] = f[a + i])
      /\ (s % 3 # 0 => Len(r) = s) /\ (s % 3 = 0 => Len(r) \in s + 1 .. s + 3)
  <2> PICK v : v = Bin(f, m)
    BY Zenon
  <2>1. v \in Seq(B!Bytes) /\ Len(v) = s /\ Len(v) > 0
    <3> IsBlock(f, m)
      BY BlockFacts
    <3> QED BY <1>4 DEF IsBlock
  <2>2. Written(p, v, b) /\ r = B!base64Decode(p, b, (Count(v) * 4) + 1)
    BY Zenon DEF Span
  <2>3. /\ r \in Seq(Int) /\ \A i \in 1 .. Len(v) : r[i] = v[i]
        /\ Len(v) % 3 # 0 => Len(r) = Len(v)
        /\ Len(v) % 3 = 0 => Len(r) \in Len(v) + 1 .. Len(v) + 3
    <3> IsBack(v, r)
      BY <2>1, <2>2, BlockBack
    <3> QED BY Zenon DEF IsBack
  <2> QED BY <1>4, <2>1, <2>3, Zenon
<1>6. Read(f, m) = a
  BY <1>1, <1>2, Zenon DEF Read
<1>7. Len(o) = a /\ \A i \in 1 .. a : o[i] = f[i]
  <2> Start(m) <= Len(f)
    BY <1>1, <1>2
  <2> QED BY <1>6, Zenon DEF Good
<1>8. /\ q \in Seq(Int) /\ Len(r) \in Nat /\ Len(q) = a + Len(r)
      /\ \A i \in 1 .. a : q[i] = o[i]
      /\ \A i \in 1 .. Len(r) : q[a + i] = r[i]
  <2>1. r \in Seq(Int) /\ q = o \o r
    BY <1>5
  <2>2. /\ q \in Seq(Int) /\ Len(r) \in Nat /\ Len(q) = Len(o) + Len(r)
        /\ \A i \in 1 .. Len(o) : q[i] = o[i]
        /\ \A i \in 1 .. Len(r) : q[Len(o) + i] = r[i]
    BY ONLY <2>1, Joined
  <2> QED BY <1>7, <2>2, Zenon
<1>9. PICK z \in Nat : z = Len(r)
  BY <1>8
<1>10. s <= z
  BY <1>5, <1>9
<1>11. Read(f, m + 1) = a + s /\ (Start(m + 1) <= Len(f) <=> a + k <= n)
  <2>1. Start(m + 1) = a + k
    BY <1>2, <1>3, Places
  <2>2. Read(f, m + 1) = IF a + k < n THEN a + k ELSE n
    BY <1>1, <2>1, Zenon DEF Read
  <2>3. s = IF a + k <= n THEN k ELSE n - a
    BY <1>4, Zenon
  <2>4. (IF a + k < n THEN a + k ELSE n) = a + s
    BY ONLY <2>3
  <2>5. Read(f, m + 1) = a + s
    BY <2>2, <2>4
  <2>6. Start(m + 1) <= Len(f) <=> a + k <= n
    BY <1>1, <2>1
  <2> QED BY <2>5, <2>6
<1>12. ASSUME NEW i \in 1 .. a + s PROVE q[i] = f[i]
  <2>1. CASE i <= a
    <3> i \in 1 .. a
      BY ONLY <2>1
    <3> QED BY <1>7, <1>8, Zenon
  <2>2. CASE ~(i <= a)
    <3>1. i - a \in 1 .. s /\ i - a \in 1 .. z /\ a + (i - a) = i
      BY ONLY <1>10, <2>2
    <3>2. q[a + (i - a)] = r[i - a] /\ r[i - a] = f[a + (i - a)]
      BY <1>5, <1>8, <1>9, <3>1, Zenon
    <3> QED BY <3>1, <3>2, Zenon
  <2> QED BY <2>1, <2>2
<1>13. CASE a + k <= n
  <2>1. s = k /\ s % 3 # 0
    BY ONLY <1>3, <1>4, <1>13
  <2>2. Len(q) = a + s
    BY <1>5, <1>8, <2>1, Zenon
  <2>3. a + s <= (a + s) + 3 /\ a + s >= a + s
    OBVIOUS
  <2> QED BY <1>8, <1>11, <1>12, <1>13, <2>2, <2>3, Zenon DEF Good
<1>14. CASE ~(a + k <= n)
  <2>1. s = n - a /\ s < k /\ a + s = n
    BY ONLY <1>2, <1>4, <1>14
  <2>2. n % k = s
    <3> s \in Nat
      OBVIOUS
    <3>1. ((m * k) + s) % k = s
      BY <2>1, Quotient
    <3>2. m * k = a
      BY <1>2, <1>3, Zenon DEF Start
    <3> QED BY <2>1, <3>1, <3>2, Zenon
  <2>3. Len(q) >= a + s /\ Len(q) <= (a + s) + 3 /\ (Len(q) = a + s <=> s % 3 # 0)
    <3>1. Len(q) = a + z
      BY <1>8, <1>9, Zenon
    <3>2. CASE s % 3 # 0
      <4>1. z = s
        BY <1>5, <1>9, <3>2
      <4> QED BY <3>1, <3>2, <4>1
    <3>3. CASE s % 3 = 0
      <4>1. z \in s + 1 .. s + 3
        BY <1>5, <1>9, <3>3
      <4>2. a + z >= a + s /\ a + z <= (a + s) + 3 /\ a + z # a + s
        BY ONLY <4>1
      <4> QED BY <3>1, <3>3, <4>2, Zenon
    <3> QED BY <3>2, <3>3
  <2>4. (Len(f) % Block) % 3 = s % 3
    BY <1>1, <1>3, <2>2, Zenon
  <2> QED BY <1>8, <1>11, <1>12, <1>14, <2>3, <2>4, Zenon DEF Good
<1> QED BY <1>13, <1>14

\* decode adds a line to what has been decoded.
LEMMA OutNext ==
  ASSUME B!Base64Assumption, NEW f \in Seq(B!Bytes), NEW p \in B!Programs, NEW d \in B!Programs,
         NEW l \in Nat, NEW t, LinesIn(f, p, t, l), NEW m \in 0 .. l - 1,
         NEW b, Written(p, Bin(f, m), b),
         NEW o, OutIs(f, p, d, t, m, o), NEW r, r = B!base64Decode(d, b, Span(f, m)),
         NEW q, q = o \o r
  PROVE  OutIs(f, p, d, t, m + 1, q)
<1>1. m \in Nat /\ m + 1 > 0 /\ m + 1 # 0
  OBVIOUS
<1>2. IsBlock(f, m) /\ Start(m) < Len(f)
  BY LineEnds
<1>3. o \in Seq(Int) /\ (m = 0 => o = <<>>)
  BY Zenon DEF OutIs
<1>4. CASE p = d
  <2> Good(f, m, o)
    BY <1>4, Zenon DEF OutIs
  <2> r = B!base64Decode(p, b, Span(f, m))
    BY <1>4
  <2> Good(f, m + 1, q) /\ q \in Seq(Int)
    BY <1>1, <1>2, <1>3, GoodNext
  <2> QED BY <1>1, <1>4, Zenon DEF OutIs
<1>5. CASE p # d
  <2> PICK v : v = Bin(f, m)
    BY Zenon
  <2>1. v \in Seq(B!Bytes) /\ Len(v) > 0 /\ 1 \in 1 .. Len(v) /\ v[1] = f[Start(m) + 1]
    BY <1>2 DEF IsBlock
  <2>2. Written(p, v, b) /\ r = B!base64Decode(d, b, (Count(v) * 4) + 1) /\ d # p
    BY <1>5, Zenon DEF Span
  <2>3. /\ r \in Seq(Int) /\ Len(r) > 0
        /\ B!base64Encode(p, v)[1] < B!Pow(3) - 2 => r[1] # v[1]
    BY <2>1, <2>2, BlockOther
  <2>4. /\ q \in Seq(Int) /\ Len(o) \in Nat /\ Len(r) \in Nat /\ Len(q) = Len(o) + Len(r)
        /\ \A i \in 1 .. Len(o) : q[i] = o[i]
        /\ \A i \in 1 .. Len(r) : q[Len(o) + i] = r[i]
    <3>1. o \in Seq(Int) /\ r \in Seq(Int) /\ q = o \o r
      BY <1>3, <2>3
    <3> QED BY ONLY <3>1, Joined
  <2>5. ASSUME t[1] < B!Pow(3) - 2 PROVE Len(q) > 0 /\ q[1] # f[1]
    <3>1. CASE m = 0
      <4>1. Len(o) = 0
        BY <1>3, <3>1
      <4>2. Len(q) > 0 /\ 1 \in 1 .. Len(r) /\ Len(o) + 1 = 1
        BY <2>3, <2>4, <4>1
      <4>3. q[1] = r[1]
        BY <2>4, <4>2
      <4>4. Start(m) + 1 = 1 /\ Place(m) + 1 = 1
        BY <3>1, Places
      <4>5. t[1] = B!base64Encode(p, v)[1]
        <5> PICK c \in Nat \ {0} : c = Count(v)
          BY <1>2 DEF IsBlock
        <5>1. 1 \in 1 .. c * 4
          OBVIOUS
        <5>2. LineAt(f, p, t, m)
          BY Zenon DEF LinesIn
        <5>3. t[Place(m) + 1] = B!base64Encode(p, v)[1]
          BY <5>1, <5>2, Zenon DEF LineAt
        <5> QED BY <4>4, <5>3, Zenon
      <4>6. r[1] # v[1]
        BY <2>3, <2>5, <4>5, Zenon
      <4> QED BY <2>1, <4>2, <4>3, <4>4, <4>6, Zenon
    <3>2. CASE m # 0
      <4>1. Len(o) > 0 /\ o[1] # f[1]
        <5> m > 0
          BY <1>1, <3>2
        <5> QED BY <1>5, <2>5, Zenon DEF OutIs
      <4>2. 1 \in 1 .. Len(o) /\ Len(q) > 0
        BY <2>4, <4>1
      <4> QED BY <2>4, <4>1, <4>2, Zenon
    <3> QED BY <3>1, <3>2
  <2> QED BY <1>1, <1>5, <2>4, <2>5, Zenon DEF OutIs
<1> QED BY <1>4, <1>5

\* l lines have been encoded, then the first m of them decoded.
Encoding ==
  at = "encode" /\ out = <<>>
  /\ \E l \in Nat : LinesIn(file, enc, text, l) /\ pos = Read(file, l)

\* All lines are there, and the first ones are decoded.
Decoding ==
  at = "decode"
  /\ \E l \in Nat : /\ LinesIn(file, enc, text, l) /\ Start(l) >= Len(file)
                    /\ \E m \in 0 .. l : /\ pos = IF m < l THEN Place(m) ELSE Len(text)
                                         /\ OutIs(file, enc, dec, text, m, out)

\* All lines are decoded.
Ended ==
  at = "end"
  /\ \E l \in Nat : /\ LinesIn(file, enc, text, l) /\ Start(l) >= Len(file)
                    /\ OutIs(file, enc, dec, text, l, out)

\* The inductive invariant of the two programs.
CodecInv ==
  /\ file \in Seq(B!Bytes) /\ enc \in B!Programs /\ dec \in B!Programs
  /\ DOMAIN line = 0 .. LineCap - 1
  /\ Encoding \/ Decoding \/ Ended

\* Nothing is encoded yet.
LEMMA CodecStart ==
  ASSUME B!Base64Assumption, B!Init
  PROVE  CodecInv
<1>1. file \in Seq(B!Bytes) /\ enc \in B!Programs /\ dec \in B!Programs
  BY DEF B!Init, B!Base64Assumption
<1>2. DOMAIN line = 0 .. LineCap - 1
  BY DEF B!Init
<1>3. at = "encode" /\ out = <<>> /\ text = <<>> /\ pos = 0
  BY DEF B!Init
<1> PICK n \in Nat : n = Len(file)
  BY <1>1, LenProperties
<1>4. Start(0) = 0 /\ Place(0) = 0
  BY Places
<1>5. Ending(file, 0) = 0 /\ Read(file, 0) = 0
  <2>1. 0 <= n /\ (IF 0 < n THEN 0 ELSE n) = 0
    OBVIOUS
  <2> QED BY <1>4, <2>1, Zenon DEF Ending, Read
<1>6. LinesIn(file, enc, text, 0)
  <2>1. text \in Seq(Int) /\ Len(text) = 0
    BY <1>3
  <2>2. \A m \in 0 .. 0 - 1 : FALSE
    OBVIOUS
  <2> QED BY <1>5, <2>1, <2>2, Zenon DEF LinesIn
<1>7. 0 \in Nat
  OBVIOUS
<1> QED BY <1>1, <1>2, <1>3, <1>5, <1>6, <1>7, Zenon DEF CodecInv, Encoding

\* encode adds the line of the next block.
LEMMA encodeKeeps ==
  ASSUME B!Base64Assumption, CodecInv, B!encode
  PROVE  CodecInv'
<1>1. /\ file \in Seq(B!Bytes) /\ enc \in B!Programs /\ dec \in B!Programs
      /\ DOMAIN line = 0 .. LineCap - 1
  BY DEF CodecInv
<1>2. /\ at = "encode" /\ pos < Len(file)
      /\ file' = file /\ enc' = enc /\ dec' = dec /\ line' = line /\ out' = out /\ at' = at
  BY DEF B!encode
<1>3. PICK l \in Nat : LinesIn(file, enc, text, l) /\ pos = Read(file, l) /\ out = <<>>
  BY <1>2 DEF CodecInv, Encoding, Decoding, Ended
<1> PICK n \in Nat : n = Len(file)
  BY <1>1, LenProperties
<1>4. Start(l) \in Nat /\ Start(l + 1) = Start(l) + Block /\ Block \in Nat \ {0}
  BY Places
<1>5. pos = Start(l) /\ Start(l) < n
  <2> pos = IF Start(l) < n THEN Start(l) ELSE n
    BY <1>3, Zenon DEF Read
  <2> QED BY <1>2
<1> DEFINE s == IF pos + Block < Len(file) THEN Block ELSE Len(file) - pos
           v == SubSeq(file, pos + 1, pos + s)
<1>6. s = Size(file, l) /\ v = Bin(file, l)
  BY <1>5, Zenon DEF Size, Bin
<1>7. text' = text \o B!base64Encode(enc, v) \o <<B!NL>> /\ pos' = pos + s
  <2>1. /\ text' = text \o (IF enc = "fileBase64" THEN B!fileEncode(v) ELSE B!base64Encode(enc, v))
                        \o <<B!NL>>
        /\ pos' = pos + s
    BY Zenon DEF B!encode
  <2>2. (IF enc = "fileBase64" THEN B!fileEncode(v) ELSE B!base64Encode(enc, v)) = B!base64Encode(enc, v)
    BY Zenon DEF B!fileEncode
  <2> HIDE DEF v, s
  <2> QED BY <2>1, <2>2, Zenon
<1> HIDE DEF v, s
<1>8. LinesIn(file, enc, text', l + 1)
  <2>1. text' = text \o B!base64Encode(enc, Bin(file, l)) \o <<B!NL>>
    BY <1>6, <1>7, Zenon
  <2> PICK u : u = text'
    BY Zenon
  <2> LinesIn(file, enc, u, l + 1)
    BY <1>1, <1>3, <1>5, <2>1, LineAdded
  <2> QED OBVIOUS
<1>9. pos' = Read(file, l + 1)
  <2>1. Size(file, l) = IF Start(l) + Block < n THEN Block ELSE n - Start(l)
    BY Zenon DEF Size
  <2>2. Read(file, l + 1) = IF Start(l) + Block < n THEN Start(l) + Block ELSE n
    BY <1>4, Zenon DEF Read
  <2>3. pos' = Start(l) + Size(file, l)
    BY <1>5, <1>6, <1>7, Zenon
  <2> QED BY <1>4, <2>1, <2>2, <2>3
<1>10. l + 1 \in Nat
  OBVIOUS
<1>11. Encoding'
  <2> at' = "encode" /\ out' = <<>> /\ LinesIn(file', enc', text', l + 1) /\ pos' = Read(file', l + 1)
    BY <1>2, <1>3, <1>8, <1>9, Zenon
  <2> QED BY <1>10, Zenon DEF Encoding
<1> QED BY <1>1, <1>2, <1>11, Zenon DEF CodecInv

\* All blocks are encoded; decoding starts with the first line.
LEMMA encodedKeeps ==
  ASSUME B!Base64Assumption, CodecInv, B!encoded
  PROVE  CodecInv'
<1>1. /\ file \in Seq(B!Bytes) /\ enc \in B!Programs /\ dec \in B!Programs
      /\ DOMAIN line = 0 .. LineCap - 1
  BY DEF CodecInv
<1>2. /\ at = "encode" /\ pos = Len(file) /\ at' = "decode" /\ pos' = 0 /\ text' = text
      /\ file' = file /\ enc' = enc /\ dec' = dec /\ line' = line /\ out' = out
  BY DEF B!encoded
<1>3. PICK l \in Nat : LinesIn(file, enc, text, l) /\ pos = Read(file, l) /\ out = <<>>
  BY <1>2 DEF CodecInv, Encoding, Decoding, Ended
<1> PICK n \in Nat : n = Len(file)
  BY <1>1, LenProperties
<1>4. Start(0) = 0 /\ Place(0) = 0 /\ Start(l) \in Nat
  BY Places
<1>5. Start(l) >= n
  <2> pos = IF Start(l) < n THEN Start(l) ELSE n
    BY <1>3, Zenon DEF Read
  <2> QED BY <1>2, <1>4
<1>6. pos' = IF 0 < l THEN Place(0) ELSE Len(text)
  <2>1. CASE 0 < l
    BY <1>2, <1>4, <2>1
  <2>2. CASE ~(0 < l)
    <3>1. l = 0 /\ Start(0) <= n
      BY <1>4, <2>2
    <3>2. Len(text) = Place(0)
      BY <1>3, <3>1, Zenon DEF LinesIn, Ending
    <3> QED BY <1>2, <1>4, <2>2, <3>2, Zenon
  <2> QED BY <2>1, <2>2
<1>7. Read(file, 0) = 0
  <2>1. (IF 0 < n THEN 0 ELSE n) = 0
    OBVIOUS
  <2> QED BY <1>4, <2>1, Zenon DEF Read
<1>8. Good(file, 0, <<>>)
  <2>1. Len(<<>>) = 0 /\ 0 >= 0 /\ 0 <= 0 + 3 /\ (\A i \in 1 .. 0 : FALSE) /\ 0 <= n
    OBVIOUS
  <2> QED BY <1>4, <1>7, <2>1, Zenon DEF Good
<1>9. OutIs(file, enc, dec, text, 0, out)
  <2>1. <<>> \in Seq(Int) /\ ~(0 > 0)
    OBVIOUS
  <2> QED BY <1>3, <1>8, <2>1, Zenon DEF OutIs
<1>10. 0 \in 0 .. l
  OBVIOUS
<1>11. Decoding'
  <2>1. /\ LinesIn(file', enc', text', l) /\ Start(l) >= Len(file')
        /\ pos' = (IF 0 < l THEN Place(0) ELSE Len(text')) /\ OutIs(file', enc', dec', text', 0, out')
    BY <1>2, <1>3, <1>5, <1>6, <1>9, Zenon
  <2> QED BY <1>2, <1>10, <2>1, Zenon DEF Decoding
<1> QED BY <1>1, <1>2, <1>11, Zenon DEF CodecInv

\* decode takes one line from the text and adds its block.
LEMMA decodeKeeps ==
  ASSUME B!Base64Assumption, CodecInv, B!decode
  PROVE  CodecInv'
<1>1. /\ file \in Seq(B!Bytes) /\ enc \in B!Programs /\ dec \in B!Programs
      /\ DOMAIN line = 0 .. LineCap - 1
  BY DEF CodecInv
<1>2. /\ at = "decode" /\ pos < Len(text) /\ at' = at /\ text' = text
      /\ file' = file /\ enc' = enc /\ dec' = dec
  BY DEF B!decode
<1>3. PICK l \in Nat : /\ LinesIn(file, enc, text, l) /\ Start(l) >= Len(file)
                       /\ \E m \in 0 .. l : /\ pos = IF m < l THEN Place(m) ELSE Len(text)
                                            /\ OutIs(file, enc, dec, text, m, out)
  BY <1>2 DEF CodecInv, Encoding, Decoding, Ended
<1>4. PICK m \in 0 .. l : /\ pos = IF m < l THEN Place(m) ELSE Len(text)
                          /\ OutIs(file, enc, dec, text, m, out)
  BY <1>3, Zenon
<1>5. m < l /\ pos = Place(m)
  <2> Len(text) \in Nat
    BY <1>3, LenProperties DEF LinesIn
  <2> QED BY <1>2, <1>4
<1>6. m \in 0 .. l - 1 /\ m + 1 \in 0 .. l
  BY <1>5
<1> DEFINE n == 1 + B!Cardinality({i \in pos + 1 .. Len(text) : \A j \in pos + 1 .. i : text[j] # B!NL})
<1>7. n = Span(file, m)
  BY <1>1, <1>3, <1>5, <1>6, LineCount
<1>8. /\ line' = [i \in DOMAIN line |-> IF i < n THEN text[pos + 1 + i] ELSE IF i = n THEN B!NUL ELSE line[i]]
      /\ out' = out \o (IF dec = "fileBase64" THEN B!fileDecode(line', n) ELSE B!base64Decode(dec, line', n))
      /\ pos' = pos + n
  BY Zenon DEF B!decode
<1> HIDE DEF n
<1> PICK b : b = line'
  BY Zenon
<1>9. DOMAIN b = 0 .. LineCap - 1 /\ \A i \in 0 .. LineCap - 1 : i < Span(file, m) => b[i] = text[Place(m) + 1 + i]
  BY <1>1, <1>5, <1>7, <1>8
<1>10. Written(enc, Bin(file, m), b)
  BY <1>1, <1>3, <1>6, <1>9, LineHeld
<1>11. out' = out \o B!base64Decode(dec, b, Span(file, m))
  <2>1. (IF dec = "fileBase64" THEN B!fileDecode(b, n) ELSE B!base64Decode(dec, b, n)) = B!base64Decode(dec, b, n)
    BY Zenon DEF B!fileDecode
  <2> QED BY <1>7, <1>8, <2>1, Zenon
<1>12. OutIs(file, enc, dec, text, m + 1, out')
  <2> PICK r, q : r = B!base64Decode(dec, b, Span(file, m)) /\ q = out'
    BY Zenon
  <2>1. q = out \o r
    BY <1>11, Zenon
  <2>2. OutIs(file, enc, dec, text, m + 1, q)
    BY <1>1, <1>3, <1>4, <1>6, <1>10, <2>1, OutNext
  <2> QED BY <2>2, Zenon
<1>13. pos' = IF m + 1 < l THEN Place(m + 1) ELSE Len(text)
  <2>1. Place(m) + Span(file, m) = IF m + 1 < l THEN Place(m + 1) ELSE Len(text)
    BY <1>1, <1>3, <1>6, LineEnds
  <2>2. pos' = Place(m) + Span(file, m)
    BY <1>5, <1>7, <1>8, Zenon
  <2> QED BY <2>1, <2>2
<1>14. Decoding'
  <2>1. /\ at' = "decode" /\ LinesIn(file', enc', text', l) /\ Start(l) >= Len(file')
        /\ pos' = (IF m + 1 < l THEN Place(m + 1) ELSE Len(text'))
        /\ OutIs(file', enc', dec', text', m + 1, out')
    BY <1>2, <1>3, <1>12, <1>13, Zenon
  <2> QED BY <1>6, <2>1, Zenon DEF Decoding
<1> QED BY <1>1, <1>2, <1>9, <1>14, Zenon DEF CodecInv

\* The end of the text is the end of the last line.
LEMMA decodedKeeps ==
  ASSUME B!Base64Assumption, CodecInv, B!decoded
  PROVE  CodecInv'
<1>1. /\ file \in Seq(B!Bytes) /\ enc \in B!Programs /\ dec \in B!Programs
      /\ DOMAIN line = 0 .. LineCap - 1
  BY DEF CodecInv
<1>2. /\ at = "decode" /\ pos = Len(text) /\ at' = "end" /\ text' = text
      /\ file' = file /\ enc' = enc /\ dec' = dec /\ line' = line /\ out' = out
  BY DEF B!decoded
<1>3. PICK l \in Nat : /\ LinesIn(file, enc, text, l) /\ Start(l) >= Len(file)
                       /\ \E m \in 0 .. l : /\ pos = IF m < l THEN Place(m) ELSE Len(text)
                                            /\ OutIs(file, enc, dec, text, m, out)
  BY <1>2 DEF CodecInv, Encoding, Decoding, Ended
<1>4. PICK m \in 0 .. l : /\ pos = IF m < l THEN Place(m) ELSE Len(text)
                          /\ OutIs(file, enc, dec, text, m, out)
  BY <1>3, Zenon
<1>5. m = l
  <2> SUFFICES ASSUME m # l PROVE FALSE
    OBVIOUS
  <2>1. m < l /\ m \in 0 .. l - 1 /\ m \in Nat
    OBVIOUS
  <2>2. LineAt(file, enc, text, m) /\ IsBlock(file, m)
    BY <1>1, <1>3, <2>1, LineEnds DEF LinesIn
  <2>3. Place(m) + Span(file, m) <= Len(text) /\ Span(file, m) \in 5 .. Width
    BY <2>2, Zenon DEF LineAt, IsBlock
  <2>4. Place(m) = Len(text) /\ Place(m) \in Nat /\ Width \in Nat
    BY <1>2, <1>4, <2>1, Places
  <2> QED BY <2>3, <2>4
<1>6. Ended'
  <2>1. LinesIn(file', enc', text', l) /\ Start(l) >= Len(file') /\ OutIs(file', enc', dec', text', l, out')
    BY <1>2, <1>3, <1>4, <1>5, Zenon
  <2> QED BY <1>2, <2>1, Zenon DEF Ended
<1> QED BY <1>1, <1>2, <1>6, Zenon DEF CodecInv

\* The invariant is inductive.
LEMMA CodecStep ==
  ASSUME B!Base64Assumption, CodecInv, [B!Next]_(B!vars)
  PROVE  CodecInv'
<1>1. CASE B!encode
  BY <1>1, encodeKeeps
<1>2. CASE B!encoded
  BY <1>2, encodedKeeps
<1>3. CASE B!decode
  BY <1>3, decodeKeeps
<1>4. CASE B!decoded
  BY <1>4, decodedKeeps
<1>5. CASE UNCHANGED B!vars
  <2> file' = file /\ enc' = enc /\ dec' = dec /\ pos' = pos /\ text' = text /\ line' = line
      /\ out' = out /\ at' = at
    BY <1>5 DEF B!vars
  <2> QED BY Zenon DEF CodecInv, Encoding, Decoding, Ended
<1> QED BY <1>1, <1>2, <1>3, <1>4, <1>5 DEF B!Next, B!fileBase64, B!myBase64

\* How many lines are full, and what the last one holds.
LEMMA LastLine ==
  ASSUME B!Base64Assumption, NEW n \in Nat, NEW l \in Nat, Start(l) >= n, l = 0 \/ Start(l - 1) < n
  PROVE  /\ Start(l) = n => n \div Block = l /\ n % Block = 0
         /\ Start(l) # n => /\ l > 0 /\ n \div Block = l - 1 /\ n % Block = n - Start(l - 1)
                            /\ n - Start(l - 1) \in 1 .. Block - 1
<1> PICK k \in Nat \ {0} : k = Block
  BY Places
<1>1. CASE Start(l) = n
  <2>1. 0 \in Nat /\ 0 < k
    OBVIOUS
  <2>2. ((l * k) + 0) \div k = l /\ ((l * k) + 0) % k = 0
    BY <2>1, Quotient
  <2>3. (l * k) + 0 = n
    BY <1>1 DEF Start
  <2> QED BY <1>1, <2>2, <2>3, Zenon
<1>2. CASE Start(l) # n
  <2>1. l > 0 /\ l - 1 \in Nat /\ (l - 1) + 1 = l
    <3> l # 0
      BY <1>2, Places
    <3> QED OBVIOUS
  <2> PICK a \in Nat : a = Start(l - 1)
    BY <2>1, Places
  <2>2. a + k > n /\ a < n
    <3> Start(l) = a + k
      BY <2>1, Places
    <3> QED BY <1>2, <2>1
  <2> PICK s \in 1 .. k - 1 : s = n - a
    BY <2>2
  <2>3. s \in Nat /\ s < k
    OBVIOUS
  <2>4. (((l - 1) * k) + s) \div k = l - 1 /\ (((l - 1) * k) + s) % k = s
    BY <2>1, <2>3, Quotient
  <2>5. ((l - 1) * k) + s = n
    <3> (l - 1) * k = a
      BY Zenon DEF Start
    <3> QED OBVIOUS
  <2> QED BY <1>2, <2>1, <2>4, <2>5, Zenon
<1> QED BY <1>1, <1>2

\* The length of the text, from its lines.
LEMMA LinesFull ==
  ASSUME B!Base64Assumption, NEW f \in Seq(B!Bytes), NEW p, NEW t, NEW l \in Nat,
         LinesIn(f, p, t, l), Start(l) >= Len(f)
  PROVE  LET x == Len(f) % Block
             y(n) == IF n % 3 # 0 THEN (n \div 3 + 1) * 4 ELSE (n \div 3) * 4
         IN Len(t) = (Len(f) \div Block) * (y(Block) + 1) + IF x = 0 THEN 0 ELSE y(x) + 1
<1> DEFINE y(n) == IF n % 3 # 0 THEN (n \div 3 + 1) * 4 ELSE (n \div 3) * 4
<1>1. \A n \in Nat : y(n) + 1 = (((n + 2) \div 3) * 4) + 1
  OBVIOUS
<1> HIDE DEF y
<1> PICK n \in Nat : n = Len(f)
  BY LenProperties
<1>2. y(Block) + 1 = Width
  <2> Block \in Nat
    BY Places
  <2> QED BY <1>1 DEF Width
<1>3. /\ Start(l) = n => n \div Block = l /\ n % Block = 0
      /\ Start(l) # n => /\ l > 0 /\ n \div Block = l - 1 /\ n % Block = n - Start(l - 1)
                         /\ n - Start(l - 1) \in 1 .. Block - 1
  <2> Start(l) >= n /\ (l = 0 \/ Start(l - 1) < n)
    BY DEF LinesIn
  <2> QED BY LastLine
<1>4. Len(t) = Ending(f, l)
  BY DEF LinesIn
<1> DEFINE x == n % Block
<1>5. CASE Start(l) = n
  <2>1. Start(l) <= n /\ Place(l) \in Nat
    BY <1>5, Places
  <2>2. Len(t) = Place(l) + 0
    <3> Place(l) + 0 = Place(l)
      BY <2>1
    <3> QED BY <1>4, <2>1, Zenon DEF Ending
  <2>3. (n \div Block) * (y(Block) + 1) = Place(l) /\ x = 0
    BY <1>2, <1>3, <1>5, Zenon DEF Place
  <2> QED BY <2>2, <2>3, Zenon DEF y
<1>6. CASE Start(l) # n
  <2>1. ~(Start(l) <= n)
    <3> Start(l) \in Nat
      BY Places
    <3> QED BY <1>6
  <2>2. Len(t) = Place(l - 1) + Span(f, l - 1)
    BY <1>4, <2>1, Zenon DEF Ending
  <2>3. (n \div Block) * (y(Block) + 1) = Place(l - 1)
    BY <1>2, <1>3, <1>6, Zenon DEF Place
  <2>4. l - 1 \in Nat /\ (l - 1) + 1 = l /\ x = n - Start(l - 1) /\ x \in 1 .. Block - 1 /\ x # 0
    BY <1>3, <1>6
  <2>5. IsBlock(f, l - 1) /\ Start(l - 1) + Block > n
    <3>1. PICK k \in Nat : k = l - 1 /\ k + 1 = l
      BY <2>4
    <3>2. Start(k) \in Nat /\ Start(k + 1) = Start(k) + Block /\ Block \in Nat /\ Start(k + 1) \in Nat
      <4> k + 1 \in Nat
        OBVIOUS
      <4> QED BY Places
    <3>3. n - Start(k) \in 1 .. Block - 1
      BY <2>4, <3>1
    <3>4. Start(k) < n /\ Start(k) + Block > n
      BY ONLY <3>2, <3>3
    <3>5. IsBlock(f, k)
      BY <3>4, BlockFacts
    <3> QED BY <3>1, <3>4, <3>5, Zenon
  <2>6. Len(Bin(f, l - 1)) = x
    <3> ~(Start(l - 1) + Block <= n)
      <4>1. \A k \in Nat : Start(k) \in Nat
        BY Places
      <4>2. Start(l - 1) \in Nat
        BY <2>4, <4>1, Zenon
      <4>3. Block \in Nat
        BY Places
      <4> QED BY <2>5, <4>2, <4>3
    <3> QED BY <2>4, <2>5, Zenon DEF IsBlock
  <2>7. Span(f, l - 1) = (((x + 2) \div 3) * 4) + 1
    BY <2>6, Zenon DEF Span, Count
  <2>8. Span(f, l - 1) = y(x) + 1
    <3>1. x \in 1 .. Block - 1
      BY <2>4, Zenon
    <3>2. Block \in Nat
      BY Places
    <3> x \in Nat
      <4> HIDE DEF x
      <4> QED BY ONLY <3>1, <3>2
    <3> QED BY <1>1, <2>7, Zenon
  <2>9. Len(t) = (n \div Block) * (y(Block) + 1) + (y(x) + 1)
    BY <2>2, <2>3, <2>8, Zenon
  <2> QED BY <2>4, <2>9, Zenon DEF y
<1> QED BY <1>5, <1>6

\* The invariant gives the properties.
LEMMA CodecShows ==
  ASSUME B!Base64Assumption, CodecInv
  PROVE  B!ComesBack /\ B!LinesAreFull
<1>1. file \in Seq(B!Bytes) /\ enc \in B!Programs /\ dec \in B!Programs
  BY DEF CodecInv
<1>2. ASSUME at = "end"
      PROVE  /\ enc = dec => /\ B!IsPrefix(file, out) /\ Len(out) <= Len(file) + 3
                             /\ out = file <=> ((Len(file) % Block) % 3 # 0 \/ Len(file) % Block = 0)
             /\ enc # dec => (out = file => text = <<>> \/ text[1] \notin 0 .. B!Pow(3) - 3)
  <2>1. PICK l \in Nat : /\ LinesIn(file, enc, text, l) /\ Start(l) >= Len(file)
                         /\ OutIs(file, enc, dec, text, l, out)
    BY <1>2 DEF CodecInv, Encoding, Decoding, Ended
  <2> PICK n \in Nat : n = Len(file)
    BY <1>1, LenProperties
  <2>2. Start(l) \in Nat /\ Block \in Nat \ {0}
    BY Places
  <2>3. Read(file, l) = n
    <3> ~(Start(l) < n)
      BY <2>1, <2>2
    <3> QED BY Zenon DEF Read
  <2>4. out \in Seq(Int) /\ Len(out) \in Nat
    BY <2>1, LenProperties DEF OutIs
  <2>5. CASE enc = dec
    <3>1. /\ Len(out) >= n /\ Len(out) <= n + 3 /\ \A i \in 1 .. n : out[i] = file[i]
          /\ Len(out) = n <=> (Start(l) <= n \/ (n % Block) % 3 # 0)
      BY <2>1, <2>3, <2>5, Zenon DEF OutIs, Good
    <3>2. Start(l) <= n <=> n % Block = 0
      <4>1. /\ Start(l) = n => n % Block = 0
            /\ Start(l) # n => n % Block = n - Start(l - 1) /\ n - Start(l - 1) \in 1 .. Block - 1
        <5> Start(l) >= n /\ (l = 0 \/ Start(l - 1) < n)
          BY <2>1 DEF LinesIn
        <5> QED BY LastLine
      <4>2. Start(l) <= n <=> Start(l) = n
        BY <2>1, <2>2
      <4> QED BY <4>1, <4>2
    <3>3. B!IsPrefix(file, out)
      <4>1. n <= Len(out) /\ n \in Int /\ 1 \in Int
        BY <2>4, <3>1
      <4>2. SubSeq(file, 1, n) = SubSeq(out, 1, n)
        <5>1. SubSeq(file, 1, n) = [i \in 1 .. n |-> file[i]]
          BY <1>1
        <5>2. SubSeq(out, 1, n) = [i \in 1 .. n |-> out[i]]
          BY <2>4, <4>1
        <5> QED BY <3>1, <5>1, <5>2
      <4> QED BY <4>1, <4>2 DEF B!IsPrefix
    <3>4. out = file <=> Len(out) = n
      <4> SUFFICES ASSUME Len(out) = n PROVE out = file
        OBVIOUS
      <4>1. file = [i \in 1 .. n |-> file[i]]
        BY <1>1
      <4>2. out = [i \in 1 .. n |-> out[i]]
        BY <2>4
      <4> QED BY <3>1, <4>1, <4>2
    <3> QED BY <2>5, <3>1, <3>2, <3>3, <3>4, Zenon
  <2>6. CASE enc # dec
    <3> SUFFICES ASSUME text # <<>>, text[1] \in 0 .. B!Pow(3) - 3 PROVE out # file
      BY <2>6
    <3>1. text[1] < B!Pow(3) - 2
      <4> 3 \in 1 .. 4
        OBVIOUS
      <4> B!Pow(3) \in Nat
        BY Powers
      <4> QED OBVIOUS
    <3>2. l > 0
      <4> SUFFICES ASSUME l = 0 PROVE FALSE
        OBVIOUS
      <4>1. Len(text) = 0
        <5> Start(0) <= n
          BY Places
        <5> QED BY <2>1, Places, Zenon DEF LinesIn, Ending
      <4>2. text \in Seq(Int)
        BY <2>1 DEF LinesIn
      <4> QED BY <4>1, <4>2
    <3> QED BY <2>1, <2>6, <3>1, <3>2, Zenon DEF OutIs
  <2> QED BY <2>5, <2>6
<1>3. ASSUME at # "encode" PROVE B!LinesAreFull
  <2> PICK l \in Nat : LinesIn(file, enc, text, l) /\ Start(l) >= Len(file)
    BY <1>3 DEF CodecInv, Encoding, Decoding, Ended
  <2> QED BY <1>1, LinesFull, Zenon DEF B!LinesAreFull
<1>4. at = "encode" => B!LinesAreFull
  BY DEF B!LinesAreFull
<1>5. B!ComesBack
  BY <1>2, Zenon DEF B!ComesBack
<1> QED BY <1>3, <1>4, <1>5

\* What FilesComeBack says of the programs of base64 holds in all their states, for
\* files of any length.
THEOREM FilesDecodeBack ==
  B!Base64Assumption => (B!Spec => [](B!ComesBack /\ B!LinesAreFull))
<1> SUFFICES ASSUME B!Base64Assumption PROVE B!Spec => [](B!ComesBack /\ B!LinesAreFull)
  OBVIOUS
<1>1. B!Init => CodecInv
  BY CodecStart
<1>2. CodecInv /\ [B!Next]_(B!vars) => CodecInv'
  BY CodecStep
<1>3. CodecInv => B!ComesBack /\ B!LinesAreFull
  BY CodecShows
<1> QED BY <1>1, <1>2, <1>3, PTL DEF B!Spec

\* The same for the tools as they are checked.
THEOREM ToolsFilesComeBack == B!Base64Assumption => (ToolsSpec => []FilesComeBack)
<1> SUFFICES ASSUME B!Base64Assumption PROVE ToolsSpec => []FilesComeBack
  OBVIOUS
<1> DEFINE I == tool = "base64" => CodecInv
<1>1. ToolsInit => I
  BY CodecStart DEF ToolsInit
<1>2. I /\ [ToolsNext]_all => I'
  <2> SUFFICES ASSUME I, [ToolsNext]_all, tool' = "base64" PROVE CodecInv'
    OBVIOUS
  <2>1. tool' = tool
    BY DEF ToolsNext, RunBase64, RunPkgSort, RunBinSplit, all
  <2>2. CodecInv
    BY <2>1
  <2>3. B!Next \/ UNCHANGED B!vars
    BY <2>1 DEF ToolsNext, RunBase64, RunPkgSort, RunBinSplit, all, shared, base64, B!vars
  <2> QED BY <2>2, <2>3, CodecStep
<1>3. I => FilesComeBack
  BY CodecShows DEF FilesComeBack
<1> QED BY <1>1, <1>2, <1>3, PTL DEF ToolsSpec
=============================================================================
