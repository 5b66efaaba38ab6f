------------------------------- MODULE CPPBox -------------------------------
(***************************************************************************)
(* The programs inside CPPBox that use MTQueue: in every behavior `applet` *)
(* says which one, and the variables of the other stay idle.  MTQueueTest  *)
(* is extended; RtPlayer is instantiated and shares its variables of the   *)
(* same name, those of the queue among them.                               *)
(***************************************************************************)
EXTENDS MTQueueTest

CONSTANTS
  rec, play, main, MaxPause,  \* of RtPlayer
  PlayerPush                  \* its MaxPush

PlayerThreads == {rec, play, main}
PlayerCalls ==
  [t \in PlayerThreads |->
     IF t = rec THEN {"cycWrite"} ELSE IF t = play THEN {"readTd"} ELSE {"clear"}]

VARIABLES
  applet,
  ppc, isPaused, mPauseFlag, mFullFlag, canPause, devPaused, devLock, pauses, chunkEra, era  \* RtPlayer

P == INSTANCE RtPlayer WITH Threads <- PlayerThreads, Calls <- PlayerCalls, MaxPush <- PlayerPush

ASSUME BoxAssumption == TestAssumption /\ P!PlayerAssumption

idle == "idle"

TestIdle   == wpc = idle /\ file = idle /\ failed = idle
PlayerIdle ==
  /\ ppc = idle /\ isPaused = idle /\ mPauseFlag = idle /\ mFullFlag = idle
  /\ canPause = idle /\ devPaused = idle /\ devLock = idle /\ pauses = idle /\ chunkEra = idle /\ era = idle

test == <<wpc, file, failed>>
own  == <<ppc, isPaused, mPauseFlag, mFullFlag, canPause, devPaused, devLock, pauses, chunkEra, era>>
all  == <<applet, tvars, own>>

BoxInit ==
  \/ applet = "RtPlayer" /\ P!PlayerInit /\ TestIdle
  \/ applet = "MTQueue"  /\ TestInit /\ PlayerIdle

RunRtPlayer(A) == applet = "RtPlayer" /\ A /\ UNCHANGED <<applet, test>>
RunMTQueue(A)  == applet = "MTQueue"  /\ A /\ UNCHANGED <<applet, own>>

\* The fairness of each program: see PlayerSpec and TestSpec.
RtPlayerFair ==
  /\ WF_all(RunRtPlayer(P!RGoes)) /\ SF_all(RunRtPlayer(P!RStoresNext)) /\ SF_all(RunRtPlayer(P!RLock))
  /\ WF_all(RunRtPlayer(P!PGoes)) /\ WF_all(RunRtPlayer(P!PWait))
  /\ SF_all(RunRtPlayer(P!PRead)) /\ SF_all(RunRtPlayer(P!PLock))
  /\ WF_all(RunRtPlayer(P!Filling)) /\ SF_all(RunRtPlayer(P!Handler))

MTQueueFair ==
  /\ WF_all(RunMTQueue(Writer)) /\ WF_all(RunMTQueue(Main)) /\ WF_all(RunMTQueue(ROpen))
  /\ WF_all(RunMTQueue(RGoes)) /\ WF_all(RunMTQueue(RExpires))

BoxNext == RunRtPlayer(P!PlayerNext) \/ RunMTQueue(TestNext)

BoxSpec == BoxInit /\ [][BoxNext]_all /\ RtPlayerFair /\ MTQueueFair
-----------------------------------------------------------------------------
\* RtPlayer: what was recorded before a pause is at most one chunk after it.
OneChunkSurvivesPause == applet = "RtPlayer" => P!OneStaleChunk

\* RtPlayer: the handler gets the mutexes that recorder and player compete for;
\* what alone keeps it is resume() on a device that was paused in hardware while
\* the device's thread was about to use it.
PauseHandlerReturns ==
  (applet = "RtPlayer" /\ mpc \in P!InHandler)
    ~> (applet = "RtPlayer" /\ (mpc = "join" \/ (mpc \in P!Resuming /\ P!Stuck)))

\* MTQueue: the exit state never overtakes the data, and the queue is deleted when
\* nobody is inside it.
CopyIsComplete == applet = "MTQueue" => TransferComplete /\ DeletedIdle

\* MTQueue: if both files open, the copy ends.
BothOpenThenDeleted ==
  (applet = "MTQueue" /\ wpc # "fopen" /\ rpc # "fopen" /\ failed \cap {"in", "out"} = {})
    ~> (applet = "MTQueue" /\ mpc = "deleted")
=============================================================================
