------------------------------- MODULE MCRtsp -------------------------------
(***************************************************************************)
(* RtspPullHandle in all its versions: `version` says which one runs, the  *)
(* current one (RtspPull) or one of those kept beside it (RtspClips).  The *)
(* variables of the module that does not run keep their initial values.    *)
(***************************************************************************)
EXTENDS RtspClips, RtspPull

MCSizes == {2, 3}    \* one size with the lowest bit, one without

ASSUME PullAssumption

clipVars == <<status, mainAt, pull, keys, streams, packs, triggers, early, broken>>

RtspInit ==
  /\ CurrentInit
  /\ \/ Init
     \/ /\ version = "current"
        /\ status = "unset" /\ mainAt = "new" /\ pull = "open"
        /\ keys = <<>> /\ streams = <<>> /\ packs = <<>>
        /\ triggers = 0 /\ early = FALSE /\ broken = "no"

RunClips   == version # "current" /\ Next        /\ UNCHANGED currentVars
RunCurrent == version = "current" /\ CurrentNext /\ UNCHANGED <<version, clipVars>>

RtspSpec == RtspInit /\ [][RunClips \/ RunCurrent]_<<vars, currentVars>>
=============================================================================
