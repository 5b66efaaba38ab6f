------------------------------ MODULE AlsaCtrl ------------------------------
(***************************************************************************)
(* libs/lzUtils/src/alsa_ctrl: what a call does to a sound device.  Every  *)
(* call holds the device's mutex, so each is a function of the device;     *)
(* only a read or a write can wait inside (Blocks).                        *)
(*                                                                         *)
(* The ALSA library and the driver are external: pcm is the state of the   *)
(* stream behind ptr->handle, or "NULL"; a call on a NULL handle crashes.  *)
(***************************************************************************)
EXTENDS Naturals

States == {"NULL", "OPEN", "SETUP", "PREPARED", "RUNNING", "XRUN", "PAUSED", "SUSPENDED"}

Device == [pcm : States \cup {"crash"}, can_pause : BOOLEAN]

\* What may go wrong in a call: nothing, snd_pcm_open, the hardware parameters, the
\* transfer, or waking up from suspension.
Faults == {"none", "open", "params", "io", "resume"}

To(d, state) == [d EXCEPT !.pcm = state]

\* The device cannot be opened again after _alsa_ctrl_close: the handle stays NULL,
\* and the next call is made with it.
_alsa_ctrl_open(d, fault) == To(d, IF fault = "open" THEN "NULL" ELSE "OPEN")

_alsa_ctrl_set_params(d, fault) ==
  To(d, IF d.pcm = "NULL" THEN "crash" ELSE IF fault = "params" THEN "OPEN" ELSE "PREPARED")

_alsa_ctrl_close(d) == To(d, IF d.pcm = "NULL" THEN "crash" ELSE "NULL")

\* After a failed open the parameters are set all the same.
alsa_ctrl_create(d, fault) == _alsa_ctrl_set_params(_alsa_ctrl_open(d, fault), fault)

\* Mutant: a device without its parameters is closed again.
resetCloses(d, fault) ==
  IF _alsa_ctrl_close(d).pcm = "crash" THEN _alsa_ctrl_close(d)
  ELSE To(d, IF fault = "none" THEN "PREPARED" ELSE "NULL")

alsa_ctrl_reset(d, fault) ==
  IF _alsa_ctrl_close(d).pcm = "crash" THEN _alsa_ctrl_close(d)
  ELSE IF fault = "open" THEN _alsa_ctrl_open(d, fault)
  ELSE _alsa_ctrl_set_params(_alsa_ctrl_open(d, fault), fault)

\* snd_pcm_pause works on a running stream only; snd_pcm_drop on any with parameters.
alsa_ctrl_pause(d) ==
  IF d.pcm = "NULL" THEN To(d, "crash")
  ELSE IF d.can_pause THEN (IF d.pcm = "RUNNING" THEN To(d, "PAUSED") ELSE d)
  ELSE IF d.pcm = "OPEN" THEN d ELSE To(d, "SETUP")

\* snd_pcm_prepare leaves a running stream alone.
alsa_ctrl_resume(d, fault) ==
  LET awake == IF d.pcm = "SUSPENDED" /\ fault # "resume" THEN To(d, "RUNNING") ELSE d
  IN IF d.pcm = "NULL" THEN To(d, "crash")
     ELSE IF d.can_pause THEN (IF d.pcm = "PAUSED" THEN To(d, "RUNNING") ELSE awake)
     ELSE IF awake.pcm \in {"OPEN", "RUNNING"} THEN awake ELSE To(d, "PREPARED")

\* A transfer of a whole chunk: overruns, underruns and suspensions are mended on
\* the way, unless the stream does not wake up or another error comes.
Transfers(d, fault) ==
  /\ d.pcm \in {"PREPARED", "RUNNING", "XRUN", "PAUSED", "SUSPENDED"}
  /\ fault # "io" /\ (d.pcm = "SUSPENDED" => fault # "resume")

\* The stream is paused, with nothing left in its buffer to read or no room to write.
Blocks(d) == d.pcm = "PAUSED"

\* The device after a read or write, whole or not.
Transferred(d, fault) ==
  IF Transfers(d, fault) /\ d.pcm # "PAUSED" THEN To(d, "RUNNING") ELSE d
=============================================================================
