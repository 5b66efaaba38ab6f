-------------------------------- MODULE Vad --------------------------------
(***************************************************************************)
(* libs/lzUtils/src/vad_op: get_vad_status is called with chunk after      *)
(* chunk of sound and says when somebody started and finished speaking.    *)
(* It keeps only a status and one counter, which a change of the status    *)
(* resets - but not the one from STARTED to SPEAKING.                      *)
(***************************************************************************)
EXTENDS Integers, FiniteSets, Sequences, SequencesExt

CONSTANTS
  Chunks,        \* the chunks of sound: sequences of units, which are sequences of samples
  vadThreshold,  \* mean square of a sample in a loud unit
  MaxConfirm,    \* bound: the confirm counts, 255 in the code
  MaxRun         \* bound: chunks of one kind in a row that are told apart

VadAssumption ==
  /\ Chunks \subseteq Seq(Seq(Int)) /\ vadThreshold \in Nat
  /\ {MaxConfirm, MaxRun} \subseteq Nat /\ MaxRun > MaxConfirm

VARIABLES
  startedConfirmCount, finishedConfirmCount,
  savedStatus, confirmCount,
  loud, quiet,   \* history: loud, quiet chunks in a row, the last one included
  finished       \* history: quiet chunks, as many as were asked for, ended the speech

vars == <<startedConfirmCount, finishedConfirmCount, savedStatus, confirmCount, loud, quiet, finished>>

Init ==
  /\ startedConfirmCount \in 0 .. MaxConfirm /\ finishedConfirmCount \in 0 .. MaxConfirm
  /\ savedStatus = "IDEL" /\ confirmCount = 0 /\ loud = 0 /\ quiet = 0
  /\ finished = FALSE

\* Is the unit louder than the threshold?
chunkUnitCompare(unit) ==
  FoldSeq(LAMBDA s, sum : sum + s * s, 0, unit) > Len(unit) * vadThreshold

\* One unit of ten, and at least one.
minOverTimes(x) == IF x \div 10 > 0 THEN x \div 10 ELSE 1

\* A chunk with less than a unit in it is quiet.
isChunkSpeaking(chunk) ==
  Len(SelectSeq(chunk, chunkUnitCompare)) >= minOverTimes(Len(chunk))

\* Mutant: a loud chunk in between does not start the count of quiet ones again.
SpeakingKeepsCount(speaking) ==
  /\ savedStatus = "SPEAKING"
  /\ LET n == IF speaking THEN confirmCount ELSE confirmCount + 1
     IN IF ~speaking /\ n >= finishedConfirmCount
        THEN savedStatus' = "FINISHED" /\ confirmCount' = 0
        ELSE savedStatus' = savedStatus /\ confirmCount' = n

Idel(speaking) ==
  /\ savedStatus = "IDEL"
  /\ LET n == IF speaking THEN confirmCount + 1 ELSE 0
     IN IF speaking /\ n >= startedConfirmCount
        THEN savedStatus' = "STARTED" /\ confirmCount' = 0
        ELSE savedStatus' = savedStatus /\ confirmCount' = n

\* STARTED is said once; a quiet chunk counts already.
Started(speaking) ==
  /\ savedStatus = "STARTED" /\ savedStatus' = "SPEAKING"
  /\ confirmCount' = IF speaking THEN confirmCount ELSE confirmCount + 1

Speaking(speaking) ==
  /\ savedStatus = "SPEAKING"
  /\ LET n == IF speaking THEN 0 ELSE confirmCount + 1
     IN IF ~speaking /\ n >= finishedConfirmCount
        THEN savedStatus' = "FINISHED" /\ confirmCount' = 0
        ELSE savedStatus' = savedStatus /\ confirmCount' = n

\* Nothing leaves FINISHED.
get_vad_status(speaking) ==
  \/ Idel(speaking) \/ Started(speaking) \/ Speaking(speaking)
  \/ savedStatus = "FINISHED" /\ UNCHANGED <<savedStatus, confirmCount>>

\* For the history: a tenth of the units, rounded down, is louder than the threshold
\* on average, and at least one is.
Heard(chunk) ==
  LET square(u) == FoldSeq(LAMBDA s, sum : sum + s * s - vadThreshold, 0, u)
      n == Cardinality({i \in DOMAIN chunk : square(chunk[i]) > 0})
  IN n > 0 /\ 10 * n > Len(chunk) - 10

Remember(heard) ==
  /\ loud'  = IF heard THEN IF loud < MaxRun THEN loud + 1 ELSE loud ELSE 0
  /\ quiet' = IF heard THEN 0 ELSE IF quiet < MaxRun THEN quiet + 1 ELSE quiet
  /\ finished' = (finished \/ (savedStatus = "SPEAKING" /\ quiet' > 0 /\ quiet' >= finishedConfirmCount))

Next ==
  /\ \E chunk \in Chunks : get_vad_status(isChunkSpeaking(chunk)) /\ Remember(Heard(chunk))
  /\ UNCHANGED <<startedConfirmCount, finishedConfirmCount>>

Spec == Init /\ [][Next]_vars
-----------------------------------------------------------------------------
\* Speech starts and finishes when it is confirmed, and no later, although one counter
\* serves both: STARTED needs the asked number of loud chunks in a row, FINISHED that
\* of quiet ones, and SPEAKING does not last longer - except when one quiet chunk is
\* asked for and it is the chunk behind STARTED.
Confirmed ==
  /\ savedStatus = "IDEL" => loud = 0 \/ loud < startedConfirmCount
  /\ savedStatus = "STARTED" => loud >= startedConfirmCount /\ loud > 0
  /\ savedStatus = "SPEAKING" =>
       quiet < finishedConfirmCount \/ quiet = 0 \/ (finishedConfirmCount <= 1 /\ quiet = 1)
  /\ savedStatus = "FINISHED" => finished
=============================================================================
