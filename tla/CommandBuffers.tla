---------------------------- MODULE CommandBuffers ----------------------------
(***************************************************************************)
(* What the command buffers of one Escher instance look like to the code   *)
(* that manages resources: numbers.  A number is handed out, its commands  *)
(* are recorded, they are submitted (or the submission fails), the GPU     *)
(* executes them, and at some later time, in any order, the number is      *)
(* reported to the sequencer.  CommandBufferPool implements this.          *)
(***************************************************************************)
EXTENDS Naturals

CONSTANT MaxSequence   \* bound: how many numbers are handed out

ASSUME MaxSequenceAssumption == MaxSequence \in Nat

VARIABLES
  issued, finished, announced,   \* the sequencer
  recording,   \* the numbers whose commands are being recorded
  executing    \* the numbers whose commands the GPU may be executing

commandVars == <<issued, finished, announced, recording, executing>>

Sequencer == INSTANCE CompletionOrder

Init ==
  /\ Sequencer!Init
  /\ recording = {}
  /\ executing = {}

HandOut ==
  /\ Sequencer!Issue
  /\ recording' = recording \cup {issued'}
  /\ UNCHANGED executing

(* The commands of n go to the GPU, unless their submission fails. *)
SubmitNumber(n) ==
  /\ n \in recording
  /\ recording' = recording \ {n}
  /\ executing' \in {executing, executing \cup {n}}
  /\ UNCHANGED <<issued, finished, announced>>

Execute(n) ==
  /\ n \in executing
  /\ executing' = executing \ {n}
  /\ UNCHANGED <<issued, finished, announced, recording>>

(* n is reported, and only because nothing of it is left to be executed. *)
FinishNumber(n) ==
  /\ n \notin recording \cup executing
  /\ Sequencer!Finish(n)
  /\ UNCHANGED <<recording, executing>>

Next ==
  \/ HandOut
  \/ \E n \in 1..issued : SubmitNumber(n) \/ Execute(n) \/ FinishNumber(n)

Spec == Init /\ [][Next]_commandVars
==============================================================================
