------------------------- MODULE CommandBuffersProofs -------------------------
(***************************************************************************)
(* TLAPS proofs about CommandBuffers, on which those about the managers of *)
(* resources rest.                                                         *)
(***************************************************************************)
EXTENDS CommandBuffers, TLAPS

(* A number is recorded or executed before it is finished, and announced   *)
(* after that.                                                             *)
CommandInv ==
  /\ issued \in 0..MaxSequence
  /\ announced \in 0..issued
  /\ recording \subseteq 1..issued /\ executing \subseteq 1..issued
  /\ finished \subseteq 1..issued
  /\ (recording \cup executing) \cap finished = {}
  /\ recording \cap executing = {}
  /\ 1..announced \subseteq finished

LEMMA InitCommandInv == Init => CommandInv
  BY MaxSequenceAssumption DEF Init, Sequencer!Init, CommandInv

LEMMA HandOutCommandInv ==
  ASSUME CommandInv, HandOut
  PROVE  CommandInv' /\ announced' = announced
  BY MaxSequenceAssumption DEF CommandInv, HandOut, Sequencer!Issue

LEMMA SubmitCommandInv ==
  ASSUME CommandInv, NEW n \in 1..issued, SubmitNumber(n) \/ Execute(n)
  PROVE  CommandInv' /\ announced' = announced
<1>1. CASE SubmitNumber(n)
  BY <1>1 DEF CommandInv, SubmitNumber
<1>2. CASE Execute(n)
  BY <1>2 DEF CommandInv, Execute
<1> QED BY <1>1, <1>2

LEMMA FinishCommandInv ==
  ASSUME CommandInv, NEW n \in 1..issued, FinishNumber(n)
  PROVE  CommandInv' /\ announced <= announced'
<1>1. /\ n \notin recording \cup executing
      /\ finished' = finished \cup {n} /\ announced' \in announced..issued
      /\ 1..announced' \subseteq finished'
      /\ issued' = issued /\ recording' = recording /\ executing' = executing
  BY DEF FinishNumber, Sequencer!Finish, Sequencer!AllDoneUpTo
<1> QED BY <1>1 DEF CommandInv


(* What is not finished is not announced.                                  *)
LEMMA PendingIsLater ==
  ASSUME CommandInv, NEW n \in recording \cup executing
  PROVE  n \in 1..MaxSequence /\ n \in 1..issued /\ announced < n
  BY MaxSequenceAssumption DEF CommandInv

(* No number is announced before its commands are recorded, submitted and  *)
(* executed (command_buffer_sequencer.cc:35).                              *)
THEOREM AnnouncedIsOver ==
  Spec => [](\A n \in 1..announced : n \notin recording \cup executing)
<1>1. CommandInv /\ [Next]_commandVars => CommandInv'
  <2> SUFFICES ASSUME CommandInv, [Next]_commandVars PROVE CommandInv'
    OBVIOUS
  <2>1. CASE HandOut
    BY <2>1, HandOutCommandInv
  <2>2. ASSUME NEW n \in 1..issued, SubmitNumber(n) \/ Execute(n) \/ FinishNumber(n)
        PROVE  CommandInv'
    BY <2>2, SubmitCommandInv, FinishCommandInv
  <2>3. CASE UNCHANGED commandVars
    BY <2>3 DEF CommandInv, commandVars
  <2> QED BY <2>1, <2>2, <2>3 DEF Next
<1>2. CommandInv => \A n \in 1..announced : n \notin recording \cup executing
  BY DEF CommandInv
<1> QED BY <1>1, <1>2, InitCommandInv, PTL DEF Spec
==============================================================================
