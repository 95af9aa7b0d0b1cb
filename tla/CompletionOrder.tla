--------------------------- MODULE CompletionOrder ---------------------------
(***************************************************************************)
(* What the CommandBufferSequencer promises to its listeners, without the  *)
(* vector it keeps the promise with: command buffers are numbered 1, 2, 3  *)
(* ... as they are handed out, they finish in any order (the pools and     *)
(* their Vulkan queues know nothing of each other), and the number that is *)
(* announced is the highest one such that every buffer up to it is done.   *)
(***************************************************************************)
EXTENDS Naturals

CONSTANT MaxSequence   \* bound: how many command buffers are numbered

VARIABLES
  issued,      \* the last number handed out
  finished,    \* the numbers whose command buffers were reported finished
  announced    \* the last number the listeners were told

orderVars == <<issued, finished, announced>>

(* Every number up to n belongs to a finished command buffer. *)
AllDoneUpTo(n, done) == 1..n \subseteq done

Init ==
  /\ issued = 0
  /\ finished = {}
  /\ announced = 0

Issue ==
  /\ issued < MaxSequence
  /\ issued' = issued + 1
  /\ UNCHANGED <<finished, announced>>

(* The buffer with number n is done; the announcement moves to the end of  *)
(* the unbroken run of finished numbers that starts at 1.                  *)
Finish(n) ==
  /\ n \in 1..issued
  /\ n \notin finished
  /\ finished' = finished \cup {n}
  /\ announced' \in announced..issued
  /\ AllDoneUpTo(announced', finished')
  /\ announced' + 1 \notin finished'
  /\ UNCHANGED issued

Next == Issue \/ \E n \in 1..issued : Finish(n)

Spec == Init /\ [][Next]_orderVars
==============================================================================
