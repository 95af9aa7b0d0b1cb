------------------------ MODULE CommandBufferSequencer ------------------------
(***************************************************************************)
(* impl/command_buffer_sequencer.{h,cc}: the one object that numbers every *)
(* CommandBuffer of an Escher instance and turns the out-of-order          *)
(* completion of those buffers (several pools, several Vulkan queues) into *)
(* an in-order announcement to the listeners (every ResourceRecycler).     *)
(*                                                                         *)
(* CommandBufferFinished() is modelled down to the iterations of its two   *)
(* loops: `call' says where the one invocation on the stack stands.        *)
(***************************************************************************)
EXTENDS Integers, Sequences, SequencesExt

CONSTANTS
  Listener,       \* the CommandBufferSequencerListeners that may register
  MaxNumber       \* bound: how many command buffers are numbered

ASSUME MaxNumberAssumption == MaxNumber \in Nat

VARIABLES
  latest_sequence_number,         \* latest_sequence_number_
  last_finished_sequence_number,  \* last_finished_sequence_number_
  out_of_sequence_numbers,        \* the vector out_of_sequence_numbers_
  listeners,                      \* the vector listeners_
  call,      \* where the CommandBufferFinished() on the stack stands
  cursor,    \* its loop counter
  removed,   \* its local `removed'
  reported,  \* history: the numbers CommandBufferFinished() was called with
  heard      \* what each listener was last told (0 when it registers)

numberVars == <<latest_sequence_number, last_finished_sequence_number,
                out_of_sequence_numbers, listeners, call, cursor, removed,
                reported, heard>>

locals == <<call, cursor, removed>>

Idle == call = "none"

(* The call goes on to the loop named by where, with fresh counters. *)
Enter(where) ==
  /\ call' = where
  /\ cursor' = 0
  /\ removed' = 0

Increasing(s) == \A a, b \in 1..Len(s) : a < b => s[a] < s[b]

SequencerInit ==
  /\ latest_sequence_number = 0
  /\ last_finished_sequence_number = 0
  /\ out_of_sequence_numbers = <<>>
  /\ listeners = <<>>
  /\ call = "none"
  /\ cursor = 0
  /\ removed = 0
  /\ reported = {}
  /\ heard = [l \in Listener |-> 0]

GenerateNextCommandBufferSequenceNumber ==
  /\ Idle
  /\ latest_sequence_number < MaxNumber
  /\ latest_sequence_number' = latest_sequence_number + 1
  /\ UNCHANGED <<last_finished_sequence_number, out_of_sequence_numbers,
                 listeners, locals, reported, heard>>

------------------------------------------------------------------------------
(* CommandBufferFinished(n): a pool calls it once for each buffer.         *)

Reportable(n) ==
  /\ Idle
  /\ n \in 1..latest_sequence_number
  /\ n \notin reported

(* A bug to be caught: the vector is not sorted. *)
PushBackOnly(n) ==
  out_of_sequence_numbers' = Append(out_of_sequence_numbers, n)

(* push_back(n), then std::sort: in a vector that was sorted before, n     *)
(* ends up at the one position the order allows.                           *)
SortIn(n) ==
  \E p \in 1..Len(out_of_sequence_numbers) + 1 :
    /\ out_of_sequence_numbers' = InsertAt(out_of_sequence_numbers, p, n)
    /\ Increasing(out_of_sequence_numbers')

(* There is a gap below n: remember n, tell nobody. *)
FinishedAboveGap(n) ==
  /\ Reportable(n)
  /\ n # last_finished_sequence_number + 1
  /\ SortIn(n)
  /\ reported' = reported \cup {n}
  /\ UNCHANGED <<latest_sequence_number, last_finished_sequence_number,
                 listeners, locals, heard>>

(* A bug to be caught: `>' for `==', a gap is no obstacle. *)
FinishedAfterLast(n) ==
  /\ Reportable(n)
  /\ n > last_finished_sequence_number
  /\ last_finished_sequence_number' = n
  /\ Enter("fill")
  /\ reported' = reported \cup {n}
  /\ UNCHANGED <<latest_sequence_number, out_of_sequence_numbers, listeners,
                 heard>>

FinishedInSequence(n) ==
  /\ Reportable(n)
  /\ n = last_finished_sequence_number + 1
  /\ last_finished_sequence_number' = n
  /\ Enter("fill")
  /\ reported' = reported \cup {n}
  /\ UNCHANGED <<latest_sequence_number, out_of_sequence_numbers, listeners,
                 heard>>

(* One iteration of the loop that looks for numbers that are no longer out *)
(* of sequence: the element is dropped, or slides down over the dropped.   *)
FillGap ==
  /\ call = "fill"
  /\ cursor < Len(out_of_sequence_numbers)
  /\ LET n == out_of_sequence_numbers[cursor + 1]
     IN  IF n = last_finished_sequence_number + 1
         THEN /\ last_finished_sequence_number' = n
              /\ removed' = removed + 1
              /\ UNCHANGED out_of_sequence_numbers
         ELSE /\ out_of_sequence_numbers' =
                   [out_of_sequence_numbers EXCEPT
                      ![cursor + 1 - removed] = n]
              /\ UNCHANGED <<last_finished_sequence_number, removed>>
  /\ cursor' = cursor + 1
  /\ UNCHANGED <<latest_sequence_number, listeners, call, reported, heard>>

(* out_of_sequence_numbers_.resize(size - removed) *)
ShrinkAfterFill ==
  /\ call = "fill"
  /\ cursor = Len(out_of_sequence_numbers)
  /\ out_of_sequence_numbers' =
       SubSeq(out_of_sequence_numbers, 1,
              Len(out_of_sequence_numbers) - removed)
  /\ Enter("notify")
  /\ UNCHANGED <<latest_sequence_number, last_finished_sequence_number,
                 listeners, reported, heard>>

NotifyListener ==
  /\ call = "notify"
  /\ cursor < Len(listeners)
  /\ heard' = [heard EXCEPT
                 ![listeners[cursor + 1]] = last_finished_sequence_number]
  /\ cursor' = cursor + 1
  /\ UNCHANGED <<latest_sequence_number, last_finished_sequence_number,
                 out_of_sequence_numbers, listeners, call, removed, reported>>

Return ==
  /\ call = "notify"
  /\ cursor = Len(listeners)
  /\ Enter("none")
  /\ UNCHANGED <<latest_sequence_number, last_finished_sequence_number,
                 out_of_sequence_numbers, listeners, reported, heard>>

------------------------------------------------------------------------------
(* A recycler registers in its constructor, so it has heard nothing yet. *)
AddListener(l) ==
  /\ Idle
  /\ l \notin ToSet(listeners)
  /\ listeners' = Append(listeners, l)
  /\ heard' = [heard EXCEPT ![l] = 0]
  /\ UNCHANGED <<latest_sequence_number, last_finished_sequence_number,
                 out_of_sequence_numbers, locals, reported>>

RemoveListener(l) ==
  /\ Idle
  /\ \E i \in 1..Len(listeners) :
       /\ listeners[i] = l
       /\ listeners' = RemoveAt(listeners, i)
  /\ UNCHANGED <<latest_sequence_number, last_finished_sequence_number,
                 out_of_sequence_numbers, locals, reported, heard>>

Finished == \E n \in 1..latest_sequence_number :
              FinishedAboveGap(n) \/ FinishedInSequence(n)

CallStep == FillGap \/ ShrinkAfterFill \/ NotifyListener \/ Return

SequencerNext ==
  \/ GenerateNextCommandBufferSequenceNumber
  \/ Finished
  \/ CallStep
  \/ \E l \in Listener : AddListener(l) \/ RemoveListener(l)

SequencerSpec == SequencerInit /\ [][SequencerNext]_numberVars

(* A call runs to its end, and every command buffer is reported one day.   *)
SequencerFairness ==
  /\ WF_numberVars(CallStep)
  /\ \A n \in 1..MaxNumber :
       SF_numberVars(FinishedAboveGap(n) \/ FinishedInSequence(n))

FairSequencerSpec == SequencerSpec /\ SequencerFairness
------------------------------------------------------------------------------
SequencerTypeOK ==
  /\ latest_sequence_number \in Nat
  /\ last_finished_sequence_number \in Nat
  /\ out_of_sequence_numbers \in Seq(Nat)
  /\ listeners \in Seq(Listener)
  /\ call \in {"none", "fill", "notify"}
  /\ cursor \in Nat
  /\ removed \in Nat
  /\ reported \subseteq Nat \ {0}
  /\ heard \in [Listener -> Nat]

(* The interface comment's promise (command_buffer_sequencer.h:20): no     *)
(* listener, registered early or late, in the middle of a notification or  *)
(* not, was ever told a number below which a command buffer is unfinished. *)
HeardOnlyFinished ==
  \A l \in Listener : 1..heard[l] \subseteq reported

(* Between calls nothing is lost and nothing is held back: the reported    *)
(* numbers are exactly those up to last_finished_sequence_number and those *)
(* in the vector, the next number is really missing, and the vector is     *)
(* strictly increasing (what the gap-filling loop relies on).              *)
NothingLostOrHeldBack ==
  Idle =>
    /\ reported = 1..last_finished_sequence_number
                    \cup ToSet(out_of_sequence_numbers)
    /\ last_finished_sequence_number + 1 \notin reported
    /\ Increasing(out_of_sequence_numbers)

(* FTL_DCHECK(sequence_number > last_finished_sequence_number_) in every   *)
(* recycler (resource_recycler.cc:36): a notification always brings news.  *)
NotificationsAdvance ==
  [][\A l \in Listener :
       (NotifyListener /\ cursor < Len(listeners) /\ l = listeners[cursor + 1])
         => heard[l] < heard'[l]]_numberVars

(* When a call has returned, all registered listeners that were told       *)
(* anything agree with the sequencer: none is skipped by the loop.         *)
ListenersAgree ==
  Idle => \A i \in 1..Len(listeners) :
            heard[listeners[i]] \in {0, last_finished_sequence_number}

(* If every buffer is reported sooner or later, whatever the order, each   *)
(* number handed out is announced: an early finisher is never forgotten.   *)
EveryNumberIsHeard ==
  \A n \in 1..MaxNumber :
    latest_sequence_number >= n ~> last_finished_sequence_number >= n

(* The sequencer implements CompletionOrder.  The abstract step of a call  *)
(* happens when its gap-filling loop is done; until then the number that   *)
(* started the call, last - removed, is not yet accounted for.             *)
startedCall == last_finished_sequence_number - removed

abstractFinished ==
  IF call = "fill" THEN reported \ {startedCall} ELSE reported

abstractAnnounced ==
  IF call = "fill" THEN startedCall - 1 ELSE last_finished_sequence_number

Completion == INSTANCE CompletionOrder WITH
                MaxSequence <- MaxNumber,
                issued      <- latest_sequence_number,
                finished    <- abstractFinished,
                announced   <- abstractAnnounced

ImplementsCompletionOrder == Completion!Spec
==============================================================================
