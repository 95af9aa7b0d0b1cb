--------------------------- MODULE CommandBufferPool ---------------------------
(***************************************************************************)
(* impl/command_buffer_pool.{h,cc} and the life of an impl::CommandBuffer  *)
(* (impl/command_buffer.{h,cc}): the main and the transfer pool of one     *)
(* Escher instance, the Vulkan queues that execute what is submitted, and  *)
(* the sequencer both pools report to, here as its specification           *)
(* CompletionOrder (CommandBufferSequencer implements it).                 *)
(*                                                                         *)
(* The host is one thread.  Cleanup() is modelled down to the iterations   *)
(* of its loop, and an iteration down to Retire() and what follows it,     *)
(* because the queues finish buffers while it runs.                        *)
(***************************************************************************)
EXTENDS Integers, Sequences

CONSTANTS
  Main, Transfer,   \* the two pools; each names the Vulkan queue it is for
  Buffer,           \* bound: the CommandBuffer objects that can be allocated
  MaxSequence       \* bound: how many times a buffer is handed out

ASSUME PoolAssumption == Main # Transfer
ASSUME MaxSequenceAssumption == MaxSequence \in Nat

Pool == {Main, Transfer}

VARIABLES
  pending_buffers,  \* pool -> the queue pending_buffers_
  free_buffers,     \* pool -> the queue free_buffers_
  is_active,        \* the buffers whose is_active_ is set
  is_submitted,     \* the buffers whose is_submitted_ is set
  sequence_number,  \* buffer -> its sequence_number_ (0 before the first use)
  callback,         \* the buffers whose callback_ is set
  fence,            \* the buffers whose Vulkan fence is signalled
  queue,            \* Vulkan queue -> what was submitted and still executes
  caller,           \* who runs Cleanup(): GetCommandBuffer or EscherImpl
  cleaning,         \* the pool that Cleanup() works on
  retiring,         \* Retire() has returned true for the first pending buffer
  issued, finished, announced,   \* the sequencer
  executed,         \* history: the numbers whose commands the GPU has executed
  failed,           \* history: the numbers whose submission failed
  asked,            \* history: the numbers submitted with a callback
  called            \* history: number -> how often its callback was invoked

poolVars == <<pending_buffers, free_buffers>>
bufferVars == <<is_active, is_submitted, sequence_number, callback, fence>>
hostVars == <<caller, cleaning, retiring>>
sequencerVars == <<issued, finished, announced>>
historyVars == <<executed, failed, asked, called>>
vars == <<poolVars, bufferVars, queue, hostVars, sequencerVars, historyVars>>

Sequencer == INSTANCE CompletionOrder

Init ==
  /\ pending_buffers = [p \in Pool |-> <<>>]
  /\ free_buffers = [p \in Pool |-> <<>>]
  /\ is_active = {}
  /\ is_submitted = {}
  /\ sequence_number = [b \in Buffer |-> 0]
  /\ callback = {}
  /\ fence = {}
  /\ queue = [p \in Pool |-> <<>>]
  /\ caller = "none"
  /\ cleaning = Main
  /\ retiring = FALSE
  /\ Sequencer!Init
  /\ executed = {}
  /\ failed = {}
  /\ asked = {}
  /\ called = [n \in 1..MaxSequence |-> 0]

HostIdle == caller = "none"

(* The objects that exist were handed out before. *)
Unallocated == {b \in Buffer : sequence_number[b] = 0}

Oldest(p) == Head(pending_buffers[p])

------------------------------------------------------------------------------
(* Cleanup() of pool p runs on behalf of who. *)
EnterCleanup(who, p) ==
  /\ HostIdle
  /\ caller' = who
  /\ cleaning' = p
  /\ UNCHANGED <<poolVars, bufferVars, queue, retiring, sequencerVars,
                 historyVars>>

GetCommandBuffer(p) ==
  /\ issued < MaxSequence
  /\ free_buffers[p] # <<>> \/ Unallocated # {}
  /\ EnterCleanup("GetCommandBuffer", p)

EscherCleanup == EnterCleanup("EscherImpl", Main)

(* A bug to be caught: the fence is not asked for. *)
RetirableWithoutFence(b) == b \notin is_active \/ b \in is_submitted

(* What Retire() asks: the submission failed, or the fence was reached. *)
Retirable(b) == b \notin is_active \/ (b \in is_submitted /\ b \in fence)

(* A bug to be caught: the fence is not reset. *)
RetireKeepsFence ==
  /\ ~HostIdle /\ ~retiring
  /\ pending_buffers[cleaning] # <<>>
  /\ Retirable(Oldest(cleaning))
  /\ is_active' = is_active \ {Oldest(cleaning)}
  /\ is_submitted' = is_submitted \ {Oldest(cleaning)}
  /\ callback' = callback \ {Oldest(cleaning)}
  /\ retiring' = TRUE
  /\ UNCHANGED <<poolVars, sequence_number, fence, queue, caller, cleaning,
                 sequencerVars, historyVars>>

(* A bug to be caught: the callback is cleared without being invoked. *)
RetireForgetsCallback ==
  /\ ~HostIdle /\ ~retiring
  /\ pending_buffers[cleaning] # <<>>
  /\ Retirable(Oldest(cleaning))
  /\ is_active' = is_active \ {Oldest(cleaning)}
  /\ is_submitted' = is_submitted \ {Oldest(cleaning)}
  /\ fence' = fence \ {Oldest(cleaning)}
  /\ callback' = callback \ {Oldest(cleaning)}
  /\ retiring' = TRUE
  /\ UNCHANGED <<poolVars, sequence_number, queue, caller, cleaning,
                 sequencerVars, historyVars>>

Retire ==
  /\ ~HostIdle /\ ~retiring
  /\ pending_buffers[cleaning] # <<>>
  /\ LET b == Oldest(cleaning)
     IN  /\ Retirable(b)
         /\ is_active' = is_active \ {b}
         /\ is_submitted' = is_submitted \ {b}
         /\ fence' = fence \ {b}
         /\ callback' = callback \ {b}
         /\ called' = [called EXCEPT ![sequence_number[b]] =
                         IF b \in callback THEN @ + 1 ELSE @]
  /\ retiring' = TRUE
  /\ UNCHANGED <<poolVars, sequence_number, queue, caller, cleaning,
                 sequencerVars, executed, failed, asked>>

(* The rest of the iteration. *)
ReportFinished ==
  /\ retiring
  /\ Sequencer!Finish(sequence_number[Oldest(cleaning)])
  /\ free_buffers' =
       [free_buffers EXCEPT ![cleaning] = Append(@, Oldest(cleaning))]
  /\ pending_buffers' = [pending_buffers EXCEPT ![cleaning] = Tail(@)]
  /\ retiring' = FALSE
  /\ UNCHANGED <<bufferVars, queue, caller, cleaning, historyVars>>

CleanupDone ==
  /\ ~HostIdle /\ ~retiring
  /\ pending_buffers[cleaning] # <<>> => ~Retirable(Oldest(cleaning))

(* EscherImpl::Cleanup() goes on to the transfer pool, then returns. *)
EscherCleanupNext ==
  /\ CleanupDone
  /\ caller = "EscherImpl"
  /\ IF cleaning = Main
     THEN cleaning' = Transfer /\ UNCHANGED caller
     ELSE caller' = "none" /\ UNCHANGED cleaning
  /\ UNCHANGED <<poolVars, bufferVars, queue, retiring, sequencerVars,
                 historyVars>>

(* The rest of GetCommandBuffer(): b, the first free or a new buffer,      *)
(* becomes the last pending one, and Begin() gives it the next number.     *)
ObtainAndBegin(b) ==
  /\ CleanupDone
  /\ caller = "GetCommandBuffer"
  /\ IF free_buffers[cleaning] = <<>>
     THEN b \in Unallocated /\ UNCHANGED free_buffers
     ELSE /\ b = Head(free_buffers[cleaning])
          /\ free_buffers' = [free_buffers EXCEPT ![cleaning] = Tail(@)]
  /\ pending_buffers' = [pending_buffers EXCEPT ![cleaning] = Append(@, b)]
  /\ Sequencer!Issue
  /\ sequence_number' = [sequence_number EXCEPT ![b] = issued']
  /\ is_active' = is_active \cup {b}
  /\ caller' = "none"
  /\ UNCHANGED <<is_submitted, callback, fence, queue, cleaning, retiring,
                 historyVars>>

------------------------------------------------------------------------------
(* Submit() to the Vulkan queue q, which the caller names.                 *)
CanSubmit(b) == HostIdle /\ b \in is_active \ is_submitted

(* The callback, if there is one. *)
SetCallback(b) ==
  \/ UNCHANGED <<callback, asked>>
  \/ /\ callback' = callback \cup {b}
     /\ asked' = asked \cup {sequence_number[b]}

SubmitSucceeds(b, q) ==
  /\ CanSubmit(b)
  /\ is_submitted' = is_submitted \cup {b}
  /\ SetCallback(b)
  /\ queue' = [queue EXCEPT ![q] = Append(@, b)]
  /\ UNCHANGED <<poolVars, is_active, sequence_number, fence, hostVars,
                 sequencerVars, executed, failed, called>>

(* A bug to be caught: after the error the buffer passes for submitted. *)
SubmitFailsUnnoticed(b) ==
  /\ CanSubmit(b)
  /\ is_submitted' = is_submitted \cup {b}
  /\ SetCallback(b)
  /\ failed' = failed \cup {sequence_number[b]}
  /\ UNCHANGED <<poolVars, is_active, sequence_number, fence, queue, hostVars,
                 sequencerVars, executed, called>>

(* vkQueueSubmit reports an error; clearing the flags lets Retire() go on. *)
SubmitFails(b) ==
  /\ CanSubmit(b)
  /\ is_active' = is_active \ {b}
  /\ SetCallback(b)
  /\ failed' = failed \cup {sequence_number[b]}
  /\ UNCHANGED <<poolVars, is_submitted, sequence_number, fence, queue,
                 hostVars, sequencerVars, executed, called>>

(* Vulkan: the fences of one queue are signalled in submission order. *)
GpuExecutes(q) ==
  /\ queue[q] # <<>>
  /\ LET b == Head(queue[q])
     IN  /\ fence' = fence \cup {b}
         /\ executed' = executed \cup {sequence_number[b]}
  /\ queue' = [queue EXCEPT ![q] = Tail(@)]
  /\ UNCHANGED <<poolVars, is_active, is_submitted, sequence_number, callback,
                 hostVars, sequencerVars, failed, asked, called>>

CleanupStep ==
  \/ Retire
  \/ ReportFinished
  \/ EscherCleanupNext
  \/ \E b \in Buffer : ObtainAndBegin(b)

Submit(b) == SubmitFails(b) \/ \E q \in Pool : SubmitSucceeds(b, q)

Next ==
  \/ \E p \in Pool : GetCommandBuffer(p) \/ GpuExecutes(p)
  \/ EscherCleanup
  \/ CleanupStep
  \/ \E b \in Buffer : Submit(b)

Spec == Init /\ [][Next]_vars

(* The GPU makes progress, a Cleanup() runs to its end, someone calls      *)
(* EscherImpl::Cleanup() again and again (EndFrame() does), and everyone   *)
(* is a "good citizen" who submits the buffers he gets.                    *)
Fairness ==
  /\ \A q \in Pool : WF_vars(GpuExecutes(q))
  /\ WF_vars(CleanupStep)
  /\ SF_vars(EscherCleanup)
  /\ \A b \in Buffer : SF_vars(Submit(b))

FairSpec == Spec /\ Fairness
------------------------------------------------------------------------------
TypeOK ==
  /\ pending_buffers \in [Pool -> Seq(Buffer)]
  /\ free_buffers \in [Pool -> Seq(Buffer)]
  /\ is_active \subseteq Buffer
  /\ is_submitted \subseteq Buffer
  /\ sequence_number \in [Buffer -> Nat]
  /\ callback \subseteq Buffer
  /\ fence \subseteq Buffer
  /\ queue \in [Pool -> Seq(Buffer)]
  /\ caller \in {"none", "GetCommandBuffer", "EscherImpl"}
  /\ cleaning \in Pool
  /\ retiring \in BOOLEAN
  /\ issued \in Nat
  /\ finished \subseteq Nat
  /\ announced \in Nat
  /\ executed \subseteq Nat
  /\ failed \subseteq Nat
  /\ asked \subseteq Nat
  /\ called \in [1..MaxSequence -> Nat]

(* b is in one of the queues of each pool. *)
In(queues, b) == \E p \in Pool : \E i \in 1..Len(queues[p]) : queues[p][i] = b

(* b waits in, or is executed by, a Vulkan queue. *)
OnGpu(b) == In(queue, b)

(* What CommandBufferSequencerListener promises, from end to end: once n   *)
(* is announced, no buffer that any pool handed out with a number up to n  *)
(* is being recorded or can still be executed by the GPU, whatever the     *)
(* pools, queues, failed submissions and reused buffers in between.        *)
AnnouncedIsDone ==
  \A b \in Buffer :
    b \in is_active \/ OnGpu(b) => sequence_number[b] > announced

(* Begin() records into a buffer (command_buffer.cc:33), and Retire()      *)
(* resets it, only when the GPU is through with its previous use; and a    *)
(* fence that is signalled belongs to the current use.                     *)
OnlyOwnUseOnGpu ==
  \A b \in Buffer :
    /\ OnGpu(b) => b \in is_active /\ b \in is_submitted /\ b \notin fence
    /\ b \in fence => /\ b \in is_active /\ b \in is_submitted
                      /\ sequence_number[b] \in executed

(* Every number handed out is in exactly one place: reported, or carried   *)
(* by exactly one pending buffer.  A buffer reported twice, or lost on the *)
(* way to the free list, would make the sequencer stall or lie.            *)
EachNumberInOnePlace ==
  \A n \in 1..issued :
    LET carriers == {c \in Pool \X (1..MaxSequence) :
                       /\ c[2] <= Len(pending_buffers[c[1]])
                       /\ sequence_number[pending_buffers[c[1]][c[2]]] = n}
    IN  IF n \in finished THEN carriers = {}
        ELSE \E c \in carriers : carriers = {c}

(* A callback given to Submit() has run, once, when the number is          *)
(* reported, and not before the commands have executed                     *)
(* (command_buffer.h:36) or their submission has failed; and it belongs to *)
(* that use of the buffer and to no other.                                 *)
CallbackOnceWhenDone ==
  \A n \in 1..MaxSequence :
    /\ called[n] <= 1
    /\ called[n] = 1 => n \in asked /\ n \in executed \cup failed
    /\ n \in finished /\ n \in asked => called[n] = 1

(* The pools, whatever buffers they reuse and in whatever order their      *)
(* queues finish, are an implementation of CommandBuffers: what the        *)
(* resource managers rely on.  In particular a number is reported only     *)
(* when its commands cannot be executed any more, and only once.           *)
Numbers == INSTANCE CommandBuffers WITH
             recording <- {sequence_number[b] : b \in is_active \ is_submitted},
             executing <- {sequence_number[b] : b \in {c \in Buffer : OnGpu(c)}}

ImplementsCommandBuffers == Numbers!Spec

(* As long as everyone is a good citizen, every number is announced: the   *)
(* wait for the first buffer in the queue (command_buffer_pool.cc:119)     *)
(* never becomes a stall, although the pools and queues are not in order.  *)
EveryNumberAnnounced ==
  \A n \in 1..MaxSequence : issued >= n ~> announced >= n

(* Every use of a buffer ends once: it is in one place until it is         *)
(* reported, and by then the callback it was submitted with has run.       *)
UsesEndOnce == EachNumberInOnePlace /\ CallbackOnceWhenDone
==============================================================================
