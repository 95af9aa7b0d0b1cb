------------------------------ MODULE GpuUploader ------------------------------
(***************************************************************************)
(* impl/gpu_uploader.{h,cc}: Writers copy data into host-visible staging   *)
(* buffers, which the commands of a command buffer then read.  Successive  *)
(* Writers share a staging buffer as long as they fit in; the uploader, a  *)
(* ResourceRecycler, puts it on its free list when nobody refers to it and *)
(* no command buffer that reads it is pending.                             *)
(*                                                                         *)
(* A Writer is named by the number of its command buffer.  The uploader    *)
(* registers in Escher's constructor, so that the last number it has heard *)
(* of is the one that was announced.                                       *)
(***************************************************************************)
EXTENDS CommandBuffers, Sequences, SequencesExt

CONSTANTS
  Buffer,          \* bound: the staging buffers that exist at a time
  NoBuffer,        \* the null BufferPtr
  Size,            \* the sizes that are asked for
  kAlignment,      \* 16 in the code
  kMinBufferSize   \* 1 MB in the code

ASSUME UploaderAssumption ==
  /\ NoBuffer \notin Buffer
  /\ Size \subseteq Nat
  /\ kAlignment \in Nat \ {0}
  /\ kMinBufferSize \in Nat \ {0}

kOverAllocationFactor == 2

VARIABLES
  current_buffer, current_offset,
  free_buffers,      \* the vector free_buffers_
  unused_resources,  \* buffers nobody refers to, which commands may still read
  buffer_size,       \* buffer -> its size, 0 when it does not exist
  buffer_sequence_number,   \* buffer -> Resource::sequence_number_
  writers            \* number -> its Writer

bufferVars == <<current_buffer, current_offset, free_buffers, unused_resources,
                buffer_size, buffer_sequence_number>>
uploaderVars == <<bufferVars, writers>>
allVars == <<commandVars, uploaderVars>>

NoWriter == [buffer |-> NoBuffer, offset |-> 0, size |-> 0, has_writes |-> FALSE,
             open |-> FALSE]

UploaderInit ==
  /\ Init
  /\ current_buffer = NoBuffer
  /\ current_offset = 0
  /\ free_buffers = <<>>
  /\ unused_resources = {}
  /\ buffer_size = [b \in Buffer |-> 0]
  /\ buffer_sequence_number = [b \in Buffer |-> 0]
  /\ writers = [n \in 1..MaxSequence |-> NoWriter]

OpenWriters == {n \in 1..issued : writers[n].open}

(* A bug to be caught: the references of the open Writers do not count. *)
NotCurrent(b, current, holders) == b \notin {NoBuffer, current}

(* b loses a reference; those that remain are current's and holders'.      *)
LastReference(b, current, holders) ==
  /\ b \notin {NoBuffer, current}
  /\ \A n \in holders : writers[n].buffer # b

------------------------------------------------------------------------------
AlignUp(offset) ==
  offset + ((kAlignment - (offset % kAlignment)) % kAlignment)

FitsInCurrent(size) ==
  /\ current_buffer # NoBuffer
  /\ buffer_size[current_buffer] >= current_offset + size

(* The search of the free list from its back ends at the last buffer that  *)
(* is large enough; those behind it are destroyed.                         *)
LargeEnough(list, size) ==
  {k \in 1..Len(list) : buffer_size[list[k]] >= size}

(* A bug to be caught: the buffer that is taken stays on the list. *)
TakeWithoutPop(list, size) ==
  LET k == Max(LargeEnough(list, size))
  IN  /\ current_buffer' = list[k]
      /\ free_buffers' = SubSeq(list, 1, k)
      /\ buffer_size' = [b \in Buffer |->
                           IF b \in ToSet(SubSeq(list, k + 1, Len(list)))
                           THEN 0 ELSE buffer_size[b]]
      /\ UNCHANGED buffer_sequence_number

TakeFromList(list, size) ==
  LET k == Max(LargeEnough(list, size))
  IN  /\ current_buffer' = list[k]
      /\ free_buffers' = SubSeq(list, 1, k - 1)
      /\ buffer_size' = [b \in Buffer |->
                           IF b \in ToSet(SubSeq(list, k + 1, Len(list)))
                           THEN 0 ELSE buffer_size[b]]
      /\ UNCHANGED buffer_sequence_number

CreateBuffer(list, size) ==
  /\ \E b \in Buffer :
       /\ buffer_size[b] = 0 \/ b \in ToSet(list)
       /\ current_buffer' = b
       /\ buffer_size' =
            [c \in Buffer |->
               CASE c = b -> Max({kMinBufferSize, size * kOverAllocationFactor})
                 [] c # b /\ c \in ToSet(list) -> 0
                 [] OTHER -> buffer_size[c]]
       /\ buffer_sequence_number' = [buffer_sequence_number EXCEPT ![b] = 0]
  /\ free_buffers' = <<>>

(* Releasing the current buffer may put it on the free list, or defer that. *)
ReplaceCurrent(size) ==
  LET last    == LastReference(current_buffer, NoBuffer, OpenWriters)
      atOnce  == last /\ buffer_sequence_number[current_buffer] <= announced
      list    == IF atOnce THEN Append(free_buffers, current_buffer)
                           ELSE free_buffers
  IN  /\ unused_resources' = IF last /\ ~atOnce
                             THEN unused_resources \cup {current_buffer}
                             ELSE unused_resources
      /\ IF LargeEnough(list, size) # {}
         THEN TakeFromList(list, size)
         ELSE CreateBuffer(list, size)

PrepareForWriterOfSize(size) ==
  IF FitsInCurrent(size)
  THEN UNCHANGED <<current_buffer, free_buffers, unused_resources, buffer_size,
                   buffer_sequence_number>>
  ELSE ReplaceCurrent(size)

GetWriter(size) ==
  LET offset == IF FitsInCurrent(size) THEN current_offset ELSE 0
  IN  /\ HandOut
      /\ PrepareForWriterOfSize(size)
      /\ writers' = [writers EXCEPT ![issued'] =
                       [buffer |-> current_buffer', offset |-> offset,
                        size |-> size, has_writes |-> FALSE, open |-> TRUE]]
      /\ current_offset' = AlignUp(offset + size)

(* WriteBuffer() or WriteImage(). *)
Write(n) ==
  /\ n \in OpenWriters
  /\ writers' = [writers EXCEPT ![n].has_writes = TRUE]
  /\ UNCHANGED <<commandVars, bufferVars>>

(* The FTL_DCHECK of KeepAlive(buffer_), when n submits its commands. *)
KeepAliveInOrder(n) ==
  writers[n].has_writes => buffer_sequence_number[writers[n].buffer] <= n

(* A Writer that has written nothing lets go of its command buffer without *)
(* submitting it.  Then it drops its reference to the staging buffer.      *)
Submit(n) ==
  LET b      == writers[n].buffer
      number == IF writers[n].has_writes THEN n ELSE buffer_sequence_number[b]
      last   == LastReference(b, current_buffer, OpenWriters \ {n})
  IN  /\ n \in OpenWriters
      /\ IF writers[n].has_writes THEN SubmitNumber(n) ELSE UNCHANGED commandVars
      /\ buffer_sequence_number' = [buffer_sequence_number EXCEPT ![b] = number]
      /\ writers' = [writers EXCEPT ![n].open = FALSE]
      /\ free_buffers' = IF last /\ number <= announced
                         THEN Append(free_buffers, b) ELSE free_buffers
      /\ unused_resources' = IF last /\ number > announced
                             THEN unused_resources \cup {b} ELSE unused_resources
      /\ UNCHANGED <<current_buffer, current_offset, buffer_size>>

(* n is reported; OnCommandBufferFinished() recycles, in the order of a    *)
(* hash map, the buffers whose commands are through.                       *)
Finish(n) ==
  /\ FinishNumber(n)
  /\ LET ready == {b \in unused_resources :
                     buffer_sequence_number[b] <= announced'}
     IN  /\ unused_resources' = unused_resources \ ready
         /\ \E order \in SetToSeqs(ready) : free_buffers' = free_buffers \o order
  /\ UNCHANGED <<current_buffer, current_offset, buffer_size,
                 buffer_sequence_number, writers>>

GpuExecutes == \E n \in 1..issued : Execute(n) /\ UNCHANGED uploaderVars

(* Clients submit their Writers in an order that KeepAlive() accepts. *)
UploaderNext ==
  \/ \E size \in Size : GetWriter(size)
  \/ \E n \in 1..issued :
       \/ Write(n)
       \/ KeepAliveInOrder(n) /\ Submit(n)
       \/ Finish(n)
  \/ GpuExecutes

UploaderSpec == UploaderInit /\ [][UploaderNext]_allVars
------------------------------------------------------------------------------
(* The host writes through the pointer of an open Writer at any time, the  *)
(* GPU reads the region of a submitted one until it has executed it.       *)
InUse == OpenWriters \cup {n \in executing : writers[n].has_writes}

Overlap(v, w) ==
  /\ v.buffer = w.buffer
  /\ v.offset < w.offset + w.size
  /\ w.offset < v.offset + v.size

(* No two regions that are in use have a byte in common: neither does the  *)
(* host overwrite what a pending copy reads, nor do two Writers mix their  *)
(* data, through all reuse of offsets and of staging buffers.              *)
RegionsInUseAreDisjoint ==
  \A m, n \in InUse : m # n => ~Overlap(writers[m], writers[n])

(* A region that is in use lies in a buffer that exists and is not smaller *)
(* than it was, at an offset that is aligned for every client.             *)
RegionsInUseExist ==
  \A n \in InUse :
    /\ writers[n].offset + writers[n].size <= buffer_size[writers[n].buffer]
    /\ writers[n].offset % kAlignment = 0

(* Each staging buffer is referred to, deferred or free, only one of them  *)
(* and once: none is lost, none is handed out twice from the free list.    *)
StagingBuffersAccountedFor ==
  \A b \in Buffer :
    LET referred == b = current_buffer
                      \/ \E n \in OpenWriters : writers[n].buffer = b
        deferred == b \in unused_resources
        listed   == {k \in 1..Len(free_buffers) : free_buffers[k] = b}
    IN  IF buffer_size[b] = 0
        THEN ~referred /\ ~deferred /\ listed = {}
        ELSE \/ referred /\ ~deferred /\ listed = {}
             \/ ~referred /\ deferred /\ listed = {}
             \/ ~referred /\ ~deferred /\ \E k \in listed : listed = {k}

(* gpu_uploader.cc:58: "We need to submit the buffer anyway, otherwise     *)
(* we'll stall the CommandPool."  The code does not: a Writer without      *)
(* writes leaves its command buffer in the pool as it is.                  *)
SubmittedWriterIsNotRecording ==
  \A n \in 1..issued : n \in recording => writers[n].open

(* Every Writer has a region to itself, in memory that is there, from      *)
(* GetWriter() until the GPU has read it.                                  *)
RegionsInUseAreSound == RegionsInUseExist /\ RegionsInUseAreDisjoint
==============================================================================
