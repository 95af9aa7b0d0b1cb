---------------------------- MODULE UploadsProofs ----------------------------
(***************************************************************************)
(* TLAPS proofs about GpuUploader and MeshManager, for any number of       *)
(* staging buffers, Writers and meshes, any alignment and any sizes.       *)
(***************************************************************************)
EXTENDS MeshManager, CommandBuffersProofs, DataLemmas

LEMMA AlignUpProperties ==
  ASSUME NEW offset \in Nat
  PROVE  /\ AlignUp(offset) \in Nat /\ AlignUp(offset) >= offset
         /\ AlignUp(offset) % kAlignment = 0
  BY UploaderAssumption DEF AlignUp

LEMMA ZeroIsAligned == 0 % kAlignment = 0
  BY UploaderAssumption

Writer == [buffer : Buffer \cup {NoBuffer}, offset : Nat, size : Nat,
           has_writes : BOOLEAN, open : BOOLEAN]

UploaderTypes ==
  /\ current_buffer \in Buffer \cup {NoBuffer}
  /\ current_offset \in Nat
  /\ free_buffers \in Seq(Buffer)
  /\ unused_resources \subseteq Buffer
  /\ buffer_size \in [Buffer -> Nat]
  /\ buffer_sequence_number \in [Buffer -> Nat]
  /\ writers \in [1..MaxSequence -> Writer]

(* The buffer b is an open Writer's. *)
Held(b) == \E n \in OpenWriters : writers[n].buffer = b

(* A staging buffer is referred to, deferred because commands may read it, *)
(* or free because none can; or it does not exist.                         *)
PlacesInv ==
  /\ NoRepeats(free_buffers) /\ IsFiniteSet(unused_resources)
  /\ \A b \in Buffer :
       /\ Lists(free_buffers, b) =>
            /\ b # current_buffer /\ ~Held(b) /\ b \notin unused_resources
            /\ buffer_size[b] # 0 /\ buffer_sequence_number[b] <= announced
       /\ b \in unused_resources =>
            /\ b # current_buffer /\ ~Held(b)
            /\ buffer_size[b] # 0 /\ buffer_sequence_number[b] > announced
       /\ b = current_buffer \/ Held(b) => buffer_size[b] # 0
       /\ buffer_size[b] # 0 => \/ b = current_buffer \/ Held(b)
                                \/ b \in unused_resources \/ Lists(free_buffers, b)

(* The region of a Writer lies in its buffer, below the offset from which  *)
(* further Writers are served, and the buffer knows who reads it last.     *)
RegionInv ==
  /\ \A n \in InUse :
       /\ writers[n].buffer \in Buffer
       /\ buffer_size[writers[n].buffer] # 0
       /\ writers[n].offset + writers[n].size <= buffer_size[writers[n].buffer]
       /\ writers[n].offset % kAlignment = 0
       /\ writers[n].buffer = current_buffer =>
            writers[n].offset + writers[n].size <= current_offset
  /\ \A n \in executing : writers[n].has_writes =>
       n <= buffer_sequence_number[writers[n].buffer]
  /\ \A n \in OpenWriters : n \notin executing
  /\ current_offset % kAlignment = 0
  /\ RegionsInUseAreDisjoint
  /\ \A n \in 1..MaxSequence : n > issued => writers[n] = NoWriter

UploadInv == CommandInv /\ UploaderTypes /\ PlacesInv /\ RegionInv

LEMMA InUseIsIssued ==
  ASSUME UploadInv, NEW n \in InUse
  PROVE  n \in 1..issued /\ n \in 1..MaxSequence /\ writers[n] \in Writer
  BY MaxSequenceAssumption DEF UploadInv, CommandInv, InUse, OpenWriters, UploaderTypes

(* Nobody uses a region of a buffer that nobody refers to and whose last   *)
(* number is announced.                                                    *)
LEMMA FreeIsUnused ==
  ASSUME UploadInv, NEW b \in Buffer, ~Held(b), buffer_sequence_number[b] <= announced
  PROVE  \A n \in InUse : writers[n].buffer # b
<1> SUFFICES ASSUME NEW n \in InUse, writers[n].buffer = b PROVE FALSE
  OBVIOUS
<1>1. CASE n \in OpenWriters
  BY <1>1 DEF Held
<1>2. CASE n \in executing /\ writers[n].has_writes
  <2>1. n <= buffer_sequence_number[b]
    BY <1>2 DEF UploadInv, RegionInv
  <2>2. announced < n /\ n \in 1..MaxSequence
    BY <1>2, PendingIsLater DEF UploadInv
  <2>3. buffer_sequence_number[b] \in Nat /\ announced \in Nat
    BY DEF UploadInv, UploaderTypes, CommandInv
  <2> QED BY <2>1, <2>2, <2>3
<1> QED BY <1>1, <1>2 DEF InUse

(* What ReplaceCurrent() makes of the current buffer. *)
LetGo == LastReference(current_buffer, NoBuffer, OpenWriters)
AtOnce == LetGo /\ buffer_sequence_number[current_buffer] <= announced
ListWithCurrent == IF AtOnce THEN Append(free_buffers, current_buffer) ELSE free_buffers
DeferredWithCurrent == IF LetGo /\ ~AtOnce THEN unused_resources \cup {current_buffer}
                       ELSE unused_resources

Released(list, unused) ==
  /\ list \in Seq(Buffer) /\ NoRepeats(list)
  /\ unused \subseteq Buffer /\ IsFiniteSet(unused)
  /\ \A b \in Buffer :
       /\ Lists(list, b) => /\ ~Held(b) /\ b \notin unused /\ buffer_size[b] # 0
                            /\ buffer_sequence_number[b] <= announced
       /\ b \in unused => /\ ~Held(b) /\ buffer_size[b] # 0
                          /\ buffer_sequence_number[b] > announced
       /\ buffer_size[b] # 0 => Held(b) \/ b \in unused \/ Lists(list, b)

LEMMA ReleaseCurrent ==
  ASSUME UploadInv
  PROVE  Released(ListWithCurrent, DeferredWithCurrent)
<1> DEFINE last == LetGo
           atOnce == AtOnce
           list == ListWithCurrent
           unused == DeferredWithCurrent
<1>0. /\ last <=> current_buffer # NoBuffer /\ ~Held(current_buffer)
      /\ atOnce <=> last /\ buffer_sequence_number[current_buffer] <= announced
      /\ list = IF atOnce THEN Append(free_buffers, current_buffer) ELSE free_buffers
      /\ unused = IF last /\ ~atOnce THEN unused_resources \cup {current_buffer}
                  ELSE unused_resources
  BY DEF LastReference, Held, LetGo, AtOnce, ListWithCurrent, DeferredWithCurrent
<1> HIDE DEF last, atOnce, list, unused
<1>1. /\ free_buffers \in Seq(Buffer) /\ unused_resources \subseteq Buffer
      /\ current_buffer \in Buffer \cup {NoBuffer} /\ NoBuffer \notin Buffer
      /\ buffer_sequence_number \in [Buffer -> Nat] /\ announced \in Nat
  BY UploaderAssumption DEF UploadInv, UploaderTypes, CommandInv
<1>2. last => current_buffer \in Buffer
  BY <1>0, <1>1
<1>3. ASSUME atOnce
      PROVE  /\ list \in Seq(Buffer) /\ NoRepeats(list)
             /\ \A x : Lists(list, x) <=> Lists(free_buffers, x) \/ x = current_buffer
  <2>1. ~Lists(free_buffers, current_buffer) /\ NoRepeats(free_buffers)
    BY <1>0, <1>2, <1>3 DEF UploadInv, PlacesInv
  <2>2. list = Append(free_buffers, current_buffer) /\ current_buffer \in Buffer
    BY <1>0, <1>2, <1>3
  <2> HIDE DEF Lists, NoRepeats
  <2> QED BY <1>1, <2>1, <2>2, AppendLists
<1>4. ASSUME ~atOnce PROVE list = free_buffers /\ NoRepeats(list)
  BY <1>0, <1>4 DEF UploadInv, PlacesInv
<1>5. unused \subseteq Buffer /\ IsFiniteSet(unused)
  BY <1>0, <1>1, <1>2, FS_AddElement DEF UploadInv, PlacesInv
<1>6. ASSUME NEW b \in Buffer
      PROVE  /\ Lists(list, b) => /\ ~Held(b) /\ b \notin unused /\ buffer_size[b] # 0
                                  /\ buffer_sequence_number[b] <= announced
             /\ b \in unused => /\ ~Held(b) /\ buffer_size[b] # 0
                                /\ buffer_sequence_number[b] > announced
             /\ buffer_size[b] # 0 => Held(b) \/ b \in unused \/ Lists(list, b)
  <2>1. CASE atOnce
    BY <1>0, <1>1, <1>3, <2>1 DEF UploadInv, PlacesInv
  <2>2. CASE ~atOnce /\ last
    BY <1>0, <1>1, <1>4, <2>2 DEF UploadInv, PlacesInv
  <2>3. CASE ~last
    BY <1>0, <1>1, <1>4, <2>3 DEF UploadInv, PlacesInv
  <2> QED BY <2>1, <2>2, <2>3
<1> QED BY <1>1, <1>3, <1>4, <1>5, <1>6 DEF list, unused, Released

(* What becomes of a list when a buffer is taken from it or created. *)
Replaced(list, size) ==
  /\ current_buffer' \in Buffer
  /\ buffer_size' \in [Buffer -> Nat] /\ buffer_size'[current_buffer'] >= size
  /\ buffer_size'[current_buffer'] # 0
  /\ buffer_sequence_number' \in [Buffer -> Nat]
  /\ free_buffers' \in Seq(Buffer) /\ NoRepeats(free_buffers')
  /\ Lists(list, current_buffer') \/ buffer_size[current_buffer'] = 0
  /\ ~Lists(free_buffers', current_buffer')
  /\ \A b \in Buffer \ {current_buffer'} :
       /\ buffer_sequence_number'[b] = buffer_sequence_number[b]
       /\ ~Lists(list, b) => buffer_size'[b] = buffer_size[b]
       /\ Lists(free_buffers', b) => Lists(list, b) /\ buffer_size'[b] = buffer_size[b]
       /\ Lists(list, b) => Lists(free_buffers', b) \/ buffer_size'[b] = 0

LEMMA TakeReplaces ==
  ASSUME NEW list \in Seq(Buffer), NoRepeats(list), NEW size \in Nat,
         \A b \in Buffer : Lists(list, b) => buffer_size[b] # 0,
         buffer_size \in [Buffer -> Nat], buffer_sequence_number \in [Buffer -> Nat],
         LargeEnough(list, size) # {}, TakeFromList(list, size)
  PROVE  Replaced(list, size)
<1> DEFINE k == Max(LargeEnough(list, size))
           front == SubSeq(list, 1, k - 1)
           behind == ToSet(SubSeq(list, k + 1, Len(list)))
<1>1. k \in 1..Len(list) /\ buffer_size[list[k]] >= size
  <2>1. LargeEnough(list, size) \in SUBSET (1..Len(list)) /\ Len(list) \in Nat
    BY LenProperties DEF LargeEnough
  <2>2. k \in LargeEnough(list, size)
    BY <2>1, MaxProperties
  <2> QED BY <2>2 DEF LargeEnough
<1>2. /\ current_buffer' = list[k] /\ free_buffers' = front
      /\ buffer_size' = [b \in Buffer |-> IF b \in behind THEN 0 ELSE buffer_size[b]]
      /\ buffer_sequence_number' = buffer_sequence_number
  BY DEF TakeFromList
<1> HIDE DEF k
<1>3. /\ front \in Seq(Buffer) /\ NoRepeats(front) /\ list[k] \in Buffer
      /\ ~Lists(front, list[k]) /\ list[k] \notin behind
      /\ \A x : Lists(list, x) <=> Lists(front, x) \/ x = list[k] \/ x \in behind
      /\ \A x : ~(Lists(front, x) /\ x \in behind)
  BY <1>1, PrefixLists
<1> HIDE DEF front, behind
<1>4. buffer_size'[list[k]] = buffer_size[list[k]] /\ buffer_size[list[k]] # 0
  BY <1>2, <1>3
<1>5. buffer_size' \in [Buffer -> Nat]
  BY <1>2
<1>6. \A b \in Buffer : buffer_size'[b] = IF b \in behind THEN 0 ELSE buffer_size[b]
  BY <1>2
<1>7. \A b \in Buffer \ {list[k]} :
       /\ ~Lists(list, b) => buffer_size'[b] = buffer_size[b]
       /\ Lists(front, b) => Lists(list, b) /\ buffer_size'[b] = buffer_size[b]
       /\ Lists(list, b) => Lists(front, b) \/ buffer_size'[b] = 0
  BY <1>3, <1>6
<1> QED BY <1>1, <1>2, <1>3, <1>4, <1>5, <1>7 DEF Replaced

LEMMA CreateReplaces ==
  ASSUME NEW list \in Seq(Buffer), NEW size \in Nat,
         buffer_size \in [Buffer -> Nat], buffer_sequence_number \in [Buffer -> Nat],
         CreateBuffer(list, size)
  PROVE  Replaced(list, size)
<1> DEFINE new == Max({kMinBufferSize, size * kOverAllocationFactor})
<1>1. new \in Nat \ {0} /\ new >= size
  <2>1. size * kOverAllocationFactor \in Nat /\ size * kOverAllocationFactor >= size
    BY DEF kOverAllocationFactor
  <2>2. \E x \in {kMinBufferSize, size * kOverAllocationFactor} :
          \A y \in {kMinBufferSize, size * kOverAllocationFactor} : x >= y
    BY <2>1, UploaderAssumption
  <2>3. /\ new \in {kMinBufferSize, size * kOverAllocationFactor}
        /\ \A y \in {kMinBufferSize, size * kOverAllocationFactor} : new >= y
    BY <2>2 DEF Max
  <2> QED BY <2>1, <2>3, UploaderAssumption
<1> HIDE DEF new
<1>2. \A b : b \in ToSet(list) <=> Lists(list, b)
  <2>1. DOMAIN list = 1..Len(list)
    BY LenProperties
  <2> QED BY <2>1 DEF ToSet, Lists
<1>3. PICK b \in Buffer :
        /\ buffer_size[b] = 0 \/ b \in ToSet(list)
        /\ current_buffer' = b
        /\ buffer_size' =
             [c \in Buffer |->
                CASE c = b -> new
                  [] c # b /\ c \in ToSet(list) -> 0
                  [] OTHER -> buffer_size[c]]
        /\ buffer_sequence_number' = [buffer_sequence_number EXCEPT ![b] = 0]
  BY DEF CreateBuffer, new
<1>4. free_buffers' = <<>> /\ free_buffers' \in Seq(Buffer)
  BY EmptySeq DEF CreateBuffer
<1>5. /\ buffer_size'[b] = new
      /\ \A c \in Buffer \ {b} :
           buffer_size'[c] = IF Lists(list, c) THEN 0 ELSE buffer_size[c]
  BY <1>2, <1>3
<1>6. buffer_size' \in [Buffer -> Nat]
  BY <1>1, <1>3
<1>7. buffer_sequence_number' \in [Buffer -> Nat]
      /\ \A c \in Buffer \ {b} : buffer_sequence_number'[c] = buffer_sequence_number[c]
  BY <1>3
<1> QED BY <1>1, <1>2, <1>3, <1>4, <1>5, <1>6, <1>7, EmptyLists DEF Replaced
------------------------------------------------------------------------------
(* The current buffer has room for a new region at offset.                 *)
Served(size, offset) ==
  /\ current_buffer' \in Buffer
  /\ free_buffers' \in Seq(Buffer) /\ NoRepeats(free_buffers')
  /\ unused_resources' \subseteq Buffer /\ IsFiniteSet(unused_resources')
  /\ buffer_size' \in [Buffer -> Nat]
  /\ buffer_sequence_number' \in [Buffer -> Nat]
  /\ buffer_size'[current_buffer'] # 0
  /\ offset \in Nat /\ offset + size <= buffer_size'[current_buffer']
  /\ offset % kAlignment = 0
  /\ \A m \in InUse :
       /\ buffer_size'[writers[m].buffer] = buffer_size[writers[m].buffer]
       /\ buffer_sequence_number'[writers[m].buffer] = buffer_sequence_number[writers[m].buffer]
       /\ writers[m].buffer = current_buffer' => writers[m].offset + writers[m].size <= offset
  /\ \A b \in Buffer :
       /\ Lists(free_buffers', b) =>
            /\ b # current_buffer' /\ ~Held(b) /\ b \notin unused_resources'
            /\ buffer_size'[b] # 0 /\ buffer_sequence_number'[b] <= announced
       /\ b \in unused_resources' =>
            /\ b # current_buffer' /\ ~Held(b)
            /\ buffer_size'[b] # 0 /\ buffer_sequence_number'[b] > announced
       /\ Held(b) => buffer_size'[b] # 0
       /\ buffer_size'[b] # 0 => \/ b = current_buffer' \/ Held(b)
                                 \/ b \in unused_resources' \/ Lists(free_buffers', b)

LEMMA FitsServed ==
  ASSUME UploadInv, NEW size \in Nat, FitsInCurrent(size), PrepareForWriterOfSize(size)
  PROVE  Served(size, current_offset)
<1>1. UNCHANGED <<current_buffer, free_buffers, unused_resources, buffer_size,
                  buffer_sequence_number>>
  BY DEF PrepareForWriterOfSize
<1>2. current_buffer \in Buffer
  BY DEF FitsInCurrent, UploadInv, UploaderTypes
<1>3. buffer_size[current_buffer] # 0
  BY <1>2 DEF UploadInv, PlacesInv
<1>4. current_offset + size <= buffer_size[current_buffer]
  BY <1>2 DEF FitsInCurrent, UploadInv, UploaderTypes
<1>5. /\ current_offset % kAlignment = 0
      /\ \A m \in InUse : writers[m].buffer = current_buffer =>
           writers[m].offset + writers[m].size <= current_offset
  BY DEF UploadInv, RegionInv
<1>6. /\ NoRepeats(free_buffers) /\ IsFiniteSet(unused_resources)
      /\ \A b \in Buffer :
       /\ Lists(free_buffers, b) =>
            /\ b # current_buffer /\ ~Held(b) /\ b \notin unused_resources
            /\ buffer_size[b] # 0 /\ buffer_sequence_number[b] <= announced
       /\ b \in unused_resources =>
            /\ b # current_buffer /\ ~Held(b)
            /\ buffer_size[b] # 0 /\ buffer_sequence_number[b] > announced
       /\ Held(b) => buffer_size[b] # 0
       /\ buffer_size[b] # 0 => \/ b = current_buffer \/ Held(b)
                                \/ b \in unused_resources \/ Lists(free_buffers, b)
  BY DEF UploadInv, PlacesInv
<1>7. UploaderTypes
  BY DEF UploadInv
<1> HIDE DEF Held, Lists, InUse
<1> QED BY <1>1, <1>2, <1>3, <1>4, <1>5, <1>6, <1>7 DEF Served, UploaderTypes, Lists, NoRepeats

LEMMA ReplaceServed ==
  ASSUME UploadInv, NEW size \in Nat, ReplaceCurrent(size)
  PROVE  Served(size, 0)
<1> DEFINE list == ListWithCurrent
           unused == DeferredWithCurrent
<1>2. /\ unused_resources' = unused
      /\ IF LargeEnough(list, size) # {} THEN TakeFromList(list, size)
         ELSE CreateBuffer(list, size)
  BY DEF ReplaceCurrent, LetGo, AtOnce, ListWithCurrent, DeferredWithCurrent
<1>3. Released(list, unused)
  BY ReleaseCurrent
<1> USE DEF Released
<1> HIDE DEF list, unused
<1>4. Replaced(list, size)
  BY <1>2, <1>3, TakeReplaces, CreateReplaces DEF UploadInv, UploaderTypes
<1>5. \A b \in Buffer : Held(b) => buffer_size[b] # 0
  BY DEF UploadInv, PlacesInv
<1>6. ASSUME NEW m \in InUse
      PROVE  /\ writers[m].buffer \in Buffer
             /\ writers[m].buffer # current_buffer' /\ ~Lists(list, writers[m].buffer)
  <2>1. writers[m].buffer \in Buffer /\ buffer_size[writers[m].buffer] # 0
    BY DEF UploadInv, RegionInv
  <2>2. ~Lists(list, writers[m].buffer)
    BY <1>3, <2>1, FreeIsUnused
  <2> QED BY <1>4, <2>1, <2>2 DEF Replaced
<1>7. \A m \in InUse :
       /\ buffer_size'[writers[m].buffer] = buffer_size[writers[m].buffer]
       /\ buffer_sequence_number'[writers[m].buffer] = buffer_sequence_number[writers[m].buffer]
       /\ writers[m].buffer # current_buffer'
  BY <1>4, <1>6 DEF Replaced
<1>8. ASSUME NEW b \in Buffer
      PROVE  /\ Lists(free_buffers', b) =>
                  /\ b # current_buffer' /\ ~Held(b) /\ b \notin unused
                  /\ buffer_size'[b] # 0 /\ buffer_sequence_number'[b] <= announced
             /\ b \in unused =>
                  /\ b # current_buffer' /\ ~Held(b)
                  /\ buffer_size'[b] # 0 /\ buffer_sequence_number'[b] > announced
             /\ Held(b) => buffer_size'[b] # 0
             /\ buffer_size'[b] # 0 => \/ b = current_buffer' \/ Held(b)
                                       \/ b \in unused \/ Lists(free_buffers', b)
  <2>1. CASE b = current_buffer'
    BY <1>3, <1>4, <1>5, <2>1 DEF Replaced
  <2>2. CASE b # current_buffer'
    BY <1>3, <1>4, <1>5, <2>2 DEF Replaced
  <2> QED BY <2>1, <2>2
<1> QED BY <1>2, <1>3, <1>4, <1>7, <1>8, ZeroIsAligned DEF Replaced, Served

LEMMA GetWriterInv ==
  ASSUME UploadInv, NEW size \in Size, GetWriter(size)
  PROVE  UploadInv'
<1> DEFINE offset == IF FitsInCurrent(size) THEN current_offset ELSE 0
           n == issued + 1
           new == [buffer |-> current_buffer', offset |-> offset, size |-> size,
                   has_writes |-> FALSE, open |-> TRUE]
<1>1. /\ HandOut /\ CommandInv' /\ announced' = announced
      /\ executing' = executing /\ issued' = n /\ issued < MaxSequence
      /\ executing \subseteq 1..issued /\ issued \in Nat /\ announced \in Nat
  BY HandOutCommandInv DEF GetWriter, UploadInv, CommandInv, HandOut, Sequencer!Issue
<1>2. n \in 1..MaxSequence /\ size \in Nat
  BY <1>1, MaxSequenceAssumption, UploaderAssumption
<1>3. Served(size, offset)
  BY <1>2, FitsServed, ReplaceServed DEF GetWriter, PrepareForWriterOfSize
<1>3a. offset \in Nat /\ current_buffer' \in Buffer
  <2>1. current_offset \in Nat
    BY DEF UploadInv, UploaderTypes
  <2> QED BY <1>3, <2>1 DEF Served
<1>4. /\ writers' = [writers EXCEPT ![n] = new]
      /\ current_offset' = AlignUp(offset + size)
  BY <1>1 DEF GetWriter
<1>5. /\ current_offset' \in Nat /\ offset + size <= current_offset'
      /\ current_offset' % kAlignment = 0
  <2> HIDE DEF offset
  <2>1. offset + size \in Nat
    BY <1>2, <1>3a
  <2> QED BY <1>4, <2>1, AlignUpProperties
<1>6. writers \in [1..MaxSequence -> Writer] /\ new \in Writer
  <2> HIDE DEF offset
  <2> QED BY <1>2, <1>3a DEF UploadInv, UploaderTypes, Writer
<1>7. /\ writers'[n] = new
      /\ \A m \in 1..MaxSequence : m # n => writers'[m] = writers[m]
      /\ writers' \in [1..MaxSequence -> Writer]
  BY <1>2, <1>4, <1>6
<1>8. OpenWriters' = OpenWriters \cup {n}
  <2>1. writers'[n].open /\ n \notin 1..issued /\ 1..issued' = (1..issued) \cup {n}
    BY <1>1, <1>7
  <2>2. \A m \in 1..issued : writers'[m] = writers[m]
    BY <1>1, <1>7, MaxSequenceAssumption
  <2> HIDE DEF n
  <2> QED BY <2>1, <2>2 DEF OpenWriters
<1>9. \A m \in InUse : m # n /\ m \in 1..MaxSequence /\ writers'[m] = writers[m]
  BY <1>1, <1>7, InUseIsIssued
<1>10. InUse' = InUse \cup {n}
  <2>1. \A m \in executing : m # n /\ writers'[m] = writers[m]
    <3>1. \A m \in executing : m # n /\ m \in 1..MaxSequence
      BY <1>1, MaxSequenceAssumption
    <3> QED BY <1>7, <3>1
  <2> QED BY <1>1, <1>8, <2>1 DEF InUse
<1>11. \A b : Held(b)' <=> Held(b) \/ b = current_buffer'
  <2>1. \A m \in OpenWriters : writers'[m] = writers[m]
    BY <1>9 DEF InUse
  <2>2. writers'[n].buffer = current_buffer'
    BY <1>7
  <2> QED BY <1>8, <2>1, <2>2 DEF Held
<1> HIDE DEF offset, n, new
<1>12. UploaderTypes'
  BY <1>3, <1>5, <1>7 DEF Served, UploaderTypes, Writer
<1>13. PlacesInv'
  <2> SUFFICES ASSUME NEW b \in Buffer
               PROVE  /\ Lists(free_buffers', b) =>
                           /\ b # current_buffer' /\ ~Held(b)' /\ b \notin unused_resources'
                           /\ buffer_size'[b] # 0 /\ buffer_sequence_number'[b] <= announced'
                      /\ b \in unused_resources' =>
                           /\ b # current_buffer' /\ ~Held(b)'
                           /\ buffer_size'[b] # 0 /\ buffer_sequence_number'[b] > announced'
                      /\ b = current_buffer' \/ Held(b)' => buffer_size'[b] # 0
                      /\ buffer_size'[b] # 0 =>
                           \/ b = current_buffer' \/ Held(b)'
                           \/ b \in unused_resources' \/ Lists(free_buffers', b)
    BY <1>3 DEF Served, PlacesInv, NoRepeats, Lists
  <2> QED BY <1>1, <1>3, <1>11 DEF Served
<1>14. /\ new.buffer = current_buffer' /\ new.offset = offset /\ new.size = size
  BY DEF new
<1>15. \A m \in InUse : /\ writers[m].buffer \in Buffer
                        /\ writers[m].offset \in Nat /\ writers[m].size \in Nat
  BY InUseIsIssued DEF UploadInv, RegionInv, Writer
<1>16. ASSUME NEW m \in InUse'
       PROVE  /\ writers'[m].buffer \in Buffer
              /\ buffer_size'[writers'[m].buffer] # 0
              /\ writers'[m].offset + writers'[m].size <= buffer_size'[writers'[m].buffer]
              /\ writers'[m].offset % kAlignment = 0
              /\ writers'[m].buffer = current_buffer' =>
                   writers'[m].offset + writers'[m].size <= current_offset'
  <2>1. CASE m = n
    BY <1>3, <1>5, <1>7, <1>14, <2>1 DEF Served
  <2>2. CASE m \in InUse
    <3>1. writers'[m] = writers[m]
      BY <1>9, <2>2
    <3>2. writers[m].buffer = current_buffer' => writers[m].offset + writers[m].size <= offset
      BY <1>3, <2>2 DEF Served
    <3>3. offset <= current_offset' /\ offset \in Nat
      BY <1>2, <1>3, <1>5 DEF Served
    <3>4. writers[m].buffer = current_buffer' =>
            writers[m].offset + writers[m].size <= current_offset'
      BY <1>5, <1>15, <2>2, <3>2, <3>3
    <3>5. buffer_size'[writers[m].buffer] = buffer_size[writers[m].buffer]
      BY <1>3, <2>2 DEF Served
    <3> QED BY <2>2, <3>1, <3>4, <3>5 DEF UploadInv, RegionInv
  <2> QED BY <1>10, <2>1, <2>2
<1>17. \A m \in executing' : writers'[m].has_writes =>
         m <= buffer_sequence_number'[writers'[m].buffer]
  <2> SUFFICES ASSUME NEW m \in executing, writers'[m].has_writes
               PROVE  m <= buffer_sequence_number'[writers'[m].buffer]
    BY <1>1
  <2>1. m # n /\ m \in 1..MaxSequence
    BY <1>1, MaxSequenceAssumption DEF n
  <2>2. m \in InUse /\ writers'[m] = writers[m]
    BY <1>7, <2>1 DEF InUse
  <2> QED BY <1>3, <2>2 DEF Served, UploadInv, RegionInv
<1>18. RegionsInUseAreDisjoint'
  <2> SUFFICES ASSUME NEW l \in InUse', NEW m \in InUse', l # m
               PROVE  ~Overlap(writers'[l], writers'[m])
    BY DEF RegionsInUseAreDisjoint, Overlap
  <2>1. ASSUME NEW i \in InUse
        PROVE  ~Overlap(writers[i], new) /\ ~Overlap(new, writers[i])
    <3>1. writers[i].buffer = current_buffer' => writers[i].offset + writers[i].size <= offset
      BY <1>3 DEF Served
    <3> QED BY <1>2, <1>3, <1>14, <1>15, <3>1 DEF Overlap, Served
  <2>2. CASE l \in InUse /\ m \in InUse
    BY <1>9, <2>2 DEF UploadInv, RegionInv, RegionsInUseAreDisjoint
  <2>3. CASE l = n \/ m = n
    BY <1>7, <1>9, <1>10, <2>1, <2>3
  <2> QED BY <1>10, <2>2, <2>3
<1>19. \A m \in 1..MaxSequence : m > issued' => writers'[m] = NoWriter
  BY <1>1, <1>2, <1>7 DEF UploadInv, RegionInv, n
<1>20. \A m \in OpenWriters' : m \notin executing'
  BY <1>1, <1>8 DEF UploadInv, RegionInv, n
<1> QED BY <1>1, <1>5, <1>12, <1>13, <1>16, <1>17, <1>18, <1>19, <1>20 DEF UploadInv, RegionInv
------------------------------------------------------------------------------
(* Steps that leave the buffers and the regions alone, and use no new ones. *)
LEMMA SameRegions ==
  ASSUME UploadInv, CommandInv', announced' = announced, UNCHANGED uploaderVars,
         OpenWriters' = OpenWriters, issued' >= issued,
         \A n \in executing' : n \in executing \/ writers[n] = NoWriter
  PROVE  UploadInv'
<1> USE DEF uploaderVars, bufferVars
<1>1. UploaderTypes'
  BY DEF UploadInv, UploaderTypes, Writer
<1>2. \A b : Held(b)' <=> Held(b)
  BY DEF Held
<1>3. PlacesInv'
  BY <1>2 DEF UploadInv, PlacesInv, Lists, NoRepeats
<1>4. InUse' \subseteq InUse
  BY DEF InUse, NoWriter
<1>5. RegionsInUseAreDisjoint'
  BY <1>4 DEF UploadInv, RegionInv, RegionsInUseAreDisjoint, Overlap
<1>6. \A n \in 1..MaxSequence : n > issued' => writers'[n] = NoWriter
  BY MaxSequenceAssumption DEF UploadInv, RegionInv, CommandInv
<1>7. \A n \in OpenWriters' : n \notin executing'
  BY DEF UploadInv, RegionInv, OpenWriters, NoWriter
<1>8. \A n \in executing' : writers'[n].has_writes =>
        n <= buffer_sequence_number'[writers'[n].buffer]
  BY DEF UploadInv, RegionInv, NoWriter
<1>9. RegionInv'
  BY <1>4, <1>5, <1>6, <1>7, <1>8 DEF UploadInv, RegionInv
<1> QED BY <1>1, <1>3, <1>9 DEF UploadInv

LEMMA WriteInv ==
  ASSUME UploadInv, NEW n \in 1..issued, Write(n)
  PROVE  UploadInv'
<1> USE DEF bufferVars, commandVars
<1>1. /\ n \in OpenWriters /\ writers' = [writers EXCEPT ![n].has_writes = TRUE]
      /\ UNCHANGED <<issued, finished, announced, recording, executing, current_buffer,
                     current_offset, free_buffers, unused_resources, buffer_size,
                     buffer_sequence_number>>
  BY DEF Write
<1>2. n \in 1..MaxSequence /\ n \notin executing
  <2>1. n \in 1..MaxSequence
    BY MaxSequenceAssumption DEF UploadInv, CommandInv
  <2> QED BY <1>1, <2>1 DEF UploadInv, RegionInv
<1>3. writers \in [1..MaxSequence -> Writer]
  BY DEF UploadInv, UploaderTypes
<1>4. /\ writers'[n] = [writers[n] EXCEPT !.has_writes = TRUE]
      /\ \A m \in 1..MaxSequence : m # n => writers'[m] = writers[m]
      /\ writers' \in [1..MaxSequence -> Writer]
  BY <1>1, <1>2, <1>3 DEF Writer
<1>5. \A m \in 1..MaxSequence :
        /\ writers'[m].buffer = writers[m].buffer /\ writers'[m].offset = writers[m].offset
        /\ writers'[m].size = writers[m].size /\ writers'[m].open = writers[m].open
        /\ m # n => writers'[m] = writers[m]
  BY <1>2, <1>3, <1>4 DEF Writer
<1>6. issued \in 0..MaxSequence /\ executing \subseteq 1..issued
  BY DEF UploadInv, CommandInv
<1>7. OpenWriters' = OpenWriters /\ OpenWriters \subseteq 1..MaxSequence
  BY <1>1, <1>5, <1>6, MaxSequenceAssumption DEF OpenWriters
<1>8. InUse' = InUse /\ InUse \subseteq 1..MaxSequence
  <2>1. \A m \in executing : m # n /\ m \in 1..MaxSequence
    BY <1>2, <1>6, MaxSequenceAssumption
  <2> QED BY <1>1, <1>5, <1>7, <2>1 DEF InUse
<1>9. \A b : Held(b)' <=> Held(b)
  BY <1>5, <1>7 DEF Held
<1>10. CommandInv'
  BY <1>1 DEF UploadInv, CommandInv
<1>11. UploaderTypes'
  BY <1>1, <1>4 DEF UploadInv, UploaderTypes, Writer
<1>12. PlacesInv'
  BY <1>1, <1>9 DEF UploadInv, PlacesInv, Lists, NoRepeats
<1>13. \A m \in executing' : writers'[m].has_writes =>
         m <= buffer_sequence_number'[writers'[m].buffer]
  <2>1. \A m \in executing : m # n /\ m \in 1..MaxSequence
    BY <1>2, <1>6, MaxSequenceAssumption
  <2> QED BY <1>1, <1>5, <2>1 DEF UploadInv, RegionInv
<1>14. RegionsInUseAreDisjoint'
  BY <1>5, <1>8 DEF UploadInv, RegionInv, RegionsInUseAreDisjoint, Overlap
<1>15. \A m \in 1..MaxSequence : m > issued' => writers'[m] = NoWriter
  BY <1>1, <1>5, <1>6 DEF UploadInv, RegionInv
<1>16. RegionInv'
  BY <1>1, <1>5, <1>7, <1>8, <1>13, <1>14, <1>15 DEF UploadInv, RegionInv
<1> QED BY <1>10, <1>11, <1>12, <1>16 DEF UploadInv
LEMMA SubmitInv ==
  ASSUME UploadInv, NEW n \in 1..issued, KeepAliveInOrder(n), Submit(n)
  PROVE  UploadInv'
<1>0. PICK b : b = writers[n].buffer
  OBVIOUS
<1> DEFINE number == IF writers[n].has_writes THEN n ELSE buffer_sequence_number[b]
           last == LastReference(b, current_buffer, OpenWriters \ {n})
<1>1. /\ n \in OpenWriters
      /\ IF writers[n].has_writes THEN SubmitNumber(n) ELSE UNCHANGED commandVars
      /\ buffer_sequence_number' = [buffer_sequence_number EXCEPT ![b] = number]
      /\ writers' = [writers EXCEPT ![n].open = FALSE]
      /\ free_buffers' = IF last /\ number <= announced
                         THEN Append(free_buffers, b) ELSE free_buffers
      /\ unused_resources' = IF last /\ number > announced
                             THEN unused_resources \cup {b} ELSE unused_resources
      /\ current_buffer' = current_buffer /\ current_offset' = current_offset
      /\ buffer_size' = buffer_size
  BY <1>0 DEF Submit
<1>2. /\ issued \in 0..MaxSequence /\ executing \subseteq 1..issued /\ announced \in Nat
      /\ n \in 1..MaxSequence /\ n \in Nat
  BY MaxSequenceAssumption DEF UploadInv, CommandInv
<1>3. CommandInv' /\ announced' = announced /\ issued' = issued
  BY <1>1, SubmitCommandInv DEF UploadInv, CommandInv, commandVars, SubmitNumber
<1>4. \A m \in executing' : m \in executing \/ (m = n /\ writers[n].has_writes)
  BY <1>1 DEF SubmitNumber, commandVars
<1>5. b \in Buffer /\ b \in Buffer \cup {NoBuffer} /\ b # NoBuffer
  BY <1>0, <1>1, UploaderAssumption DEF UploadInv, RegionInv, InUse
<1>6. /\ writers \in [1..MaxSequence -> Writer] /\ buffer_sequence_number \in [Buffer -> Nat]
      /\ free_buffers \in Seq(Buffer) /\ unused_resources \subseteq Buffer
  BY DEF UploadInv, UploaderTypes
<1>7. number \in Nat /\ buffer_sequence_number[b] <= number
      /\ (writers[n].has_writes => number = n)
  BY <1>0, <1>2, <1>5, <1>6 DEF KeepAliveInOrder
<1>8. \A m \in 1..MaxSequence :
        /\ writers'[m].buffer = writers[m].buffer /\ writers'[m].offset = writers[m].offset
        /\ writers'[m].size = writers[m].size /\ writers'[m].has_writes = writers[m].has_writes
        /\ writers'[m].open = IF m = n THEN FALSE ELSE writers[m].open
        /\ m # n => writers'[m] = writers[m]
  BY <1>1, <1>2, <1>6 DEF Writer
<1>9. writers' \in [1..MaxSequence -> Writer]
  BY <1>1, <1>2, <1>6 DEF Writer
<1>10. OpenWriters' = OpenWriters \ {n} /\ OpenWriters \subseteq 1..MaxSequence
  <2>1. 1..issued \subseteq 1..MaxSequence /\ 1..issued' = 1..issued
    BY <1>2, <1>3, MaxSequenceAssumption
  <2> HIDE DEF number, last
  <2> QED BY <1>8, <2>1 DEF OpenWriters
<1>11. InUse' \subseteq InUse /\ InUse \subseteq 1..MaxSequence
  <2>1. executing \subseteq 1..MaxSequence
    BY <1>2, MaxSequenceAssumption
  <2> QED BY <1>1, <1>2, <1>4, <1>8, <1>10, <2>1 DEF InUse
<1>12a. \A c : Held(c)' <=> \E m \in OpenWriters \ {n} : writers[m].buffer = c
  BY <1>8, <1>10 DEF Held
<1>12. \A c : /\ Held(c)' => Held(c)
              /\ Held(c) /\ c # b => Held(c)'
  <2> HIDE DEF number, last
  <2> QED BY <1>0, <1>12a DEF Held
<1>13. last <=> b # current_buffer /\ ~Held(b)'
  BY <1>5, <1>12a DEF LastReference
<1>14. Held(b)
  BY <1>0, <1>1 DEF Held
<1>15. ~Lists(free_buffers, b) /\ b \notin unused_resources /\ buffer_size[b] # 0
       /\ NoRepeats(free_buffers) /\ IsFiniteSet(unused_resources)
  BY <1>5, <1>14 DEF UploadInv, PlacesInv
<1> HIDE DEF number, last
<1>16. /\ buffer_sequence_number'[b] = number
       /\ \A c \in Buffer \ {b} : buffer_sequence_number'[c] = buffer_sequence_number[c]
       /\ buffer_sequence_number' \in [Buffer -> Nat]
  BY <1>1, <1>5, <1>6, <1>7
<1>17. /\ free_buffers' \in Seq(Buffer) /\ NoRepeats(free_buffers')
       /\ \A c : Lists(free_buffers', c) <=>
              Lists(free_buffers, c) \/ (c = b /\ last /\ number <= announced)
  <2>1. CASE last /\ number <= announced
    <3>1. free_buffers' = Append(free_buffers, b)
      BY <1>1, <2>1
    <3> QED BY <1>5, <1>6, <1>15, <2>1, <3>1, AppendLists
  <2>2. CASE ~(last /\ number <= announced)
    BY <1>1, <1>6, <1>15, <2>2
  <2> QED BY <2>1, <2>2
<1>18. /\ unused_resources' \subseteq Buffer /\ IsFiniteSet(unused_resources')
       /\ \A c : c \in unused_resources' <=>
              c \in unused_resources \/ (c = b /\ last /\ number > announced)
  BY <1>1, <1>5, <1>6, <1>15, FS_AddElement
<1>19. UploaderTypes'
  BY <1>1, <1>9, <1>16, <1>17, <1>18 DEF UploadInv, UploaderTypes, Writer
<1>20. PlacesInv'
  <2>1. ASSUME NEW c \in Buffer
        PROVE  /\ Lists(free_buffers', c) =>
                    /\ c # current_buffer /\ ~Held(c)' /\ c \notin unused_resources'
                    /\ buffer_size[c] # 0 /\ buffer_sequence_number'[c] <= announced
               /\ c \in unused_resources' =>
                    /\ c # current_buffer /\ ~Held(c)'
                    /\ buffer_size[c] # 0 /\ buffer_sequence_number'[c] > announced
               /\ c = current_buffer \/ Held(c)' => buffer_size[c] # 0
               /\ buffer_size[c] # 0 => \/ c = current_buffer \/ Held(c)'
                                        \/ c \in unused_resources' \/ Lists(free_buffers', c)
    <3>1. CASE c = b
      BY <1>2, <1>7, <1>13, <1>15, <1>16, <1>17, <1>18, <3>1
    <3>2. CASE c # b
      BY <1>12, <1>16, <1>17, <1>18, <3>2 DEF UploadInv, PlacesInv
    <3> QED BY <3>1, <3>2
  <2> QED BY <1>1, <1>3, <1>17, <1>18, <2>1 DEF PlacesInv, Lists, NoRepeats
<1>21. \A m \in executing' : writers'[m].has_writes =>
         m <= buffer_sequence_number'[writers'[m].buffer]
  <2> SUFFICES ASSUME NEW m \in executing', writers'[m].has_writes
               PROVE  m <= buffer_sequence_number'[writers'[m].buffer]
    OBVIOUS
  <2>1. m \in 1..MaxSequence
    <3>1. executing \subseteq 1..MaxSequence
      BY <1>2, MaxSequenceAssumption
    <3> QED BY <1>2, <1>4, <3>1
  <2>2. writers'[m].buffer = writers[m].buffer /\ writers[m].has_writes
    BY <1>8, <2>1
  <2>3. CASE m = n
    BY <1>0, <1>2, <1>7, <1>16, <2>2, <2>3
  <2>4. CASE m # n
    <3>1. m \in executing /\ m \in InUse
      BY <1>4, <2>2, <2>4 DEF InUse
    <3>2. m <= buffer_sequence_number[writers[m].buffer] /\ writers[m].buffer \in Buffer
      BY <2>2, <3>1 DEF UploadInv, RegionInv
    <3>3. CASE writers[m].buffer = b
      <4>1. buffer_sequence_number[b] \in Nat /\ m \in Nat
        BY <1>5, <1>6, <2>1
      <4> QED BY <1>7, <1>16, <2>2, <3>2, <3>3, <4>1
    <3>4. CASE writers[m].buffer # b
      BY <1>16, <2>2, <3>2, <3>4
    <3> QED BY <3>3, <3>4
  <2> QED BY <2>3, <2>4
<1>22. RegionsInUseAreDisjoint'
  <2> SUFFICES ASSUME NEW l \in InUse', NEW m \in InUse', l # m
               PROVE  ~Overlap(writers'[l], writers'[m])
    BY DEF RegionsInUseAreDisjoint, Overlap
  <2>1. l \in InUse /\ m \in InUse /\ l \in 1..MaxSequence /\ m \in 1..MaxSequence
    BY <1>11
  <2>2. ~Overlap(writers[l], writers[m])
    BY <2>1 DEF UploadInv, RegionInv, RegionsInUseAreDisjoint
  <2>3. /\ writers'[l].buffer = writers[l].buffer /\ writers'[l].offset = writers[l].offset
        /\ writers'[l].size = writers[l].size /\ writers'[m].buffer = writers[m].buffer
        /\ writers'[m].offset = writers[m].offset /\ writers'[m].size = writers[m].size
    BY <1>8, <2>1
  <2> QED BY <2>2, <2>3 DEF Overlap
<1>23. \A m \in 1..MaxSequence : m > issued' => writers'[m] = NoWriter
  <2> SUFFICES ASSUME NEW m \in 1..MaxSequence, m > issued' PROVE writers'[m] = NoWriter
    OBVIOUS
  <2>1. m > issued /\ m # n
    BY <1>2, <1>3
  <2>2. writers[m] = NoWriter
    BY <2>1 DEF UploadInv, RegionInv
  <2> QED BY <1>8, <2>1, <2>2
<1>24. \A m \in OpenWriters' : m \notin executing'
  BY <1>4, <1>10 DEF UploadInv, RegionInv
<1>25. RegionInv'
  BY <1>1, <1>8, <1>11, <1>21, <1>22, <1>23, <1>24 DEF UploadInv, RegionInv
<1> QED BY <1>3, <1>19, <1>20, <1>25 DEF UploadInv

LEMMA FinishInv ==
  ASSUME UploadInv, NEW n \in 1..issued, Finish(n)
  PROVE  UploadInv'
<1> DEFINE ready == {b \in unused_resources : buffer_sequence_number[b] <= announced'}
<1>1. /\ FinishNumber(n)
      /\ unused_resources' = unused_resources \ ready
      /\ \E order \in SetToSeqs(ready) : free_buffers' = free_buffers \o order
      /\ UNCHANGED <<current_buffer, current_offset, buffer_size,
                     buffer_sequence_number, writers>>
  BY DEF Finish
<1>2. PICK order \in SetToSeqs(ready) : free_buffers' = free_buffers \o order
  BY <1>1
<1>3. CommandInv' /\ announced <= announced' /\ issued' = issued /\ executing' = executing
  BY <1>1, FinishCommandInv DEF UploadInv, FinishNumber, Sequencer!Finish
<1>4. announced \in Nat /\ announced' \in Nat
  BY <1>3 DEF UploadInv, CommandInv
<1>5. /\ free_buffers \in Seq(Buffer) /\ unused_resources \subseteq Buffer
      /\ buffer_sequence_number \in [Buffer -> Nat] /\ IsFiniteSet(unused_resources)
      /\ NoRepeats(free_buffers)
  BY DEF UploadInv, UploaderTypes, PlacesInv
<1>6. IsFiniteSet(ready) /\ IsFiniteSet(unused_resources \ ready)
  BY <1>5, FS_Subset
<1>7. ready \subseteq unused_resources /\ \A b \in unused_resources :
        b \in ready <=> buffer_sequence_number[b] <= announced'
  OBVIOUS
<1> HIDE DEF ready
<1>8. /\ order \in Seq(ready) /\ Len(order) \in Nat
      /\ \A i, j \in 1..Len(order) : order[i] = order[j] => i = j
      /\ \A x \in ready : \E i \in 1..Len(order) : order[i] = x
  BY <1>6, SetToSeqsProperties
<1>9. /\ order \in Seq(Buffer) /\ NoRepeats(order)
      /\ \A x : Lists(order, x) <=> x \in ready
  <2>1. order \in Seq(Buffer)
    BY <1>5, <1>7, <1>8, SeqMonotonic
  <2>2. \A i \in 1..Len(order) : order[i] \in ready
    BY <1>8, ElementOfSeq
  <2> QED BY <1>8, <2>1, <2>2 DEF NoRepeats, Lists
<1>10. \A x : ~(Lists(free_buffers, x) /\ Lists(order, x))
  BY <1>5, <1>7, <1>9 DEF UploadInv, PlacesInv
<1>11. /\ free_buffers' \in Seq(Buffer) /\ NoRepeats(free_buffers')
       /\ \A x : Lists(free_buffers', x) <=> Lists(free_buffers, x) \/ x \in ready
  <2>1. /\ free_buffers \o order \in Seq(Buffer)
        /\ \A x : Lists(free_buffers \o order, x) <=> Lists(free_buffers, x) \/ Lists(order, x)
        /\ NoRepeats(free_buffers) /\ NoRepeats(order)
             /\ (\A x : ~(Lists(free_buffers, x) /\ Lists(order, x)))
             => NoRepeats(free_buffers \o order)
    BY <1>5, <1>9, ConcatLists, Zenon
  <2> QED BY <1>2, <1>5, <1>9, <1>10, <2>1
<1>12. OpenWriters' = OpenWriters /\ InUse' = InUse
  BY <1>1, <1>3 DEF OpenWriters, InUse
<1>13. \A b : Held(b)' <=> Held(b)
  BY <1>1, <1>12 DEF Held
<1>14. UploaderTypes'
  BY <1>1, <1>5, <1>11 DEF UploadInv, UploaderTypes, Writer
<1>15. PlacesInv'
  <2>1. ASSUME NEW c \in Buffer
        PROVE  /\ Lists(free_buffers', c) =>
                    /\ c # current_buffer /\ ~Held(c) /\ c \notin unused_resources'
                    /\ buffer_size[c] # 0 /\ buffer_sequence_number[c] <= announced'
               /\ c \in unused_resources' =>
                    /\ c # current_buffer /\ ~Held(c)
                    /\ buffer_size[c] # 0 /\ buffer_sequence_number[c] > announced'
               /\ c = current_buffer \/ Held(c) => buffer_size[c] # 0
               /\ buffer_size[c] # 0 => \/ c = current_buffer \/ Held(c)
                                        \/ c \in unused_resources' \/ Lists(free_buffers', c)
    BY <1>1, <1>3, <1>4, <1>5, <1>7, <1>11 DEF UploadInv, PlacesInv
  <2> QED BY <1>1, <1>6, <1>11, <1>13, <2>1 DEF PlacesInv, Lists, NoRepeats
<1>16. RegionsInUseAreDisjoint'
  BY <1>1, <1>12 DEF UploadInv, RegionInv, RegionsInUseAreDisjoint, Overlap
<1>17. RegionInv'
  BY <1>1, <1>3, <1>12, <1>16 DEF UploadInv, RegionInv
<1> QED BY <1>3, <1>14, <1>15, <1>17 DEF UploadInv
------------------------------------------------------------------------------
LEMMA InitUpload == UploaderInit => UploadInv
<1> SUFFICES ASSUME UploaderInit PROVE UploadInv
  OBVIOUS
<1> USE DEF UploaderInit
<1>1. CommandInv /\ issued = 0 /\ executing = {}
  BY InitCommandInv DEF Init, Sequencer!Init
<1>2. UploaderTypes
  BY EmptySeq DEF UploaderTypes, Writer, NoWriter
<1>3. OpenWriters = {} /\ InUse = {}
  BY <1>1 DEF OpenWriters, InUse
<1>4. PlacesInv
  BY <1>3, EmptyLists, FS_EmptySet, UploaderAssumption DEF PlacesInv, Held
<1>5. RegionInv
  BY <1>1, <1>3, ZeroIsAligned DEF RegionInv, RegionsInUseAreDisjoint
<1> QED BY <1>1, <1>2, <1>4, <1>5 DEF UploadInv

(* The GPU executes the commands of a number, a Writer's or a frame's.     *)
LEMMA ExecuteInv ==
  ASSUME UploadInv, NEW n \in 1..issued, Execute(n), UNCHANGED uploaderVars
  PROVE  UploadInv'
<1>1. CommandInv' /\ announced' = announced /\ issued' = issued
  BY SubmitCommandInv DEF UploadInv, Execute
<1>2. OpenWriters' = OpenWriters /\ issued \in Nat
  BY <1>1 DEF OpenWriters, uploaderVars, UploadInv, CommandInv
<1>3. \A m \in executing' : m \in executing \/ writers[m] = NoWriter
  BY DEF Execute
<1> QED BY <1>1, <1>2, <1>3, SameRegions

LEMMA StutterInv ==
  ASSUME UploadInv, UNCHANGED allVars
  PROVE  UploadInv'
<1> USE DEF allVars, commandVars
<1>1. CommandInv' /\ issued \in Nat
  BY DEF UploadInv, CommandInv
<1>2. OpenWriters' = OpenWriters
  BY DEF OpenWriters, uploaderVars
<1> QED BY <1>1, <1>2, SameRegions

LEMMA NextUpload ==
  ASSUME UploadInv, [UploaderNext]_allVars
  PROVE  UploadInv'
<1>1. ASSUME NEW size \in Size, GetWriter(size) PROVE UploadInv'
  BY <1>1, GetWriterInv, UploaderAssumption
<1>2. ASSUME NEW n \in 1..issued, Write(n) PROVE UploadInv'
  BY <1>2, WriteInv
<1>3. ASSUME NEW n \in 1..issued, KeepAliveInOrder(n) /\ Submit(n) PROVE UploadInv'
  BY <1>3, SubmitInv
<1>4. ASSUME NEW n \in 1..issued, Finish(n) PROVE UploadInv'
  BY <1>4, FinishInv
<1>5. CASE GpuExecutes
  BY <1>5, ExecuteInv DEF GpuExecutes
<1>6. CASE UNCHANGED allVars
  BY <1>6, StutterInv
<1> QED BY <1>1, <1>2, <1>3, <1>4, <1>5, <1>6 DEF UploaderNext

LEMMA RegionsSound == UploadInv => RegionsInUseAreSound
  BY DEF UploadInv, RegionInv, RegionsInUseAreSound, RegionsInUseExist

LEMMA BuffersAccountedFor == UploadInv => StagingBuffersAccountedFor
<1> SUFFICES ASSUME UploadInv, NEW b \in Buffer
             PROVE  LET referred == b = current_buffer
                                      \/ \E n \in OpenWriters : writers[n].buffer = b
                        deferred == b \in unused_resources
                        listed   == {k \in 1..Len(free_buffers) : free_buffers[k] = b}
                    IN  IF buffer_size[b] = 0
                        THEN ~referred /\ ~deferred /\ listed = {}
                        ELSE \/ referred /\ ~deferred /\ listed = {}
                             \/ ~referred /\ deferred /\ listed = {}
                             \/ ~referred /\ ~deferred /\ \E k \in listed : listed = {k}
  BY DEF StagingBuffersAccountedFor
<1> DEFINE listed == {k \in 1..Len(free_buffers) : free_buffers[k] = b}
<1>1. ~Lists(free_buffers, b) => listed = {}
  BY DEF Lists
<1>2. Lists(free_buffers, b) => \E k \in listed : listed = {k}
  <2> SUFFICES ASSUME NEW k \in 1..Len(free_buffers), free_buffers[k] = b
               PROVE  k \in listed /\ listed \subseteq {k}
    BY DEF Lists
  <2> QED BY DEF UploadInv, PlacesInv, NoRepeats
<1>3. PlacesInv
  BY DEF UploadInv
<1> HIDE DEF listed
<1> QED BY <1>1, <1>2, <1>3 DEF PlacesInv, Held, listed

(* gpu_uploader.cc:106-150, 25-70: as long as clients submit in an order   *)
(* that KeepAlive() accepts, no two regions in use overlap, and each lies  *)
(* in memory that is there, at an aligned offset.                          *)
THEOREM UploadsAreSound == UploaderSpec => []RegionsInUseAreSound
  BY InitUpload, NextUpload, RegionsSound, PTL DEF UploaderSpec

(* gpu_uploader.cc:112-150: no staging buffer is lost and none is on the   *)
(* free list twice or while somebody uses it.                              *)
THEOREM NoStagingBufferIsLost == UploaderSpec => []StagingBuffersAccountedFor
  BY InitUpload, NextUpload, BuffersAccountedFor, PTL DEF UploaderSpec
------------------------------------------------------------------------------
(* What a call does to the numbers, as far as a MeshManager can tell.      *)
LEMMA GetWriterEffect ==
  ASSUME UploadInv, NEW size \in Nat, GetWriter(size)
  PROVE  /\ issued' = issued + 1 /\ issued' \in 1..MaxSequence
         /\ OpenWriters' = OpenWriters \cup {issued'} /\ Frames' = Frames
         /\ recording' = recording \cup {issued'} /\ executing' = executing
         /\ \A b \in Buffer : \/ buffer_sequence_number'[b] = buffer_sequence_number[b]
                             \/ buffer_sequence_number'[b] = 0
<1>1. /\ HandOut /\ PrepareForWriterOfSize(size)
      /\ writers' = [writers EXCEPT ![issued'] =
                       [buffer |-> current_buffer', size |-> size, has_writes |-> FALSE,
                        offset |-> IF FitsInCurrent(size) THEN current_offset ELSE 0,
                        open |-> TRUE]]
  BY DEF GetWriter
<1>2. /\ issued \in Nat /\ issued' = issued + 1 /\ issued' \in 1..MaxSequence
      /\ recording' = recording \cup {issued'} /\ executing' = executing
  BY <1>1, MaxSequenceAssumption DEF HandOut, Sequencer!Issue, UploadInv, CommandInv
<1>3. /\ 1..issued' = 1..issued \cup {issued'} /\ issued' \notin 1..issued
      /\ 1..issued' \subseteq 1..MaxSequence
  BY <1>2, MaxSequenceAssumption
<1>4. /\ writers'[issued'].open /\ writers'[issued'] # NoWriter
      /\ \A m \in 1..issued : writers'[m] = writers[m]
  BY <1>1, <1>2, <1>3 DEF UploadInv, UploaderTypes, NoWriter
<1>5. OpenWriters' = OpenWriters \cup {issued'} /\ Frames' = Frames
  BY <1>3, <1>4 DEF OpenWriters, Frames
<1>6. \A b \in Buffer : \/ buffer_sequence_number'[b] = buffer_sequence_number[b]
                       \/ buffer_sequence_number'[b] = 0
  <2>1. buffer_sequence_number \in [Buffer -> Nat]
    BY DEF UploadInv, UploaderTypes
  <2>2. \/ buffer_sequence_number' = buffer_sequence_number
        \/ \E b \in Buffer : buffer_sequence_number' = [buffer_sequence_number EXCEPT ![b] = 0]
    BY <1>1 DEF PrepareForWriterOfSize, ReplaceCurrent, TakeFromList, CreateBuffer
  <2> QED BY <2>1, <2>2
<1> QED BY <1>2, <1>5, <1>6

LEMMA WriteEffect ==
  ASSUME UploadInv, NEW n \in 1..issued, Write(n)
  PROVE  /\ OpenWriters' = OpenWriters /\ Frames' = Frames
         /\ UNCHANGED <<commandVars, buffer_sequence_number>>
<1>1. /\ n \in OpenWriters /\ n \in 1..MaxSequence /\ 1..issued \subseteq 1..MaxSequence
      /\ writers \in [1..MaxSequence -> Writer]
      /\ writers' = [writers EXCEPT ![n].has_writes = TRUE]
      /\ UNCHANGED <<commandVars, bufferVars>>
  BY MaxSequenceAssumption DEF Write, UploadInv, UploaderTypes, CommandInv
<1>2. \A m \in 1..issued : /\ writers'[m].open = writers[m].open
                           /\ m # n => writers'[m] = writers[m]
  BY <1>1 DEF Writer
<1>3. writers[n] # NoWriter /\ writers'[n] # NoWriter
  BY <1>1, <1>2 DEF OpenWriters, NoWriter
<1> QED BY <1>1, <1>2, <1>3 DEF OpenWriters, Frames, commandVars, bufferVars

LEMMA SubmitEffect ==
  ASSUME UploadInv, NEW n \in 1..issued, Submit(n)
  PROVE  /\ OpenWriters' = OpenWriters \ {n} /\ Frames' = Frames /\ n \notin Frames
         /\ issued' = issued
         /\ recording' \subseteq recording /\ recording \subseteq recording' \cup {n}
         /\ executing' \subseteq executing \cup {n}
         /\ n \in executing' => n \in recording \cup executing
         /\ \A b \in Buffer : \/ buffer_sequence_number'[b] = buffer_sequence_number[b]
                             \/ buffer_sequence_number'[b] = n
<1>1. /\ n \in OpenWriters /\ n \in 1..MaxSequence /\ 1..issued \subseteq 1..MaxSequence
      /\ writers \in [1..MaxSequence -> Writer]
      /\ writers' = [writers EXCEPT ![n].open = FALSE]
  BY MaxSequenceAssumption DEF Submit, UploadInv, UploaderTypes, CommandInv
<1>2. \A m \in 1..issued : /\ writers'[m].open = IF m = n THEN FALSE ELSE writers[m].open
                           /\ writers'[m].buffer = writers[m].buffer
                           /\ m # n => writers'[m] = writers[m]
  BY <1>1 DEF Writer
<1>3. writers[n] # NoWriter /\ writers'[n] # NoWriter
  <2>1. writers[n].buffer # NoBuffer
    BY <1>1, UploaderAssumption DEF UploadInv, RegionInv, InUse
  <2>2. NoWriter.buffer = NoBuffer
    BY DEF NoWriter
  <2>3. writers'[n].buffer = writers[n].buffer
    BY <1>2
  <2> QED BY <2>1, <2>2, <2>3
<1>4. /\ issued' = issued
      /\ recording' \subseteq recording /\ recording \subseteq recording' \cup {n}
      /\ executing' \subseteq executing \cup {n}
      /\ n \in executing' => n \in recording \cup executing
  <2>1. SubmitNumber(n) \/ UNCHANGED commandVars
    BY DEF Submit
  <2> QED BY <2>1 DEF SubmitNumber, commandVars
<1>5. \A b \in Buffer : \/ buffer_sequence_number'[b] = buffer_sequence_number[b]
                       \/ buffer_sequence_number'[b] = n
  <2>1. buffer_sequence_number \in [Buffer -> Nat]
    BY DEF UploadInv, UploaderTypes
  <2>2. buffer_sequence_number' =
          [buffer_sequence_number EXCEPT ![writers[n].buffer] =
             IF writers[n].has_writes THEN n ELSE buffer_sequence_number[writers[n].buffer]]
    BY DEF Submit
  <2> QED BY <2>1, <2>2
<1>6. OpenWriters' = OpenWriters \ {n}
  BY <1>1, <1>2, <1>4 DEF OpenWriters
<1>7. Frames' = Frames /\ n \notin Frames
  BY <1>2, <1>3, <1>4 DEF Frames
<1> QED BY <1>4, <1>5, <1>6, <1>7

LEMMA FinishEffect ==
  ASSUME UploadInv, NEW n \in 1..issued, Finish(n)
  PROVE  /\ OpenWriters' = OpenWriters /\ Frames' = Frames
         /\ UNCHANGED <<issued, recording, executing, buffer_sequence_number>>
<1>1. UNCHANGED <<issued, recording, executing, buffer_sequence_number, writers>>
  BY DEF Finish, FinishNumber, Sequencer!Finish
<1> QED BY <1>1 DEF OpenWriters, Frames
------------------------------------------------------------------------------
Early == {"one writer", "building", "vertices written"}
Late == {"vertices submitted", "indices written"}
Stage == {"none", "one writer", "building", "vertices written", "vertices submitted",
          "indices written", "built"}

MeshTypes ==
  /\ stage \in [Mesh -> Stage]
  /\ vertex_writer \in [Mesh -> Nat] /\ index_writer \in [Mesh -> Nat]
  /\ wait_semaphore \in [Mesh -> Nat]
  /\ waits \in [1..MaxSequence -> SUBSET Nat]
  /\ draws \in [1..MaxSequence -> SUBSET Mesh]
  /\ executed \subseteq 1..issued

(* No staging buffer has been read by a number above n. *)
ReadUpTo(n) == \A b \in Buffer : buffer_sequence_number[b] <= n

(* Nor by one above that of the Writer m submits next. *)
Orderly(m) ==
  /\ stage[m] # "none" => vertex_writer[m] \in 1..issued
  /\ stage[m] \notin {"none", "one writer"} =>
       index_writer[m] \in 1..issued /\ vertex_writer[m] < index_writer[m]
  /\ stage[m] \in Early => vertex_writer[m] \in OpenWriters /\ ReadUpTo(vertex_writer[m])
  /\ stage[m] \in {"building", "vertices written"} \cup Late => index_writer[m] \in OpenWriters
  /\ stage[m] \in Late => ReadUpTo(index_writer[m])

OrderInv ==
  /\ \A m, k \in Mesh : stage[m] \notin {"none", "built"} /\ stage[k] \notin {"none", "built"}
                       => m = k
  /\ ReadUpTo(issued)
  /\ \A m \in Mesh : Orderly(m)

(* The frames reach the GPU in the order of their numbers, and the first   *)
(* that draws a mesh waits for its vertices.                               *)
FrameOrderInv ==
  /\ executed \cap (recording \cup executing) = {}
  /\ \A n \in Frames \cap recording, f \in Frames : f <= n
  /\ \A n \in Frames \cap executed, f \in Frames \cap executing : n <= f
  /\ \A n \in executed : waits[n] \subseteq executed

(* f draws m and waits for its vertices. *)
Takes(f, m) == m \in draws[f] /\ vertex_writer[m] \in waits[f]

SemaphoreInv ==
  /\ \A n \in 1..MaxSequence : \A m \in draws[n] :
       /\ n \in Frames /\ stage[m] = "built" /\ wait_semaphore[m] = 0
       /\ \E f \in 1..n : Takes(f, m)
  /\ \A m \in Mesh :
       /\ wait_semaphore[m] # 0 =>
            stage[m] = "built" /\ wait_semaphore[m] = vertex_writer[m]
       /\ stage[m] = "built" /\ wait_semaphore[m] = 0 => \E f \in Frames : Takes(f, m)

MeshInv == UploadInv /\ MeshTypes /\ OrderInv /\ FrameOrderInv /\ SemaphoreInv

LEMMA FramesAreIssued ==
  ASSUME UploadInv
  PROVE  Frames \subseteq 1..issued /\ Frames \subseteq 1..MaxSequence
         /\ issued \in Nat /\ 1..issued \subseteq 1..MaxSequence
  BY MaxSequenceAssumption DEF UploadInv, CommandInv, Frames

LEMMA InitMesh == MeshInit => MeshInv
<1> SUFFICES ASSUME MeshInit PROVE MeshInv
  OBVIOUS
<1> USE DEF MeshInit
<1>1. UploadInv
  BY InitUpload
<1>2. /\ issued = 0 /\ recording = {} /\ executing = {}
      /\ \A b \in Buffer : buffer_sequence_number[b] = 0
  BY DEF UploaderInit, Init, Sequencer!Init
<1>3. MeshTypes
  BY DEF MeshTypes, Stage
<1>4. OrderInv
  BY <1>2 DEF OrderInv, Orderly, ReadUpTo, Early, Late
<1>5. FrameOrderInv
  BY <1>2 DEF FrameOrderInv
<1>6. SemaphoreInv
  BY DEF SemaphoreInv
<1> QED BY <1>1, <1>3, <1>4, <1>5, <1>6 DEF MeshInv

(* A step of the uploader's or of a mesh's construction leaves the frames  *)
(* and the meshes that are built alone.                                    *)
LEMMA ConstructionKeepsFrames ==
  ASSUME MeshInv, Frames' = Frames, issued' >= issued,
         \A n \in recording' : n \in recording \/ (n \notin Frames /\ n \notin executed),
         \A n \in executing' : \/ n \in executing
                               \/ n \in recording /\ n \notin Frames,
         UNCHANGED <<waits, draws, executed>>,
         \A m \in Mesh : stage[m] = "built" =>
           /\ stage'[m] = "built" /\ vertex_writer'[m] = vertex_writer[m]
           /\ wait_semaphore'[m] = wait_semaphore[m],
         \A m \in Mesh : stage[m] # "built" =>
           \/ stage'[m] # "built" /\ wait_semaphore'[m] = 0
           \/ /\ stage'[m] = "built" /\ wait_semaphore'[m] = vertex_writer'[m]
              /\ vertex_writer'[m] # 0
  PROVE  FrameOrderInv' /\ SemaphoreInv'
<1>1. FrameOrderInv /\ SemaphoreInv /\ MeshTypes
  BY DEF MeshInv
<1>2. FrameOrderInv'
  <2>1. executed' \cap (recording' \cup executing') = {}
    BY <1>1 DEF FrameOrderInv
  <2>2. \A n \in Frames' \cap recording', f \in Frames' : f <= n
    BY <1>1 DEF FrameOrderInv
  <2>3. \A n \in Frames' \cap executed', f \in Frames' \cap executing' : n <= f
    BY <1>1 DEF FrameOrderInv
  <2> QED BY <1>1, <2>1, <2>2, <2>3 DEF FrameOrderInv
<1>3. \A m \in Mesh : stage[m] = "built" => \A f : Takes(f, m) => Takes(f, m)'
  BY DEF Takes
<1>4. ASSUME NEW n \in 1..MaxSequence, NEW m \in draws'[n]
      PROVE  /\ n \in Frames' /\ stage'[m] = "built" /\ wait_semaphore'[m] = 0
             /\ \E f \in 1..n : Takes(f, m)'
  <2>1. m \in Mesh /\ m \in draws[n]
    BY <1>1 DEF MeshTypes
  <2>2. n \in Frames /\ stage[m] = "built" /\ wait_semaphore[m] = 0
        /\ \E f \in 1..n : Takes(f, m)
    BY <1>1, <2>1 DEF SemaphoreInv
  <2> QED BY <1>3, <2>1, <2>2
<1>5. ASSUME NEW m \in Mesh
      PROVE  /\ wait_semaphore'[m] # 0 =>
                  stage'[m] = "built" /\ wait_semaphore'[m] = vertex_writer'[m]
             /\ stage'[m] = "built" /\ wait_semaphore'[m] = 0 =>
                  \E f \in Frames' : Takes(f, m)'
  <2>1. CASE stage[m] = "built"
    BY <1>1, <1>3, <2>1 DEF SemaphoreInv
  <2>2. CASE stage[m] # "built"
    BY <2>2
  <2> QED BY <2>1, <2>2
<1>6. SemaphoreInv'
  BY <1>4, <1>5 DEF SemaphoreInv
<1> QED BY <1>2, <1>6
(* The construction of m does not disturb the other meshes: none of them   *)
(* is under construction.                                                  *)
LEMMA ConstructionKeepsOrder ==
  ASSUME MeshInv, NEW m \in Mesh, NEW to \in Stage,
         \/ stage[m] \notin {"none", "built"}
         \/ \A k \in Mesh : stage[k] \in {"none", "built"},
         stage' = [stage EXCEPT ![m] = to],
         \A k \in Mesh \ {m} : /\ vertex_writer'[k] = vertex_writer[k]
                               /\ index_writer'[k] = index_writer[k],
         issued' \in Nat, issued' >= issued,
         \A b \in Buffer : buffer_sequence_number'[b] <= issued',
         Orderly(m)'
  PROVE  OrderInv'
<1>1. OrderInv /\ stage \in [Mesh -> Stage] /\ issued \in Nat
  BY FramesAreIssued DEF MeshInv, MeshTypes
<1>2. \A k \in Mesh \ {m} : stage'[k] = stage[k] /\ stage[k] \in {"none", "built"}
  <2>1. \A k \in Mesh \ {m} : stage[k] \in {"none", "built"}
    BY <1>1 DEF OrderInv
  <2> QED BY <1>1, <2>1
<1>3. ASSUME NEW k \in Mesh, k # m PROVE Orderly(k)'
  <2>1. stage'[k] = stage[k] /\ stage[k] \in {"none", "built"}
    BY <1>2, <1>3
  <2>2. 1..issued \subseteq 1..issued'
    BY <1>1
  <2>3. Orderly(k)
    BY <1>1 DEF OrderInv
  <2> QED BY <1>3, <2>1, <2>2, <2>3 DEF Orderly, Early, Late
<1>4. \A k, l \in Mesh : stage'[k] \notin {"none", "built"} /\ stage'[l] \notin {"none", "built"}
                       => k = l
  BY <1>2
<1>5. ReadUpTo(issued)'
  BY DEF ReadUpTo
<1> QED BY <1>3, <1>4, <1>5 DEF OrderInv

LEMMA ReadsGrow ==
  ASSUME UploadInv, UploadInv', NEW n \in Nat, ReadUpTo(n), NEW k \in Nat, n <= k,
         \A b \in Buffer : \/ buffer_sequence_number'[b] = buffer_sequence_number[b]
                          \/ buffer_sequence_number'[b] <= k
  PROVE  \A b \in Buffer : buffer_sequence_number'[b] <= k
<1> SUFFICES ASSUME NEW b \in Buffer PROVE buffer_sequence_number'[b] <= k
  OBVIOUS
<1>1. buffer_sequence_number[b] \in Nat /\ buffer_sequence_number'[b] \in Nat
  BY DEF UploadInv, UploaderTypes
<1>2. buffer_sequence_number[b] <= n
  BY DEF ReadUpTo
<1> QED BY <1>1, <1>2

LEMMA FirstWriterMesh ==
  ASSUME MeshInv, NEW m \in Mesh, NEW size \in Size, FirstWriter(m, size)
  PROVE  MeshInv'
<1>1. /\ stage[m] = "none" /\ \A k \in Mesh : stage[k] \in {"none", "built"}
      /\ GetWriter(size) /\ stage' = [stage EXCEPT ![m] = "one writer"]
      /\ UNCHANGED <<wait_semaphore, waits, draws, executed, index_writer>>
      /\ vertex_writer' = [vertex_writer EXCEPT ![m] = issued']
  BY DEF FirstWriter, ObtainWriter, ClientTurn
<1>2. UploadInv /\ MeshTypes /\ OrderInv /\ SemaphoreInv /\ size \in Nat
  BY UploaderAssumption DEF MeshInv
<1>3. /\ issued' = issued + 1 /\ issued' \in 1..MaxSequence
      /\ OpenWriters' = OpenWriters \cup {issued'} /\ Frames' = Frames
      /\ recording' = recording \cup {issued'} /\ executing' = executing
      /\ \A b \in Buffer : \/ buffer_sequence_number'[b] = buffer_sequence_number[b]
                          \/ buffer_sequence_number'[b] = 0
  BY <1>1, <1>2, GetWriterEffect
<1>4. UploadInv' /\ issued \in Nat /\ issued' \in Nat /\ issued' >= issued
      /\ issued' \in 1..issued' /\ 1..issued \subseteq 1..issued'
  <2>1. UploadInv' /\ issued \in Nat
    BY <1>1, <1>2, GetWriterInv, FramesAreIssued
  <2> QED BY <1>3, <2>1
<1>5. \A b \in Buffer : buffer_sequence_number'[b] <= issued'
  <2>1. ReadUpTo(issued)
    BY <1>2 DEF OrderInv
  <2> QED BY <1>2, <1>3, <1>4, <2>1, ReadsGrow
<1>6. /\ stage'[m] = "one writer" /\ vertex_writer'[m] = issued'
      /\ \A k \in Mesh \ {m} : stage'[k] = stage[k] /\ vertex_writer'[k] = vertex_writer[k]
  BY <1>1, <1>2 DEF MeshTypes
<1>7. MeshTypes'
  BY <1>1, <1>2, <1>4 DEF MeshTypes, Stage
<1>8. OrderInv'
  <2>1. Orderly(m)'
    BY <1>3, <1>4, <1>5, <1>6 DEF Orderly, ReadUpTo, Early, Late
  <2>2. "one writer" \in Stage
    BY DEF Stage
  <2> QED BY <1>1, <1>4, <1>5, <1>6, <2>1, <2>2, ConstructionKeepsOrder
<1>9. FrameOrderInv' /\ SemaphoreInv'
  <2>1. issued' \notin Frames /\ issued' \notin executed
    <3>1. issued' \notin 1..issued
      BY <1>3, <1>4
    <3> QED BY <1>2, <3>1, FramesAreIssued DEF MeshTypes
  <2>2. \A k \in Mesh : stage[k] # "built" => stage'[k] # "built" /\ wait_semaphore'[k] = 0
    BY <1>1, <1>2, <1>6 DEF SemaphoreInv
  <2>3. \A k \in Mesh : stage[k] = "built" => stage'[k] = "built" /\ k # m
    BY <1>1, <1>6
  <2>4. \A n \in recording' : n \in recording \/ (n \notin Frames /\ n \notin executed)
    BY <1>3, <2>1
  <2>5. \A k \in Mesh : stage[k] = "built" =>
          /\ stage'[k] = "built" /\ vertex_writer'[k] = vertex_writer[k]
          /\ wait_semaphore'[k] = wait_semaphore[k]
    BY <1>1, <1>6, <2>3
  <2> QED BY <1>1, <1>3, <1>4, <2>2, <2>4, <2>5, ConstructionKeepsFrames
<1> QED BY <1>4, <1>7, <1>8, <1>9 DEF MeshInv

LEMMA SecondWriterMesh ==
  ASSUME MeshInv, NEW m \in Mesh, NEW size \in Size, SecondWriter(m, size)
  PROVE  MeshInv'
<1>1. UploadInv /\ MeshTypes /\ OrderInv /\ SemaphoreInv /\ size \in Nat
  BY UploaderAssumption DEF MeshInv
<1>0. stage[m] = "one writer"
  BY DEF SecondWriter, ObtainWriter
<1>2. /\ vertex_writer[m] \in 1..issued
      /\ vertex_writer[m] \in OpenWriters /\ ReadUpTo(vertex_writer[m])
  BY <1>0, <1>1 DEF OrderInv, Orderly, Early
<1>3. /\ GetWriter(size)
      /\ stage' = [stage EXCEPT ![m] = "building"]
      /\ UNCHANGED <<wait_semaphore, waits, draws, executed, vertex_writer>>
      /\ index_writer' = [index_writer EXCEPT ![m] = issued']
  <2>1. vertex_writer[m] # 0
    BY <1>1, <1>2, FramesAreIssued
  <2> QED BY <1>0, <2>1 DEF SecondWriter, ObtainWriter
<1>4. /\ issued' = issued + 1 /\ issued' \in 1..MaxSequence
      /\ OpenWriters' = OpenWriters \cup {issued'} /\ Frames' = Frames
      /\ recording' = recording \cup {issued'} /\ executing' = executing
      /\ \A b \in Buffer : \/ buffer_sequence_number'[b] = buffer_sequence_number[b]
                          \/ buffer_sequence_number'[b] = 0
  BY <1>1, <1>3, GetWriterEffect
<1>5. UploadInv' /\ issued \in Nat /\ issued' \in Nat /\ issued' >= issued
      /\ issued' \in 1..issued' /\ 1..issued \subseteq 1..issued'
  <2>1. UploadInv' /\ issued \in Nat
    BY <1>1, <1>3, GetWriterInv, FramesAreIssued
  <2> QED BY <1>4, <2>1
<1>6. \A b \in Buffer : buffer_sequence_number'[b] <= vertex_writer[m]
  <2>1. vertex_writer[m] \in Nat /\ 0 <= vertex_writer[m] /\ vertex_writer[m] <= vertex_writer[m]
    BY <1>2, <1>5
  <2>2. \A b \in Buffer : \/ buffer_sequence_number'[b] = buffer_sequence_number[b]
                         \/ buffer_sequence_number'[b] <= vertex_writer[m]
    BY <1>4, <2>1
  <2> QED BY <1>1, <1>2, <1>5, <2>1, <2>2, ReadsGrow
<1>7. /\ stage'[m] = "building" /\ index_writer'[m] = issued'
      /\ \A k \in Mesh \ {m} : stage'[k] = stage[k] /\ index_writer'[k] = index_writer[k]
  BY <1>1, <1>3 DEF MeshTypes
<1>8. MeshTypes'
  BY <1>1, <1>3, <1>5 DEF MeshTypes, Stage
<1>9. OrderInv'
  <2>1. vertex_writer[m] < issued' /\ vertex_writer[m] \in 1..issued'
    BY <1>2, <1>4, <1>5
  <2>2. Orderly(m)'
    <3>1. /\ vertex_writer'[m] = vertex_writer[m] /\ index_writer'[m] = issued'
          /\ vertex_writer[m] \in OpenWriters' /\ issued' \in OpenWriters'
      BY <1>2, <1>3, <1>4, <1>7
    <3>2. stage'[m] = "building"
      BY <1>7
    <3> QED BY <1>5, <1>6, <2>1, <3>1, <3>2 DEF Orderly, ReadUpTo, Early, Late
  <2>3. "building" \in Stage
    BY DEF Stage
  <2>4. \A b \in Buffer : buffer_sequence_number'[b] <= issued'
    <3>1. ReadUpTo(issued)
      BY <1>1 DEF OrderInv
    <3> QED BY <1>1, <1>4, <1>5, <3>1, ReadsGrow
  <2> QED BY <1>0, <1>3, <1>5, <1>7, <2>2, <2>3, <2>4, ConstructionKeepsOrder
<1>10. FrameOrderInv' /\ SemaphoreInv'
  <2>1. issued' \notin Frames /\ issued' \notin executed
    <3>1. issued' \notin 1..issued
      BY <1>4, <1>5
    <3> QED BY <1>1, <3>1, FramesAreIssued DEF MeshTypes
  <2>2. \A k \in Mesh : stage[k] # "built" => stage'[k] # "built" /\ wait_semaphore'[k] = 0
    BY <1>1, <1>3, <1>7 DEF SemaphoreInv
  <2>3. \A k \in Mesh : stage[k] = "built" => stage'[k] = "built"
    BY <1>0, <1>7
  <2>4. \A n \in recording' : n \in recording \/ (n \notin Frames /\ n \notin executed)
    BY <1>4, <2>1
  <2> QED BY <1>3, <1>4, <1>5, <2>2, <2>3, <2>4, ConstructionKeepsFrames
<1> QED BY <1>5, <1>8, <1>9, <1>10 DEF MeshInv

(* WriteVertices() and WriteIndices(). *)
LEMMA WriteMesh ==
  ASSUME MeshInv, NEW m \in Mesh, WriteVertices(m) \/ WriteIndices(m)
  PROVE  MeshInv'
<1>1. UploadInv /\ MeshTypes /\ OrderInv /\ SemaphoreInv /\ Orderly(m)
  BY DEF MeshInv, OrderInv
<1>2. UNCHANGED <<vertex_writer, index_writer, waits, draws, executed, wait_semaphore>>
  BY DEF WriteVertices, WriteIndices, BuildStep
<1>3. \/ /\ stage[m] = "building" /\ stage' = [stage EXCEPT ![m] = "vertices written"]
         /\ Write(vertex_writer[m]) /\ vertex_writer[m] \in 1..issued
      \/ /\ stage[m] = "vertices submitted"
         /\ stage' = [stage EXCEPT ![m] = "indices written"]
         /\ Write(index_writer[m]) /\ index_writer[m] \in 1..issued
  BY <1>1 DEF WriteVertices, WriteIndices, BuildStep, Orderly
<1>4. PICK n \in 1..issued : Write(n)
  BY <1>3
<1>5. /\ UploadInv' /\ OpenWriters' = OpenWriters /\ Frames' = Frames
      /\ UNCHANGED <<commandVars, buffer_sequence_number>>
  BY <1>1, <1>4, WriteInv, WriteEffect
<1>6. /\ issued' = issued /\ recording' = recording /\ executing' = executing
      /\ buffer_sequence_number' = buffer_sequence_number
  BY <1>5 DEF commandVars
<1>7. PICK to \in Stage \ {"none", "built"} : stage' = [stage EXCEPT ![m] = to]
  BY <1>3 DEF Stage
<1>8. stage[m] \notin {"none", "built"} /\ stage'[m] = to
      /\ \A k \in Mesh : stage[k] = "built" => stage'[k] = "built"
  BY <1>1, <1>2, <1>3, <1>7 DEF MeshTypes
<1>8a. \A k \in Mesh : stage[k] # "built" => stage'[k] # "built"
  BY <1>1, <1>3 DEF MeshTypes
<1>9. MeshTypes'
  BY <1>1, <1>2, <1>6, <1>7 DEF MeshTypes
<1>10. OrderInv'
  <2>1. Orderly(m)'
    BY <1>1, <1>2, <1>3, <1>5, <1>6 DEF Orderly, ReadUpTo, Early, Late, MeshTypes
  <2>2. \A b \in Buffer : buffer_sequence_number'[b] <= issued'
    BY <1>1, <1>6 DEF OrderInv, ReadUpTo
  <2>3. issued' \in Nat /\ issued' >= issued
    BY <1>1, <1>6, FramesAreIssued
  <2> QED BY <1>2, <1>7, <1>8, <2>1, <2>2, <2>3, ConstructionKeepsOrder
<1>11. FrameOrderInv' /\ SemaphoreInv'
  <2>1. issued' >= issued
    BY <1>1, <1>6, FramesAreIssued
  <2>2. /\ \A k \in recording' : k \in recording
        /\ \A k \in executing' : k \in executing
    BY <1>6
  <2>3. \A k \in Mesh : stage[k] = "built" =>
          /\ stage'[k] = "built" /\ vertex_writer'[k] = vertex_writer[k]
          /\ wait_semaphore'[k] = wait_semaphore[k]
    BY <1>2, <1>8
  <2>4. \A k \in Mesh : stage[k] # "built" => stage'[k] # "built" /\ wait_semaphore'[k] = 0
    <3>1. \A k \in Mesh : stage[k] # "built" => wait_semaphore'[k] = 0
      BY <1>1, <1>2 DEF SemaphoreInv
    <3>2. \A k \in Mesh : stage[k] # "built" => stage'[k] # "built"
      BY <1>8a
    <3> QED BY <3>1, <3>2
  <2>5. Frames' = Frames /\ UNCHANGED <<waits, draws, executed>>
    BY <1>2, <1>5
  <2> QED BY <2>1, <2>2, <2>3, <2>4, <2>5, ConstructionKeepsFrames
<1> QED BY <1>5, <1>9, <1>10, <1>11 DEF MeshInv

(* KeepAlive() accepts what Build() submits. *)
LEMMA BuildInOrder ==
  ASSUME MeshInv, NEW m \in Mesh
  PROVE  /\ stage[m] = "vertices written" =>
              vertex_writer[m] \in 1..issued /\ KeepAliveInOrder(vertex_writer[m])
         /\ stage[m] = "indices written" =>
              index_writer[m] \in 1..issued /\ KeepAliveInOrder(index_writer[m])
<1>1. Orderly(m)
  BY DEF MeshInv, OrderInv
<1>2. \A n \in OpenWriters : writers[n].buffer \in Buffer
  BY DEF MeshInv, UploadInv, RegionInv, InUse
<1>3. \A n \in OpenWriters : ReadUpTo(n) => KeepAliveInOrder(n)
  BY <1>2 DEF ReadUpTo, KeepAliveInOrder
<1> QED BY <1>1, <1>3 DEF Orderly, Early, Late

LEMMA SubmitVerticesMesh ==
  ASSUME MeshInv, NEW m \in Mesh, SubmitVertices(m)
  PROVE  MeshInv'
<1>1. UploadInv /\ MeshTypes /\ OrderInv /\ FrameOrderInv /\ SemaphoreInv
  BY DEF MeshInv
<1>2. /\ stage[m] = "vertices written"
      /\ stage' = [stage EXCEPT ![m] = "vertices submitted"]
      /\ UNCHANGED <<vertex_writer, index_writer, waits, draws, executed, wait_semaphore>>
      /\ Submit(vertex_writer[m])
  BY DEF SubmitVertices, BuildStep
<1>3. PICK n : n = vertex_writer[m]
  OBVIOUS
<1>4. /\ n \in 1..issued /\ KeepAliveInOrder(n)
      /\ index_writer[m] \in 1..issued /\ n < index_writer[m]
      /\ index_writer[m] \in OpenWriters /\ ReadUpTo(n)
  BY <1>1, <1>2, <1>3, BuildInOrder DEF OrderInv, Orderly, Early
<1>5. UploadInv'
  BY <1>1, <1>2, <1>3, <1>4, SubmitInv
<1>6. /\ OpenWriters' = OpenWriters \ {n} /\ Frames' = Frames /\ n \notin Frames
      /\ issued' = issued /\ recording' \subseteq recording
      /\ executing' \subseteq executing \cup {n}
      /\ n \in executing' => n \in recording \cup executing
      /\ \A b \in Buffer : \/ buffer_sequence_number'[b] = buffer_sequence_number[b]
                          \/ buffer_sequence_number'[b] = n
  BY <1>1, <1>2, <1>3, <1>4, SubmitEffect
<1>7. issued \in Nat /\ issued' >= issued
  BY <1>1, <1>6, FramesAreIssued
<1>8. /\ \A b \in Buffer : buffer_sequence_number'[b] <= index_writer[m]
      /\ \A b \in Buffer : buffer_sequence_number'[b] <= issued'
  <2>1. n \in Nat /\ index_writer[m] \in Nat /\ n <= index_writer[m] /\ n <= issued
    BY <1>4, <1>7
  <2>2. \A b \in Buffer : \/ buffer_sequence_number'[b] = buffer_sequence_number[b]
                         \/ buffer_sequence_number'[b] <= index_writer[m]
    BY <1>6, <2>1
  <2>3. \A b \in Buffer : \/ buffer_sequence_number'[b] = buffer_sequence_number[b]
                         \/ buffer_sequence_number'[b] <= issued
    BY <1>6, <2>1
  <2>4. \A b \in Buffer : buffer_sequence_number'[b] <= index_writer[m]
    BY <1>1, <1>4, <1>5, <2>1, <2>2, ReadsGrow
  <2>5. \A b \in Buffer : buffer_sequence_number'[b] <= issued
    BY <1>1, <1>4, <1>5, <1>7, <2>1, <2>3, ReadsGrow
  <2> QED BY <1>6, <2>4, <2>5
<1>9. /\ stage'[m] = "vertices submitted"
      /\ \A k \in Mesh \ {m} : stage'[k] = stage[k]
  BY <1>1, <1>2 DEF MeshTypes
<1>10. MeshTypes'
  BY <1>1, <1>2, <1>6 DEF MeshTypes, Stage
<1>11. OrderInv'
  <2>1. index_writer'[m] = index_writer[m] /\ vertex_writer'[m] = n
        /\ n < index_writer[m] /\ n # index_writer[m]
    <3>1. n # index_writer[m]
      BY <1>4, <1>7
    <3> QED BY <1>2, <1>3, <1>4, <3>1
  <2>2. Orderly(m)'
    BY <1>4, <1>6, <1>8, <1>9, <2>1 DEF Orderly, ReadUpTo, Early, Late
  <2>3. "vertices submitted" \in Stage
    BY DEF Stage
  <2> QED BY <1>2, <1>6, <1>7, <1>8, <2>2, <2>3, ConstructionKeepsOrder
<1>12. FrameOrderInv' /\ SemaphoreInv'
  <2>1. \A k \in Mesh : stage[k] # "built" => stage'[k] # "built" /\ wait_semaphore'[k] = 0
    BY <1>1, <1>2, <1>9 DEF SemaphoreInv
  <2>2. \A k \in Mesh : stage[k] = "built" => stage'[k] = "built"
    BY <1>2, <1>9
  <2>3. \A k \in executing' : k \in executing \/ (k \in recording /\ k \notin Frames)
    BY <1>6
  <2> QED BY <1>2, <1>6, <1>7, <2>1, <2>2, <2>3, ConstructionKeepsFrames
<1> QED BY <1>5, <1>10, <1>11, <1>12 DEF MeshInv

LEMMA SubmitIndicesMesh ==
  ASSUME MeshInv, NEW m \in Mesh, SubmitIndices(m)
  PROVE  MeshInv'
<1>1. UploadInv /\ MeshTypes /\ OrderInv /\ FrameOrderInv /\ SemaphoreInv
  BY DEF MeshInv
<1>2. /\ stage[m] = "indices written"
      /\ stage' = [stage EXCEPT ![m] = "built"]
      /\ UNCHANGED <<vertex_writer, index_writer, waits, draws, executed>>
      /\ wait_semaphore' = [wait_semaphore EXCEPT ![m] = vertex_writer[m]]
      /\ Submit(index_writer[m])
  BY DEF SubmitIndices, BuildStep
<1>3. PICK n : n = index_writer[m]
  OBVIOUS
<1>4. /\ n \in 1..issued /\ KeepAliveInOrder(n)
      /\ vertex_writer[m] \in 1..issued /\ vertex_writer[m] < n
  BY <1>1, <1>2, <1>3, BuildInOrder DEF OrderInv, Orderly
<1>5. UploadInv'
  BY <1>1, <1>2, <1>3, <1>4, SubmitInv
<1>6. /\ OpenWriters' = OpenWriters \ {n} /\ Frames' = Frames /\ n \notin Frames
      /\ issued' = issued /\ recording' \subseteq recording
      /\ executing' \subseteq executing \cup {n}
      /\ n \in executing' => n \in recording \cup executing
      /\ \A b \in Buffer : \/ buffer_sequence_number'[b] = buffer_sequence_number[b]
                          \/ buffer_sequence_number'[b] = n
  BY <1>1, <1>2, <1>3, <1>4, SubmitEffect
<1>7. issued \in Nat /\ issued' >= issued /\ vertex_writer[m] # 0
  BY <1>1, <1>4, <1>6, FramesAreIssued
<1>8. \A b \in Buffer : buffer_sequence_number'[b] <= issued'
  <2>1. n <= issued
    BY <1>4, <1>7
  <2>2. \A b \in Buffer : \/ buffer_sequence_number'[b] = buffer_sequence_number[b]
                         \/ buffer_sequence_number'[b] <= issued
    BY <1>6, <2>1
  <2>3. ReadUpTo(issued) /\ issued <= issued
    BY <1>1, <1>7 DEF OrderInv
  <2> QED BY <1>1, <1>5, <1>6, <1>7, <2>2, <2>3, ReadsGrow
<1>9. /\ stage'[m] = "built" /\ wait_semaphore'[m] = vertex_writer[m]
      /\ \A k \in Mesh \ {m} : stage'[k] = stage[k] /\ wait_semaphore'[k] = wait_semaphore[k]
  BY <1>1, <1>2 DEF MeshTypes
<1>10. MeshTypes'
  BY <1>1, <1>2, <1>6 DEF MeshTypes, Stage
<1>11. OrderInv'
  <2>1. index_writer'[m] = n /\ vertex_writer'[m] = vertex_writer[m]
    BY <1>2, <1>3
  <2>2. Orderly(m)'
    BY <1>4, <1>6, <1>9, <2>1 DEF Orderly, Early, Late
  <2>3. "built" \in Stage
    BY DEF Stage
  <2> QED BY <1>2, <1>6, <1>7, <1>8, <2>2, <2>3, ConstructionKeepsOrder
<1>12. FrameOrderInv' /\ SemaphoreInv'
  <2>1. \A k \in Mesh : stage[k] # "built" =>
          \/ stage'[k] # "built" /\ wait_semaphore'[k] = 0
          \/ /\ stage'[k] = "built" /\ wait_semaphore'[k] = vertex_writer'[k]
             /\ vertex_writer'[k] # 0
    <3>1. \A k \in Mesh \ {m} : stage[k] # "built" => wait_semaphore[k] = 0
      BY <1>1 DEF SemaphoreInv
    <3> QED BY <1>2, <1>7, <1>9, <3>1
  <2>2. \A k \in Mesh : stage[k] = "built" =>
          stage'[k] = "built" /\ wait_semaphore'[k] = wait_semaphore[k]
    BY <1>2, <1>9
  <2>3. \A k \in executing' : k \in executing \/ (k \in recording /\ k \notin Frames)
    BY <1>6
  <2> QED BY <1>2, <1>6, <1>7, <2>1, <2>2, <2>3, ConstructionKeepsFrames
<1> QED BY <1>5, <1>10, <1>11, <1>12 DEF MeshInv
------------------------------------------------------------------------------
(* A frame's step leaves the meshes under construction alone.              *)
LEMMA FrameKeepsOrder ==
  ASSUME MeshInv, UNCHANGED <<stage, vertex_writer, index_writer, buffer_sequence_number>>,
         OpenWriters' = OpenWriters, issued' \in Nat, issued' >= issued
  PROVE  OrderInv'
<1>1. OrderInv /\ issued \in Nat /\ UploadInv
  BY FramesAreIssued DEF MeshInv
<1>2. ASSUME NEW m \in Mesh PROVE Orderly(m)'
  <2>1. Orderly(m) /\ 1..issued \subseteq 1..issued'
    BY <1>1 DEF OrderInv
  <2> QED BY <2>1 DEF Orderly, ReadUpTo
<1>3. ReadUpTo(issued)'
  <2> SUFFICES ASSUME NEW b \in Buffer PROVE buffer_sequence_number[b] <= issued'
    BY DEF ReadUpTo
  <2>1. buffer_sequence_number[b] <= issued /\ buffer_sequence_number[b] \in Nat
    BY <1>1 DEF OrderInv, ReadUpTo, UploadInv, UploaderTypes
  <2> QED BY <1>1, <2>1
<1> QED BY <1>1, <1>2, <1>3 DEF OrderInv

LEMMA BeginFrameMesh ==
  ASSUME MeshInv, BeginFrame
  PROVE  MeshInv'
<1>1. UploadInv /\ CommandInv /\ MeshTypes /\ FrameOrderInv /\ SemaphoreInv
  BY DEF MeshInv, UploadInv
<1>2. /\ HandOut /\ Frames \cap recording = {}
      /\ UNCHANGED <<stage, vertex_writer, index_writer, wait_semaphore, waits, draws,
                     executed>>
      /\ UNCHANGED uploaderVars /\ UNCHANGED <<writers, buffer_sequence_number>>
  BY DEF BeginFrame, meshVars, uploaderVars, bufferVars
<1>3. CommandInv' /\ announced' = announced
  BY <1>1, <1>2, HandOutCommandInv
<1>4. /\ issued' = issued + 1 /\ issued' \in 1..MaxSequence /\ issued \in Nat
      /\ recording' = recording \cup {issued'} /\ executing' = executing
  BY <1>1, <1>2, MaxSequenceAssumption DEF HandOut, Sequencer!Issue, CommandInv
<1>5. /\ 1..issued' = 1..issued \cup {issued'} /\ issued' \notin 1..issued
      /\ issued' \in Nat /\ issued' >= issued
  BY <1>4
<1>6. writers[issued'] = NoWriter
  BY <1>1, <1>4 DEF UploadInv, RegionInv
<1>7. /\ OpenWriters' = OpenWriters /\ Frames' = Frames \cup {issued'}
      /\ Frames \subseteq 1..issued
  BY <1>2, <1>5, <1>6 DEF OpenWriters, Frames, NoWriter
<1>8. UploadInv'
  BY <1>1, <1>2, <1>3, <1>4, <1>5, <1>7, SameRegions
<1>9. MeshTypes'
  BY <1>1, <1>2, <1>5 DEF MeshTypes
<1>10. OrderInv'
  BY <1>2, <1>5, <1>7, FrameKeepsOrder
<1>11. FrameOrderInv'
  <2>1. issued' \notin executed /\ issued' \notin executing
    BY <1>1, <1>5 DEF MeshTypes, CommandInv
  <2>2. \A f \in Frames' : f <= issued'
    BY <1>4, <1>7
  <2>3. Frames' \cap recording' = {issued'}
    BY <1>2, <1>4, <1>7
  <2>4. \A n \in Frames' \cap executed', f \in Frames' \cap executing' : n <= f
    BY <1>1, <1>2, <1>4, <1>7, <2>1 DEF FrameOrderInv
  <2>5. executed' \cap (recording' \cup executing') = {}
    BY <1>1, <1>2, <1>4, <2>1 DEF FrameOrderInv
  <2> QED BY <1>1, <1>2, <2>2, <2>3, <2>4, <2>5 DEF FrameOrderInv
<1>12. SemaphoreInv'
  BY <1>1, <1>2, <1>7 DEF SemaphoreInv, Takes
<1> QED BY <1>8, <1>9, <1>10, <1>11, <1>12 DEF MeshInv

LEMMA EndFrameMesh ==
  ASSUME MeshInv, NEW n \in 1..issued, EndFrame(n)
  PROVE  MeshInv'
<1>1. UploadInv /\ CommandInv /\ MeshTypes /\ FrameOrderInv /\ SemaphoreInv
  BY DEF MeshInv, UploadInv
<1>2. /\ n \in Frames /\ SubmitNumber(n)
      /\ UNCHANGED <<stage, vertex_writer, index_writer, wait_semaphore, waits, draws,
                     executed>>
      /\ UNCHANGED uploaderVars /\ UNCHANGED <<writers, buffer_sequence_number>>
  BY DEF EndFrame, meshVars, uploaderVars, bufferVars
<1>3. CommandInv' /\ announced' = announced
  BY <1>1, <1>2, SubmitCommandInv
<1>4. /\ issued' = issued /\ n \in recording /\ recording' = recording \ {n}
      /\ executing' \subseteq executing \cup {n} /\ writers[n] = NoWriter
  BY <1>2 DEF SubmitNumber, Frames
<1>5. OpenWriters' = OpenWriters /\ Frames' = Frames
  BY <1>2, <1>4 DEF OpenWriters, Frames
<1>6. issued' \in Nat /\ issued' >= issued
  BY <1>1, <1>4, FramesAreIssued
<1>7. UploadInv'
  BY <1>1, <1>2, <1>3, <1>4, <1>5, <1>6, SameRegions
<1>8. MeshTypes'
  BY <1>1, <1>2, <1>4 DEF MeshTypes
<1>9. OrderInv'
  BY <1>2, <1>5, <1>6, FrameKeepsOrder
<1>10. FrameOrderInv'
  <2>1. \A f \in Frames : f <= n
    BY <1>1, <1>2, <1>4 DEF FrameOrderInv
  <2>2. \A k \in Frames' \cap executed', f \in Frames' \cap executing' : k <= f
    BY <1>1, <1>2, <1>4, <1>5, <2>1 DEF FrameOrderInv
  <2>3. executed' \cap (recording' \cup executing') = {}
    BY <1>1, <1>2, <1>4 DEF FrameOrderInv
  <2> QED BY <1>1, <1>2, <1>4, <1>5, <2>2, <2>3 DEF FrameOrderInv
<1>11. SemaphoreInv'
  BY <1>1, <1>2, <1>5 DEF SemaphoreInv, Takes
<1> QED BY <1>7, <1>8, <1>9, <1>10, <1>11 DEF MeshInv

LEMMA ExecuteMesh ==
  ASSUME MeshInv, NEW n \in 1..issued, GpuExecutesMesh(n)
  PROVE  MeshInv'
<1>1. UploadInv /\ CommandInv /\ MeshTypes /\ FrameOrderInv /\ SemaphoreInv
  BY DEF MeshInv, UploadInv
<1>2. /\ Execute(n) /\ waits[n] \subseteq executed
      /\ n \in Frames => \A f \in Frames \cap executing : n <= f
      /\ executed' = executed \cup {n}
      /\ UNCHANGED <<stage, vertex_writer, index_writer, wait_semaphore, waits, draws>>
      /\ UNCHANGED uploaderVars /\ UNCHANGED <<writers, buffer_sequence_number>>
  BY DEF GpuExecutesMesh, uploaderVars, bufferVars
<1>3. /\ n \in executing /\ executing' = executing \ {n}
      /\ UNCHANGED <<issued, finished, announced, recording>>
  BY <1>2 DEF Execute
<1>4. UploadInv'
  BY <1>1, <1>2, ExecuteInv
<1>5. OpenWriters' = OpenWriters /\ Frames' = Frames
  BY <1>2, <1>3 DEF OpenWriters, Frames
<1>6. issued' \in Nat /\ issued' >= issued
  BY <1>1, <1>3, FramesAreIssued
<1>7. MeshTypes'
  BY <1>1, <1>2, <1>3 DEF MeshTypes
<1>8. OrderInv'
  BY <1>2, <1>5, <1>6, FrameKeepsOrder
<1>9. FrameOrderInv'
  <2>1. executed' \cap (recording' \cup executing') = {}
    BY <1>1, <1>2, <1>3 DEF FrameOrderInv, CommandInv
  <2>2. \A k \in Frames' \cap executed', f \in Frames' \cap executing' : k <= f
    BY <1>1, <1>2, <1>3, <1>5 DEF FrameOrderInv
  <2>3. \A k \in executed' : waits'[k] \subseteq executed'
    BY <1>1, <1>2 DEF FrameOrderInv
  <2> QED BY <1>1, <1>3, <1>5, <2>1, <2>2, <2>3 DEF FrameOrderInv
<1>10. SemaphoreInv'
  BY <1>1, <1>2, <1>5 DEF SemaphoreInv, Takes
<1> QED BY <1>4, <1>7, <1>8, <1>9, <1>10 DEF MeshInv

(* The first frame that draws a mesh takes the semaphore, a later one      *)
(* finds that it has been taken by a frame before it.                      *)
LEMMA DrawMeshMesh ==
  ASSUME MeshInv, NEW n \in 1..issued, NEW m \in Mesh, DrawMesh(n, m)
  PROVE  MeshInv'
<1>1. UploadInv /\ MeshTypes /\ FrameOrderInv /\ SemaphoreInv
  BY DEF MeshInv
<1>2. /\ n \in Frames /\ n \in recording /\ stage[m] = "built"
      /\ draws' = [draws EXCEPT ![n] = @ \cup {m}]
      /\ waits' = [waits EXCEPT ![n] = @ \cup ({wait_semaphore[m]} \ {0})]
      /\ wait_semaphore' = [wait_semaphore EXCEPT ![m] = 0]
      /\ UNCHANGED <<commandVars, uploaderVars, stage, vertex_writer, index_writer,
                     executed>>
  BY DEF DrawMesh
<1>3. /\ UNCHANGED <<issued, recording, executing, announced>>
      /\ UNCHANGED <<writers, buffer_sequence_number>> /\ UNCHANGED allVars
  BY <1>2 DEF commandVars, uploaderVars, bufferVars, allVars
<1>4. UploadInv'
  BY <1>1, <1>3, StutterInv
<1>5. OpenWriters' = OpenWriters /\ Frames' = Frames /\ n \in 1..MaxSequence
      /\ issued' \in Nat /\ issued' >= issued
  BY <1>1, <1>2, <1>3, FramesAreIssued DEF OpenWriters, Frames
<1>6. /\ draws'[n] = draws[n] \cup {m} /\ waits'[n] = waits[n] \cup ({wait_semaphore[m]} \ {0})
      /\ wait_semaphore'[m] = 0
      /\ \A k \in 1..MaxSequence \ {n} : draws'[k] = draws[k] /\ waits'[k] = waits[k]
      /\ \A l \in Mesh \ {m} : wait_semaphore'[l] = wait_semaphore[l]
  BY <1>1, <1>2, <1>5 DEF MeshTypes
<1>7. MeshTypes'
  BY <1>1, <1>2, <1>3 DEF MeshTypes
<1>8. OrderInv'
  BY <1>2, <1>3, <1>5, FrameKeepsOrder
<1>9. FrameOrderInv'
  <2>1. executed \subseteq 1..MaxSequence /\ n \notin executed
    BY <1>1, <1>2, FramesAreIssued DEF MeshTypes, FrameOrderInv
  <2>2. \A k \in executed' : waits'[k] \subseteq executed'
    BY <1>1, <1>2, <1>6, <2>1 DEF FrameOrderInv
  <2> QED BY <1>1, <1>2, <1>3, <1>5, <2>2 DEF FrameOrderInv
<1>10. \A f \in 1..MaxSequence, l \in Mesh : Takes(f, l) => Takes(f, l)'
  BY <1>2, <1>6 DEF Takes
<1>11. \E f \in Frames : f \in 1..n /\ Takes(f, m)'
  <2>1. CASE wait_semaphore[m] # 0
    <3>1. wait_semaphore[m] = vertex_writer[m]
      BY <1>1, <2>1 DEF SemaphoreInv
    <3>2. Takes(n, m)'
      BY <1>2, <1>6, <2>1, <3>1 DEF Takes
    <3>3. n \in 1..n
      BY <1>5
    <3> QED BY <1>2, <3>2, <3>3
  <2>2. CASE wait_semaphore[m] = 0
    <3>1. PICK f \in Frames : Takes(f, m)
      BY <1>1, <1>2, <2>2 DEF SemaphoreInv
    <3>2. f <= n
      BY <1>1, <1>2 DEF FrameOrderInv
    <3>3. f \in 1..n /\ f \in 1..MaxSequence
      BY <1>1, <1>5, <3>2, FramesAreIssued
    <3> QED BY <1>10, <3>1, <3>3
  <2> QED BY <2>1, <2>2
<1>12. ASSUME NEW k \in 1..MaxSequence, NEW l \in draws'[k]
       PROVE  /\ k \in Frames' /\ stage'[l] = "built" /\ wait_semaphore'[l] = 0
              /\ \E f \in 1..k : Takes(f, l)'
  <2>1. CASE k = n /\ l = m
    BY <1>2, <1>5, <1>6, <1>11, <2>1
  <2>2. CASE ~(k = n /\ l = m)
    <3>1. l \in draws[k] /\ l \in Mesh
      <4>1. l \in draws[k]
        <5>1. CASE k = n
          BY <1>6, <2>2, <5>1
        <5>2. CASE k # n
          BY <1>6, <5>2
        <5> QED BY <5>1, <5>2
      <4> QED BY <1>1, <4>1 DEF MeshTypes
    <3>2. k \in Frames /\ stage[l] = "built" /\ wait_semaphore[l] = 0
      BY <1>1, <3>1 DEF SemaphoreInv
    <3>3. PICK f \in 1..k : Takes(f, l)
      BY <1>1, <3>1 DEF SemaphoreInv
    <3>4. f \in 1..MaxSequence
      BY MaxSequenceAssumption
    <3>5. wait_semaphore'[l] = 0
      BY <1>6, <3>1, <3>2
    <3> QED BY <1>2, <1>5, <1>10, <3>1, <3>2, <3>3, <3>4, <3>5
  <2> QED BY <2>1, <2>2
<1>13. ASSUME NEW l \in Mesh
       PROVE  /\ wait_semaphore'[l] # 0 =>
                   stage'[l] = "built" /\ wait_semaphore'[l] = vertex_writer'[l]
              /\ stage'[l] = "built" /\ wait_semaphore'[l] = 0 =>
                   \E f \in Frames' : Takes(f, l)'
  <2>1. CASE l = m
    BY <1>5, <1>6, <1>11, <2>1
  <2>2. CASE l # m
    <3>1. wait_semaphore'[l] = wait_semaphore[l]
      BY <1>6, <2>2
    <3>2. Frames \subseteq 1..MaxSequence
      BY <1>1, FramesAreIssued
    <3> QED BY <1>1, <1>2, <1>5, <1>10, <3>1, <3>2 DEF SemaphoreInv
  <2> QED BY <2>1, <2>2
<1>14. SemaphoreInv'
  BY <1>12, <1>13 DEF SemaphoreInv
<1> QED BY <1>4, <1>7, <1>8, <1>9, <1>14 DEF MeshInv

LEMMA FinishMesh ==
  ASSUME MeshInv, NEW n \in 1..issued, Finish(n), UNCHANGED meshVars
  PROVE  MeshInv'
<1> USE DEF meshVars
<1>1. UploadInv /\ MeshTypes /\ FrameOrderInv /\ SemaphoreInv
  BY DEF MeshInv
<1>2. /\ OpenWriters' = OpenWriters /\ Frames' = Frames
      /\ UNCHANGED <<issued, recording, executing, buffer_sequence_number>>
  BY <1>1, FinishEffect
<1>3. UploadInv' /\ issued' \in Nat /\ issued' >= issued
  BY <1>1, <1>2, FinishInv, FramesAreIssued
<1>4. MeshTypes'
  BY <1>1, <1>2 DEF MeshTypes
<1>5. OrderInv'
  BY <1>2, <1>3, FrameKeepsOrder
<1>6. FrameOrderInv'
  BY <1>1, <1>2 DEF FrameOrderInv
<1>7. SemaphoreInv'
  BY <1>1, <1>2 DEF SemaphoreInv, Takes
<1> QED BY <1>3, <1>4, <1>5, <1>6, <1>7 DEF MeshInv

LEMMA StutterMesh ==
  ASSUME MeshInv, UNCHANGED <<allVars, meshVars>>
  PROVE  MeshInv'
<1>1. UNCHANGED <<issued, recording, executing, writers, buffer_sequence_number>>
      /\ UNCHANGED allVars
  BY DEF allVars, commandVars, uploaderVars, bufferVars
<1> USE DEF meshVars
<1>2. UploadInv /\ MeshTypes /\ FrameOrderInv /\ SemaphoreInv
  BY DEF MeshInv
<1>3. OpenWriters' = OpenWriters /\ Frames' = Frames
  BY <1>1 DEF OpenWriters, Frames
<1>4. UploadInv' /\ issued' \in Nat /\ issued' >= issued
  BY <1>1, <1>2, StutterInv, FramesAreIssued
<1>5. MeshTypes'
  BY <1>1, <1>2 DEF MeshTypes
<1>6. OrderInv'
  BY <1>1, <1>3, <1>4, FrameKeepsOrder
<1>7. FrameOrderInv'
  BY <1>1, <1>2, <1>3 DEF FrameOrderInv
<1>8. SemaphoreInv'
  BY <1>2, <1>3 DEF SemaphoreInv, Takes
<1> QED BY <1>4, <1>5, <1>6, <1>7, <1>8 DEF MeshInv

LEMMA NextMesh ==
  ASSUME MeshInv, [MeshNext]_<<allVars, meshVars>>
  PROVE  MeshInv'
<1>1. ASSUME NEW m \in Mesh, NEW size \in Size, FirstWriter(m, size) PROVE MeshInv'
  BY <1>1, FirstWriterMesh
<1>2. ASSUME NEW m \in Mesh, NEW size \in Size, SecondWriter(m, size) PROVE MeshInv'
  BY <1>2, SecondWriterMesh
<1>3. ASSUME NEW m \in Mesh, WriteVertices(m) \/ WriteIndices(m) PROVE MeshInv'
  BY <1>3, WriteMesh
<1>4. ASSUME NEW m \in Mesh, SubmitVertices(m) PROVE MeshInv'
  BY <1>4, SubmitVerticesMesh
<1>5. ASSUME NEW m \in Mesh, SubmitIndices(m) PROVE MeshInv'
  BY <1>5, SubmitIndicesMesh
<1>6. CASE BeginFrame
  BY <1>6, BeginFrameMesh
<1>7. ASSUME NEW n \in 1..issued, EndFrame(n) PROVE MeshInv'
  BY <1>7, EndFrameMesh
<1>8. ASSUME NEW n \in 1..issued, GpuExecutesMesh(n) PROVE MeshInv'
  BY <1>8, ExecuteMesh
<1>9. ASSUME NEW n \in 1..issued, Finish(n) /\ UNCHANGED meshVars PROVE MeshInv'
  BY <1>9, FinishMesh
<1>10. ASSUME NEW n \in 1..issued, NEW m \in Mesh, DrawMesh(n, m) PROVE MeshInv'
  BY <1>10, DrawMeshMesh
<1>11. CASE UNCHANGED <<allVars, meshVars>>
  BY <1>11, StutterMesh
<1> QED BY <1>1, <1>2, <1>3, <1>4, <1>5, <1>6, <1>7, <1>8, <1>9, <1>10, <1>11 DEF MeshNext

LEMMA BuildsInOrder == MeshInv => BuildKeepsOrder
  BY BuildInOrder DEF BuildKeepsOrder

LEMMA VerticesInTime == MeshInv => VerticesArriveBeforeDraw
<1> SUFFICES ASSUME MeshInv, NEW n \in executed, NEW m \in draws[n],
                    vertex_writer[m] \notin executed
             PROVE  \E f \in Frames \ (recording \cup executing \cup executed) :
                      f < n /\ m \in draws[f]
  BY DEF VerticesArriveBeforeDraw
<1>1. UploadInv /\ MeshTypes /\ FrameOrderInv /\ SemaphoreInv
  BY DEF MeshInv
<1>2. n \in 1..MaxSequence /\ m \in Mesh
  BY <1>1, FramesAreIssued DEF MeshTypes
<1>3. n \in Frames /\ \E f \in 1..n : Takes(f, m)
  BY <1>1, <1>2 DEF SemaphoreInv
<1>4. PICK f \in 1..n : Takes(f, m)
  BY <1>3
<1>5. f \in 1..MaxSequence
  BY <1>2, MaxSequenceAssumption
<1>6. f \in Frames
  BY <1>1, <1>2, <1>4, <1>5 DEF SemaphoreInv, Takes
<1>7. f \notin executed
  BY <1>1, <1>4 DEF FrameOrderInv, Takes
<1>8. f < n
  <2>1. f # n
    BY <1>7
  <2> QED BY <1>2, <2>1
<1>9. ~(n <= f)
  BY <1>2, <1>8
<1>10. f \notin recording /\ f \notin executing
  BY <1>1, <1>3, <1>6, <1>9 DEF FrameOrderInv
<1> QED BY <1>4, <1>6, <1>7, <1>8, <1>10 DEF Takes

(* command_buffer.cc:110, mesh_manager.cc:130: the two Writers of a mesh   *)
(* are submitted in an order that KeepAlive() accepts, however many meshes *)
(* share the staging buffers.                                              *)
THEOREM MeshesKeepOrder == MeshSpec => []BuildKeepsOrder
  BY InitMesh, NextMesh, BuildsInOrder, PTL DEF MeshSpec

(* So that what GpuUploader promises to clients who respect this order, it *)
(* keeps to MeshManager without any condition.                             *)
THEOREM MeshUploadsAreSound ==
  MeshSpec => [](RegionsInUseAreSound /\ StagingBuffersAccountedFor)
<1>1. MeshInv => RegionsInUseAreSound /\ StagingBuffersAccountedFor
  BY RegionsSound, BuffersAccountedFor DEF MeshInv
<1> QED BY <1>1, InitMesh, NextMesh, PTL DEF MeshSpec

(* command_buffer.cc:125, mesh_manager.cc:142: the vertices of a mesh have *)
(* arrived when a frame draws it, though the semaphore is waited for by    *)
(* the first such frame only, unless that frame was lost.                  *)
THEOREM VerticesAreThere == MeshSpec => []VerticesArriveBeforeDraw
  BY InitMesh, NextMesh, VerticesInTime, PTL DEF MeshSpec
==============================================================================
