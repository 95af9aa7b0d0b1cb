-------------------------- MODULE ImmediateRecycling --------------------------
(***************************************************************************)
(* The three pools that put what is given back on a free list at once:     *)
(* impl/descriptor_set_pool.cc, impl/uniform_buffer_pool.cc and            *)
(* impl/image_cache.cc.  Unlike a ResourceRecycler they do not look at the *)
(* sequence number, so that pending commands are protected only by the     *)
(* references of others: CommandBuffer::used_resources_ for a              *)
(* DescriptorSetAllocation, and the Resources that a recycler owns         *)
(* (ModelDisplayLists, Textures, Framebuffers, here called wrappers) for   *)
(* the Buffers, Images and allocations that they refer to.                 *)
(*                                                                         *)
(* What is vended (sets, buffers, images) are items; a handle is one       *)
(* vended Resource: a DescriptorSetAllocation of several sets, a Buffer,   *)
(* an Image.  Free lists are sets, that is, the order of reuse is left     *)
(* open (last in first out for sets and buffers, first in first out for    *)
(* the images of one ImageInfo).                                           *)
(*                                                                         *)
(* Commands refer to images through wrappers (a Texture, a Framebuffer) or *)
(* directly: CopyImage(), TransitionImageLayout() and the GpuUploader's    *)
(* WriteImage() do.  For an Image KeepAlive() sets its number only, which  *)
(* the ImageCache does not look at: such an image is free, and perhaps     *)
(* vended again, as soon as the client gives it up.                        *)
(***************************************************************************)
EXTENDS CommandBuffers, FiniteSets, FiniteSetsExt

CONSTANTS
  DescriptorSet, UniformBuffer, CachedImage,   \* bounds: the items made
  initial_capacity,    \* of the DescriptorSetPool
  kBufferBatchSize,    \* of the UniformBufferPool
  Count,               \* the sizes of allocations that clients ask for
  Handle, Wrapper      \* bounds: how many are live at one time

ASSUME PoolAssumption ==
  /\ IsFiniteSet(DescriptorSet) /\ IsFiniteSet(UniformBuffer)
  /\ initial_capacity \in Nat /\ kBufferBatchSize \in Nat \ {0}
  /\ Count \subseteq Nat \ {0}

VARIABLES
  free,             \* free_sets_, free_buffers_ and unused_images_
  made,             \* the items that were made
  items,            \* handle -> the items it stands for, {} if there is none
  handles_held,     \* the handles the client refers to
  used_resources,   \* number -> the handles in used_resources_ of its buffer
  parts,            \* wrapper -> the handles it refers to
  held_wrappers,    \* the wrappers the client refers to
  wrapper_number,   \* wrapper -> its sequence_number_
  uses,             \* history: number -> the items its commands refer to
                    \* through an allocation or a wrapper
  image_uses        \* number -> the images its commands refer to directly
                    \* (which gives these their sequence_number_)

poolVars == <<free, made, items>>
wrapperVars == <<parts, held_wrappers, wrapper_number>>
useVars == <<uses, image_uses>>
allVars == <<commandVars, poolVars, handles_held, used_resources, wrapperVars, useVars>>

Item == DescriptorSet \cup UniformBuffer \cup CachedImage

(* The constructor of DescriptorSetPool fills its free list. *)
RecyclingInit ==
  /\ Init
  /\ \E sets \in kSubset(initial_capacity, DescriptorSet) :
       free = sets /\ made = sets
  /\ items = [h \in Handle |-> {}]
  /\ handles_held = {}
  /\ used_resources = [n \in 1..MaxSequence |-> {}]
  /\ parts = [w \in Wrapper |-> {}]
  /\ held_wrappers = {}
  /\ wrapper_number = [w \in Wrapper |-> 0]
  /\ uses = [n \in 1..MaxSequence |-> {}]
  /\ image_uses = [n \in 1..MaxSequence |-> {}]

LiveHandles == {h \in Handle : items[h] # {}}

Referenced(client, retained, wrapped) ==
  client \cup (UNION {retained[n] : n \in DOMAIN retained})
         \cup (UNION {wrapped[w] : w \in DOMAIN wrapped})

(* OnReceiveOwnable() of the three pools, for every handle that loses its  *)
(* last reference: its items are free.                                     *)
GiveBack(client, retained, wrapped) ==
  LET gone == LiveHandles \ Referenced(client, retained, wrapped)
  IN  /\ items' = [h \in Handle |-> IF h \in gone THEN {} ELSE items[h]]
      /\ free' = free \cup UNION {items[h] : h \in gone}
      /\ UNCHANGED made

(* InternalAllocate(): number new items of a kind. *)
NewItems(kind, number) == kSubset(number, kind \ made)

(* Take count items of a kind from the free list, after enlarging it by    *)
(* growth if it is too short.                                              *)
Take(h, kind, count, growth) ==
  /\ items[h] = {}
  /\ LET old == free \cap kind
     IN  \E new \in NewItems(kind, IF Cardinality(old) < count THEN growth ELSE 0) :
         \E taken \in kSubset(count, old \cup new) :
           /\ items' = [items EXCEPT ![h] = taken]
           /\ free' = (free \cup new) \ taken
           /\ made' = made \cup new
  /\ handles_held' = handles_held \cup {h}

------------------------------------------------------------------------------
(* A bug to be caught: KeepAlive() records the number only. *)
RetainNothing(h, n) ==
  /\ h \in Handle
  /\ uses' = [uses EXCEPT ![n] = @ \cup items'[h]]
  /\ UNCHANGED used_resources

(* KeepAlive() of a new DescriptorSetAllocation: it is retained. *)
Retain(h, n) ==
  /\ used_resources' = [used_resources EXCEPT ![n] = @ \cup {h}]
  /\ uses' = [uses EXCEPT ![n] = @ \cup items'[h]]

(* DescriptorSetPool::Allocate(), for a command buffer or for the caller   *)
(* (command_buffer == nullptr).                                            *)
AllocateSets(h, count) ==
  /\ Take(h, DescriptorSet, count, 2 * count)
  /\ \/ \E n \in recording : Retain(h, n)
     \/ UNCHANGED <<used_resources, uses>>
  /\ UNCHANGED <<commandVars, wrapperVars, image_uses>>

(* UniformBufferPool::Allocate(). *)
AllocateBuffer(h) ==
  /\ Take(h, UniformBuffer, 1, kBufferBatchSize)
  /\ UNCHANGED <<commandVars, used_resources, wrapperVars, useVars>>

(* ImageCache::NewImage(). *)
NewImage(h) ==
  /\ Take(h, CachedImage, 1, 1)
  /\ UNCHANGED <<commandVars, used_resources, wrapperVars, useVars>>

(* A ModelDisplayList, Texture or Framebuffer is made of what the client   *)
(* refers to.                                                              *)
NewWrapper(w, contents) ==
  /\ parts[w] = {}
  /\ contents # {}
  /\ parts' = [parts EXCEPT ![w] = contents]
  /\ held_wrappers' = held_wrappers \cup {w}
  /\ wrapper_number' = [wrapper_number EXCEPT ![w] = 0]
  /\ UNCHANGED <<commandVars, poolVars, handles_held, used_resources, useVars>>

(* Commands of n refer to a wrapper, and through it to its parts. *)
UseWrapper(w, n) ==
  /\ w \in held_wrappers
  /\ wrapper_number[w] <= n
  /\ wrapper_number' = [wrapper_number EXCEPT ![w] = n]
  /\ uses' = [uses EXCEPT ![n] = @ \cup UNION {items[h] : h \in parts[w]}]
  /\ UNCHANGED <<commandVars, poolVars, handles_held, used_resources, parts, held_wrappers,
                 image_uses>>

(* Commands of n refer to an image directly.  KeepAlive() insists that no  *)
(* later buffer does, and retains nothing.                                 *)
UseImage(h, n) ==
  /\ h \in handles_held
  /\ items[h] # {} /\ items[h] \subseteq CachedImage
  /\ \A k \in (n + 1)..MaxSequence : image_uses[k] \cap items[h] = {}
  /\ image_uses' = [image_uses EXCEPT ![n] = @ \cup items[h]]
  /\ UNCHANGED <<commandVars, poolVars, handles_held, used_resources, wrapperVars, uses>>

DropItem(h) ==
  /\ h \in handles_held
  /\ handles_held' = handles_held \ {h}
  /\ GiveBack(handles_held', used_resources, parts)
  /\ UNCHANGED <<commandVars, used_resources, wrapperVars, useVars>>

(* The recycler destroys wrappers that it need not keep, and forgets their *)
(* parts.                                                                  *)
Recycled(client, last_finished) ==
  [w \in Wrapper |-> IF w \notin client /\ wrapper_number[w] <= last_finished
                     THEN {} ELSE parts[w]]

DropWrapper(w) ==
  /\ w \in held_wrappers
  /\ held_wrappers' = held_wrappers \ {w}
  /\ parts' = Recycled(held_wrappers', announced)
  /\ GiveBack(handles_held, used_resources, parts')
  /\ UNCHANGED <<commandVars, handles_held, used_resources, wrapper_number, useVars>>

(* A bug to be caught: Retire() leaves used_resources_ alone. *)
FinishWithoutClear(n) ==
  /\ FinishNumber(n)
  /\ parts' = Recycled(held_wrappers, announced')
  /\ GiveBack(handles_held, used_resources, parts')
  /\ UNCHANGED <<handles_held, used_resources, held_wrappers, wrapper_number, useVars>>

(* Retire() and the report to the sequencer. *)
Finish(n) ==
  /\ FinishNumber(n)
  /\ used_resources' = [used_resources EXCEPT ![n] = {}]
  /\ parts' = Recycled(held_wrappers, announced')
  /\ GiveBack(handles_held, used_resources', parts')
  /\ UNCHANGED <<handles_held, held_wrappers, wrapper_number, useVars>>

Commands ==
  /\ \/ HandOut
     \/ \E n \in 1..issued : SubmitNumber(n) \/ Execute(n)
  /\ UNCHANGED <<poolVars, handles_held, used_resources, wrapperVars, useVars>>

RecyclingNext ==
  \/ \E h \in Handle :
       \/ \E count \in Count : AllocateSets(h, count)
       \/ AllocateBuffer(h)
       \/ NewImage(h)
       \/ \E n \in recording : UseImage(h, n)
       \/ DropItem(h)
  \/ \E w \in Wrapper :
       \/ \E contents \in SUBSET handles_held : NewWrapper(w, contents)
       \/ \E n \in recording : UseWrapper(w, n)
       \/ DropWrapper(w)
  \/ \E n \in 1..issued : Finish(n)
  \/ Commands

RecyclingSpec == RecyclingInit /\ [][RecyclingNext]_allVars
------------------------------------------------------------------------------
(* "no descriptor set is written nor destroyed while it is still in use by *)
(* the device" (impl/descriptor_set_pool.h), and likewise for what         *)
(* commands refer to through a wrapper: no set, uniform buffer or image of *)
(* an allocation that a buffer retains, or of a wrapper that a recycler    *)
(* keeps, is vended again while the commands are recorded or executed,     *)
(* although the pools themselves do not look.                              *)
FreeIsIdle ==
  \A n \in recording \cup executing : uses[n] \cap free = {}

(* The same of the images that commands refer to directly: a Writer        *)
(* "retains a reference to the target until the submission's CommandBuffer *)
(* is retired" (impl/gpu_uploader.h).  KeepAlive() does not.               *)
ImagesAreRetained ==
  \A n \in recording \cup executing : image_uses[n] \cap free = {}

(* Nothing that was made is lost, vended twice, or vended while free.      *)
EachItemInOnePlace ==
  \A i \in made : LET owners == {h \in LiveHandles : i \in items[h]}
                  IN  Cardinality(owners) = IF i \in free THEN 0 ELSE 1

(* descriptor_set_pool.h:47: what only a command buffer retained is back   *)
(* on the free list as soon as the buffer is retired, and what only a      *)
(* wrapper referred to, when the wrapper's commands are through.           *)
NothingOutstays ==
  \A h \in LiveHandles \ handles_held :
    \/ \E n \in 1..issued : h \in used_resources[n] /\ n \notin finished
    \/ \E w \in Wrapper : /\ h \in parts[w]
                          /\ w \in held_wrappers \/ wrapper_number[w] > announced

(* Whatever is made comes back to its pool, once and in time. *)
ItemsComeBack == EachItemInOnePlace /\ NothingOutstays
==============================================================================
