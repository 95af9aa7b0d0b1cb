------------------------------- MODULE GpuMemory -------------------------------
(***************************************************************************)
(* Device memory: vk/gpu_mem.{h,cc}, impl/gpu_mem_slab.{h,cc},             *)
(* impl/gpu_mem_suballocation.{h,cc}, the accounting of vk/gpu_allocator   *)
(* and vk/naive_gpu_allocator, and the Buffers bound to it (vk/buffer.cc). *)
(*                                                                         *)
(* A slab is memory obtained from Vulkan.  Ranges are taken from a slab or *)
(* from a range of it, to any depth, and each keeps what it was taken from *)
(* alive.  Sizes and offsets are unsigned words (vk::DeviceSize).          *)
(***************************************************************************)
EXTENDS Integers, FiniteSets, FiniteSetsExt

CONSTANTS
  Mem,          \* bound: the GpuMems and Buffers that are ever created
  Words,        \* a vk::DeviceSize is a number below this (2^64 in the code)
  SlabSize,     \* the sizes that slabs are asked to have
  Request,      \* the sizes and offsets that clients ask for
  BufferOffset, \* the offsets that Buffers are given
  None          \* no memory

ASSUME WordsAssumption == Words \in Nat \ {0}
ASSUME RequestAssumption ==
  /\ SlabSize \subseteq 0..(Words - 1)
  /\ Request \subseteq 0..(Words - 1)
  /\ BufferOffset \subseteq 0..(Words - 1)
ASSUME MemAssumption == IsFiniteSet(Mem) /\ None \notin Mem

VARIABLES
  kind,         \* mem -> "new", "slab", "range", "buffer" or "freed"
  mem_,         \* mem -> what it was taken from; None for a slab
  base_,        \* mem -> the slab whose vk::DeviceMemory it is in
  offset_, size_,
  mapped_ptr_,  \* mem -> host address relative to the mapping; -1: not mapped
  refs,         \* mem -> the number of RefPtrs to it
  held,         \* mem -> how many of these are the clients'
  allocator_,   \* mem -> is it a slab that reports to the GpuAllocator?
  dying,        \* the object whose destructor runs, or None
  total_slab_bytes_, slab_count_,
  taken,        \* slab -> the ranges that an allocator believes are taken of it
  wrapped       \* history: the objects whose offset + size did not fit in a
                \* word, and what was taken from them

shapeVars == <<mem_, base_, offset_, size_, mapped_ptr_, allocator_>>
countVars == <<total_slab_bytes_, slab_count_>>
memVars == <<kind, shapeVars, refs, held, dying, countVars, taken, wrapped>>

MemInit ==
  /\ kind = [m \in Mem |-> "new"]
  /\ mem_ = [m \in Mem |-> None]
  /\ base_ = [m \in Mem |-> m]
  /\ offset_ = [m \in Mem |-> 0]
  /\ size_ = [m \in Mem |-> 0]
  /\ mapped_ptr_ = [m \in Mem |-> -1]
  /\ refs = [m \in Mem |-> 0]
  /\ held = [m \in Mem |-> 0]
  /\ allocator_ = [m \in Mem |-> FALSE]
  /\ dying = None
  /\ total_slab_bytes_ = 0
  /\ slab_count_ = 0
  /\ taken = [m \in Mem |-> {}]
  /\ wrapped = {}

Live(m) == kind[m] \in {"slab", "range", "buffer"}

Created == {m \in Mem : kind[m] # "new"}

(* The memory a client can take a range of, or bind a buffer to: a GpuMem  *)
(* that it refers to.                                                      *)
Usable(p) == dying = None /\ kind[p] \in {"slab", "range"} /\ held[p] > 0

------------------------------------------------------------------------------

(* GpuMemSlab::New, by the allocator (AllocateSlab) or by a client who     *)
(* wraps memory of its own.  Host-visible memory is mapped.                *)
NewSlab(m, size, visible, allocator) ==
  /\ dying = None
  /\ kind[m] = "new"
  /\ kind' = [kind EXCEPT ![m] = "slab"]
  /\ size_' = [size_ EXCEPT ![m] = size]
  /\ mapped_ptr_' = [mapped_ptr_ EXCEPT ![m] = IF visible THEN 0 ELSE -1]
  /\ allocator_' = [allocator_ EXCEPT ![m] = allocator]
  /\ refs' = [refs EXCEPT ![m] = 1]
  /\ held' = [held EXCEPT ![m] = 1]
  /\ IF allocator
     THEN /\ slab_count_' = slab_count_ + 1
          /\ total_slab_bytes_' = (total_slab_bytes_ + size) % Words
     ELSE UNCHANGED countVars
  /\ UNCHANGED <<mem_, base_, offset_, dying, taken, wrapped>>

(* The objects with a wrapped sum, once m has been made inside p. *)
Wrapped(m, p, size, offset) ==
  IF p \in wrapped \/ offset + size >= Words THEN wrapped \cup {m}
                                             ELSE wrapped

(* A bug to be caught: a range does not refer to what it is taken from. *)
MakeWithoutRef(m, p, k, size, offset, mapped) ==
  /\ kind' = [kind EXCEPT ![m] = k]
  /\ mem_' = [mem_ EXCEPT ![m] = p]
  /\ base_' = [base_ EXCEPT ![m] = base_[p]]
  /\ size_' = [size_ EXCEPT ![m] = size]
  /\ offset_' = [offset_ EXCEPT ![m] = (offset_[p] + offset) % Words]
  /\ mapped_ptr_' = [mapped_ptr_ EXCEPT ![m] = mapped]
  /\ refs' = [refs EXCEPT ![m] = 1]
  /\ held' = [held EXCEPT ![m] = 1]
  /\ wrapped' = Wrapped(m, p, size, offset)
  /\ UNCHANGED <<allocator_, dying, countVars>>

(* The object m is made inside p, which it refers to from now on. *)
Make(m, p, k, size, offset, mapped) ==
  /\ kind' = [kind EXCEPT ![m] = k]
  /\ mem_' = [mem_ EXCEPT ![m] = p]
  /\ base_' = [base_ EXCEPT ![m] = base_[p]]
  /\ size_' = [size_ EXCEPT ![m] = size]
  /\ offset_' = [offset_ EXCEPT ![m] = (offset_[p] + offset) % Words]
  /\ mapped_ptr_' = [mapped_ptr_ EXCEPT ![m] = mapped]
  /\ refs' = [refs EXCEPT ![m] = 1, ![p] = @ + 1]
  /\ held' = [held EXCEPT ![m] = 1]
  /\ wrapped' = Wrapped(m, p, size, offset)
  /\ UNCHANGED <<allocator_, dying, countVars>>

(* A bug to be caught: the size and the offset are compared one by one. *)
FitsEach(p, size, offset) == size <= size_[p] /\ offset <= size_[p]

(* offset + size is a sum of words: it is what is left of it in one word.  *)
Fits(p, size, offset) == (offset + size) % Words <= size_[p]

(* A bug to be caught: the range's pointer is that of the memory it is     *)
(* taken from.                                                             *)
MappedPtrOfParent(p, offset) == mapped_ptr_[p]

(* The pointer that GpuMemSuballocation() passes on; an address is a word. *)
MappedPtr(p, offset) ==
  IF mapped_ptr_[p] = -1 THEN -1 ELSE (mapped_ptr_[p] + offset) % Words

(* GpuMem::Allocate.  It returns nullptr, and changes nothing, if the      *)
(* range does not fit.  An allocator that hands out ranges of a slab       *)
(* notes that this one is taken.                                           *)
Allocate(m, p, size, offset) ==
  /\ Usable(p)
  /\ kind[m] = "new"
  /\ Fits(p, size, offset)
  /\ Make(m, p, "range", size, offset, MappedPtr(p, offset))
  /\ taken' = IF kind[p] = "slab"
              THEN [taken EXCEPT ![p] = @ \cup {m}] ELSE taken

(* Buffer::Buffer. *)
NewBuffer(m, p, size, offset) ==
  /\ Usable(p)
  /\ kind[m] = "new"
  /\ Fits(p, size, offset)
  /\ Make(m, p, "buffer", size, offset, mapped_ptr_[p])
  /\ UNCHANGED taken

(* A client copies a RefPtr, or gives one up. *)
Copy(m) ==
  /\ dying = None
  /\ Live(m) /\ held[m] = 1
  /\ refs' = [refs EXCEPT ![m] = @ + 1]
  /\ held' = [held EXCEPT ![m] = @ + 1]
  /\ UNCHANGED <<kind, shapeVars, dying, countVars, taken, wrapped>>

Drop(m) ==
  /\ dying = None
  /\ held[m] > 0
  /\ refs' = [refs EXCEPT ![m] = @ - 1]
  /\ held' = [held EXCEPT ![m] = @ - 1]
  /\ dying' = IF refs[m] = 1 THEN m ELSE None
  /\ UNCHANGED <<kind, shapeVars, countVars, taken, wrapped>>

(* ~GpuMemSlab: the memory goes back to Vulkan. *)
DestroySlab(m) ==
  /\ dying = m
  /\ kind[m] = "slab"
  /\ kind' = [kind EXCEPT ![m] = "freed"]
  /\ dying' = None
  /\ IF allocator_[m]
     THEN /\ slab_count_' = slab_count_ - 1
          /\ total_slab_bytes_' = (total_slab_bytes_ - size_[m]) % Words
     ELSE UNCHANGED countVars
  /\ UNCHANGED <<shapeVars, refs, held, taken, wrapped>>

(* A bug to be caught: the slab is not told. *)
OnAllocationDestroyedNowhere(p, m) == taken' = taken

(* OnAllocationDestroyed is virtual: a slab tells the allocator, a range   *)
(* tells nobody.                                                           *)
OnAllocationDestroyed(p, m) ==
  taken' = IF kind[p] = "slab"
           THEN [taken EXCEPT ![p] = @ \ {m}] ELSE taken

(* A range is destroyed: it tells what it was taken from and then drops    *)
(* its reference to it.  A Buffer just drops it.                           *)
DestroyPart(m) ==
  /\ dying = m
  /\ kind[m] \in {"range", "buffer"}
  /\ kind' = [kind EXCEPT ![m] = "freed"]
  /\ IF kind[m] = "range" THEN OnAllocationDestroyed(mem_[m], m)
                          ELSE taken' = taken
  /\ refs' = [refs EXCEPT ![mem_[m]] = @ - 1]
  /\ dying' = IF refs[mem_[m]] = 1 THEN mem_[m] ELSE None
  /\ UNCHANGED <<shapeVars, held, countVars, wrapped>>

MemNext ==
  \E m \in Mem :
    \/ \E size \in SlabSize, visible, allocator \in BOOLEAN :
         NewSlab(m, size, visible, allocator)
    \/ \E p \in Mem, size, offset \in Request : Allocate(m, p, size, offset)
    \/ \E p \in Mem, size \in Request, offset \in BufferOffset :
         NewBuffer(m, p, size, offset)
    \/ Copy(m) \/ Drop(m) \/ DestroySlab(m) \/ DestroyPart(m)

MemSpec == MemInit /\ [][MemNext]_memVars

------------------------------------------------------------------------------

MemTypeOK ==
  /\ kind \in [Mem -> {"new", "slab", "range", "buffer", "freed"}]
  /\ mem_ \in [Mem -> Mem \cup {None}]
  /\ base_ \in [Mem -> Mem]
  /\ offset_ \in [Mem -> 0..(Words - 1)]
  /\ size_ \in [Mem -> 0..(Words - 1)]
  /\ mapped_ptr_ \in [Mem -> Int]
  /\ refs \in [Mem -> Nat] /\ held \in [Mem -> Nat]
  /\ allocator_ \in [Mem -> BOOLEAN]
  /\ dying \in Mem \cup {None}
  /\ total_slab_bytes_ \in 0..(Words - 1) /\ slab_count_ \in Int
  /\ taken \in [Mem -> SUBSET Mem]
  /\ wrapped \subseteq Mem

(* The range of m lies inside that of p. *)
Inside(m, p) ==
  /\ offset_[p] <= offset_[m]
  /\ offset_[m] + size_[m] <= offset_[p] + size_[p]

(* "Returns nullptr if the requested offset/size do not fit within the     *)
(* current GpuMem": whatever was allocated lies inside what it was taken   *)
(* from, and so, at any depth, inside its slab (vk/gpu_mem.h).  The code   *)
(* compares a sum that may have wrapped, and breaks this.                  *)
InsideParent ==
  \A m \in Created :
    (mem_[m] # None => Inside(m, mem_[m])) /\ Inside(m, base_[m])

(* The wrapped sum is the only way out: an object for which no sum wrapped *)
(* on the way down from its slab lies inside what it was taken from and    *)
(* inside its slab, whatever has been allocated and freed around it.       *)
InsideUnlessWrapped ==
  \A m \in Created \ wrapped :
    (mem_[m] # None => Inside(m, mem_[m])) /\ Inside(m, base_[m])

(* The pointer of a GpuMem is the address at which its first byte is       *)
(* mapped, at any depth.  That of a Buffer is the address of the memory it *)
(* is bound to: its own first byte only if it was bound at offset 0        *)
(* (vk/buffer.cc; vk/buffer.h calls it a pointer to the buffer's memory).  *)
PointersAreAsMapped ==
  \A m \in Mem :
    Live(m) /\ mapped_ptr_[m] # -1 =>
      mapped_ptr_[m] = offset_[IF kind[m] = "buffer" THEN mem_[m] ELSE m]

(* The ranges and the pointers that clients compute with are right, as far *)
(* as the code makes them so.                                              *)
RangesAreSound == InsideUnlessWrapped /\ PointersAreAsMapped

(* What was taken from some memory keeps that memory alive, and with it    *)
(* the slab: no order of releases leaves a range or a buffer in freed      *)
(* memory (the comment of GpuMem::Allocate).                               *)
MemoryOutlivesItsUsers ==
  \A m \in Mem : Live(m) /\ mem_[m] # None => Live(mem_[m])

(* The allocator's counters, which ~GpuAllocator insists are zero, are     *)
(* those of the slabs that exist.                                          *)
SlabsAccountedFor ==
  LET Slabs == {m \in Mem : kind[m] = "slab" /\ allocator_[m]}
  IN  /\ slab_count_ = Cardinality(Slabs)
      /\ total_slab_bytes_ =
           MapThenSumSet(LAMBDA m : size_[m], Slabs) % Words

(* An allocator that notes which ranges of its slabs are taken, and        *)
(* crosses them out when OnSuballocationDestroyed is called, is right      *)
(* whenever no destructor is at work; a range of a range is no business of *)
(* its.                                                                    *)
BookkeepingIsExact ==
  dying = None =>
    \A s \in Mem :
      taken[s] = {m \in Mem : kind[m] = "range" /\ mem_[m] = s
                              /\ kind[s] = "slab"}

(* What allocators know of their slabs and of the ranges of them is so:    *)
(* the destructors tell them, in whatever order they run.                  *)
AllocatorsAreInformed == SlabsAccountedFor /\ BookkeepingIsExact
==============================================================================
