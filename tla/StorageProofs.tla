---------------------------- MODULE StorageProofs ----------------------------
(***************************************************************************)
(* TLAPS proofs about GpuMemory and about ImmediateRecycling, for any      *)
(* pools, sizes, memories and handles, and any number of command buffers.  *)
(***************************************************************************)
EXTENDS GpuMemory, ImmediateRecycling, CommandBuffersProofs, DataLemmas

LEMMA ModSmall ==
  ASSUME NEW x \in 0..(Words - 1)
  PROVE  x % Words = x
  BY WordsAssumption

(* What refers to m, apart from clients. *)
Users(m) == {c \in Mem : Live(c) /\ mem_[c] = m}

Kinds == {"new", "slab", "range", "buffer", "freed"}

(* What an object is made of, once and for all. *)
ShapeInv ==
  \A m \in Mem :
    /\ kind[m] = "new" => mem_[m] = None /\ base_[m] = m /\ offset_[m] = 0
    /\ kind[m] = "slab" => mem_[m] = None
    /\ kind[m] \in {"range", "buffer"} => mem_[m] \in Mem
    /\ kind[m] # "new" =>
         /\ kind[base_[m]] # "new"
         /\ mem_[m] \in Mem => kind[mem_[m]] # "new"

(* The counters count, and nobody refers to what is not there. *)
RefsInv ==
  /\ \A m \in Mem : /\ refs[m] = held[m] + Cardinality(Users(m))
                    /\ ~Live(m) => refs[m] = 0
  /\ dying # None => Live(dying) /\ refs[dying] = 0

CoreTypes ==
  /\ kind \in [Mem -> Kinds]
  /\ mem_ \in [Mem -> Mem \cup {None}]
  /\ base_ \in [Mem -> Mem]
  /\ offset_ \in [Mem -> 0..(Words - 1)]
  /\ size_ \in [Mem -> 0..(Words - 1)]
  /\ mapped_ptr_ \in [Mem -> Int]
  /\ refs \in [Mem -> Nat]
  /\ held \in [Mem -> Nat]
  /\ dying \in Mem \cup {None}

MemIInv == CoreTypes /\ ShapeInv /\ RefsInv

LEMMA UsersFinite ==
  ASSUME NEW m \in Mem
  PROVE  IsFiniteSet(Users(m)) /\ Cardinality(Users(m)) \in Nat
  BY MemAssumption, FS_Subset, FS_CardinalityType DEF Users

LEMMA MemInitIInv == MemInit => MemIInv
<1> SUFFICES ASSUME MemInit PROVE MemIInv
  OBVIOUS
<1>1. CoreTypes
  BY WordsAssumption DEF MemInit, CoreTypes, Kinds
<1>2. ShapeInv
  BY MemAssumption DEF MemInit, ShapeInv
<1>3. \A m \in Mem : Users(m) = {}
  BY DEF MemInit, Users, Live
<1>4. RefsInv
  BY <1>3, FS_EmptySet DEF MemInit, RefsInv, Live
<1> QED BY <1>1, <1>2, <1>4 DEF MemIInv

(* Making an object adds one user to what it is made in. *)
LEMMA MakeIInv ==
  ASSUME MemIInv, NEW m \in Mem, NEW p \in Mem, NEW k \in {"range", "buffer"},
         NEW size \in 0..(Words - 1), NEW offset \in 0..(Words - 1),
         NEW mapped \in Int,
         Usable(p), kind[m] = "new", Make(m, p, k, size, offset, mapped)
  PROVE  MemIInv'
<1> USE DEF MemIInv
<1>1. /\ kind[p] \in {"slab", "range"} /\ m # p
      /\ Live(p) /\ ~Live(m) /\ p # None /\ m # None
      /\ dying = None
  BY MemAssumption DEF Usable, Live
<1>2. (offset_[p] + offset) % Words \in 0..(Words - 1)
  BY WordsAssumption DEF CoreTypes
<1>3. CoreTypes'
  BY <1>1, <1>2 DEF CoreTypes, Make, Kinds
<1>4. ShapeInv'
  <2> SUFFICES ASSUME NEW q \in Mem
               PROVE  /\ kind'[q] = "new" =>
                           mem_'[q] = None /\ base_'[q] = q /\ offset_'[q] = 0
                      /\ kind'[q] = "slab" => mem_'[q] = None
                      /\ kind'[q] \in {"range", "buffer"} => mem_'[q] \in Mem
                      /\ kind'[q] # "new" =>
                           /\ kind'[base_'[q]] # "new"
                           /\ mem_'[q] \in Mem => kind'[mem_'[q]] # "new"
    BY DEF ShapeInv
  <2>1. \A r \in Mem : kind[r] # "new" => kind'[r] # "new"
    BY DEF Make, CoreTypes
  <2>2. CASE q = m
    <3>1. mem_'[q] = p /\ base_'[q] = base_[p] /\ kind'[q] = k
      BY <2>2 DEF Make, CoreTypes
    <3>2. base_[p] \in Mem /\ kind[base_[p]] # "new" /\ kind[p] # "new"
      BY <1>1 DEF ShapeInv, CoreTypes
    <3> QED BY <2>1, <3>1, <3>2
  <2>3. CASE q # m
    <3>1. /\ kind'[q] = kind[q] /\ mem_'[q] = mem_[q] /\ base_'[q] = base_[q]
          /\ offset_'[q] = offset_[q] /\ base_[q] \in Mem
      BY <2>3 DEF Make, CoreTypes
    <3> QED BY <2>1, <3>1 DEF ShapeInv
  <2> QED BY <2>2, <2>3
<1>5. \A q \in Mem : Users(q)' = IF q = p THEN Users(p) \cup {m} ELSE Users(q)
  <2>1. \A c \in Mem \ {m} : (Live(c)' <=> Live(c)) /\ mem_'[c] = mem_[c]
    BY DEF Make, CoreTypes, Live
  <2>2. Live(m)' /\ mem_'[m] = p
    BY DEF Make, CoreTypes, Live
  <2> QED BY <1>1, <2>1, <2>2 DEF Users
<1>6. m \notin Users(p) /\ Users(m) = {}
  <2>1. refs[m] = 0 /\ refs[m] = held[m] + Cardinality(Users(m))
    BY <1>1 DEF RefsInv
  <2>2. Cardinality(Users(m)) = 0
    BY <2>1, UsersFinite DEF CoreTypes
  <2> QED BY <1>1, <2>2, UsersFinite, FS_EmptySet DEF Users
<1>7. RefsInv'
  <2>1. ASSUME NEW q \in Mem
        PROVE  /\ refs'[q] = held'[q] + Cardinality(Users(q)')
               /\ ~Live(q)' => refs'[q] = 0
    <3>1. CASE q = m
      <4>1. Users(q)' = {} /\ refs'[q] = 1 /\ held'[q] = 1
        BY <1>1, <1>5, <1>6, <3>1 DEF Make, CoreTypes
      <4>2. Live(q)'
        BY <3>1 DEF Make, CoreTypes, Live
      <4> QED BY <4>1, <4>2, FS_EmptySet
    <3>2. CASE q = p
      <4>1. Cardinality(Users(q)') = Cardinality(Users(p)) + 1
        BY <1>5, <1>6, <3>2, UsersFinite, FS_AddElement
      <4>2. refs'[q] = refs[p] + 1 /\ held'[q] = held[p] /\ Live(q)'
        BY <1>1, <3>2 DEF Make, CoreTypes, Live
      <4> QED BY <3>2, <4>1, <4>2, UsersFinite DEF RefsInv, CoreTypes
    <3>3. CASE q # m /\ q # p
      <4>1. /\ refs'[q] = refs[q] /\ held'[q] = held[q]
            /\ kind'[q] = kind[q] /\ Users(q)' = Users(q)
        BY <1>5, <3>3 DEF Make, CoreTypes
      <4> QED BY <4>1 DEF RefsInv, Live
    <3> QED BY <3>1, <3>2, <3>3
  <2>2. dying' = None
    BY <1>1 DEF Make
  <2> QED BY <2>1, <2>2 DEF RefsInv
<1> QED BY <1>3, <1>4, <1>7

LEMMA NewSlabIInv ==
  ASSUME MemIInv, NEW m \in Mem, NEW size \in SlabSize, NEW visible \in BOOLEAN,
         NEW allocator \in BOOLEAN, NewSlab(m, size, visible, allocator)
  PROVE  MemIInv'
<1> USE DEF MemIInv
<1>1. size \in 0..(Words - 1)
  BY RequestAssumption
<1>2. CoreTypes'
  BY <1>1 DEF NewSlab, CoreTypes, Kinds
<1>3. \A q \in Mem \ {m} : kind'[q] = kind[q] /\ refs'[q] = refs[q]
                           /\ held'[q] = held[q]
  BY DEF NewSlab, CoreTypes
<1>4. kind'[m] = "slab" /\ refs'[m] = 1 /\ held'[m] = 1 /\ kind[m] = "new"
  BY DEF NewSlab, CoreTypes
<1>5. mem_' = mem_ /\ base_' = base_ /\ offset_' = offset_ /\ dying' = None
  BY DEF NewSlab
<1>6. ShapeInv'
  <2>1. \A q \in Mem : kind[q] # "new" => kind'[q] # "new"
    BY <1>3, <1>4
  <2>2. ASSUME NEW q \in Mem
        PROVE  /\ kind'[q] = "new" =>
                    mem_'[q] = None /\ base_'[q] = q /\ offset_'[q] = 0
               /\ kind'[q] = "slab" => mem_'[q] = None
               /\ kind'[q] \in {"range", "buffer"} => mem_'[q] \in Mem
               /\ kind'[q] # "new" =>
                    /\ kind'[base_'[q]] # "new"
                    /\ mem_'[q] \in Mem => kind'[mem_'[q]] # "new"
    <3>1. CASE q = m
      <4>1. mem_[q] = None /\ base_[q] = q
        BY <1>4, <3>1 DEF ShapeInv
      <4> QED BY <1>4, <1>5, <3>1, <4>1, MemAssumption
    <3>2. CASE q # m
      <4>1. kind'[q] = kind[q] /\ base_[q] \in Mem
        BY <1>3, <3>2 DEF CoreTypes
      <4> QED BY <1>5, <2>1, <4>1 DEF ShapeInv
    <3> QED BY <3>1, <3>2
  <2> QED BY <2>2 DEF ShapeInv
<1>7. \A q \in Mem : Users(q)' = Users(q)
  BY <1>3, <1>4, <1>5, MemAssumption DEF Users, Live, ShapeInv
<1>8. RefsInv'
  <2>1. refs[m] = 0 /\ Cardinality(Users(m)) = 0
    BY <1>4, UsersFinite DEF RefsInv, Live, CoreTypes
  <2> QED BY <1>3, <1>4, <1>5, <1>7, <2>1 DEF RefsInv, Live
<1> QED BY <1>2, <1>6, <1>8

LEMMA CopyIInv ==
  ASSUME MemIInv, NEW m \in Mem, Copy(m)
  PROVE  MemIInv'
<1> USE DEF MemIInv
<1>1. CoreTypes' /\ ShapeInv'
  BY DEF Copy, CoreTypes, ShapeInv, shapeVars
<1>2. \A q \in Mem : Users(q)' = Users(q) /\ (Live(q)' <=> Live(q))
  BY DEF Copy, Users, Live, shapeVars
<1>3. RefsInv'
  BY <1>2, UsersFinite DEF Copy, RefsInv, CoreTypes
<1> QED BY <1>1, <1>3

LEMMA DropIInv ==
  ASSUME MemIInv, NEW m \in Mem, Drop(m)
  PROVE  MemIInv'
<1> USE DEF MemIInv
<1>1. refs[m] = held[m] + Cardinality(Users(m)) /\ held[m] > 0
  BY DEF Drop, RefsInv
<1>2. refs[m] > 0 /\ Live(m)
  BY <1>1, UsersFinite DEF RefsInv, CoreTypes
<1>3. CoreTypes' /\ ShapeInv'
  BY <1>1, <1>2 DEF Drop, CoreTypes, ShapeInv, shapeVars
<1>4. \A q \in Mem : Users(q)' = Users(q) /\ (Live(q)' <=> Live(q))
  BY DEF Drop, Users, Live, shapeVars
<1>5. /\ refs' = [refs EXCEPT ![m] = @ - 1]
      /\ held' = [held EXCEPT ![m] = @ - 1]
      /\ dying' = IF refs[m] = 1 THEN m ELSE None
  BY DEF Drop
<1>6. \A q \in Mem : /\ refs'[q] = held'[q] + Cardinality(Users(q)')
                     /\ ~Live(q)' => refs'[q] = 0
  BY <1>1, <1>2, <1>4, <1>5, UsersFinite DEF RefsInv, CoreTypes
<1>7. dying' # None => Live(dying)' /\ refs'[dying'] = 0
  BY <1>2, <1>4, <1>5 DEF CoreTypes
<1> QED BY <1>3, <1>6, <1>7 DEF RefsInv

LEMMA DestroySlabIInv ==
  ASSUME MemIInv, NEW m \in Mem, DestroySlab(m)
  PROVE  MemIInv'
<1> USE DEF MemIInv
<1>1. /\ refs[m] = 0 /\ kind[m] = "slab" /\ dying' = None
      /\ kind' = [kind EXCEPT ![m] = "freed"]
      /\ refs' = refs /\ held' = held
      /\ mem_' = mem_ /\ base_' = base_ /\ offset_' = offset_
  BY MemAssumption DEF DestroySlab, RefsInv, shapeVars
<1>2. CoreTypes'
  BY DEF DestroySlab, CoreTypes, Kinds, shapeVars
<1>3. ShapeInv'
  BY <1>1 DEF ShapeInv, CoreTypes
<1>4. mem_[m] = None
  BY <1>1 DEF ShapeInv
<1>5. \A q \in Mem : Users(q)' = Users(q)
  BY <1>1, <1>4, MemAssumption DEF Users, Live, CoreTypes
<1>6. RefsInv'
  BY <1>1, <1>5 DEF RefsInv, Live, CoreTypes
<1> QED BY <1>2, <1>3, <1>6

LEMMA DestroyPartIInv ==
  ASSUME MemIInv, NEW m \in Mem, DestroyPart(m)
  PROVE  MemIInv'
<1> USE DEF MemIInv
<1> DEFINE p == mem_[m]
<1>1. /\ refs[m] = 0 /\ kind[m] \in {"range", "buffer"} /\ Live(m)
      /\ kind' = [kind EXCEPT ![m] = "freed"]
      /\ refs' = [refs EXCEPT ![p] = @ - 1]
      /\ dying' = IF refs[p] = 1 THEN p ELSE None
      /\ held' = held
      /\ mem_' = mem_ /\ base_' = base_ /\ offset_' = offset_
      /\ size_' = size_ /\ mapped_ptr_' = mapped_ptr_
  BY MemAssumption DEF DestroyPart, RefsInv, shapeVars
<1>2. p \in Mem /\ m \in Users(p)
  BY <1>1 DEF ShapeInv, Users
<1>3. /\ Cardinality(Users(p)) > 0
      /\ Cardinality(Users(p) \ {m}) = Cardinality(Users(p)) - 1
  <2>1. Cardinality(Users(p) \ {m}) = Cardinality(Users(p)) - 1
    BY <1>2, UsersFinite, FS_RemoveElement
  <2>2. IsFiniteSet(Users(p) \ {m})
    BY <1>2, UsersFinite, FS_RemoveElement
  <2>3. Cardinality(Users(p) \ {m}) \in Nat
    BY <2>2, FS_CardinalityType
  <2> QED BY <1>2, <2>1, <2>3, UsersFinite
<1>4. refs[p] > 0 /\ Live(p) /\ p # m
  <2>1. refs[p] = held[p] + Cardinality(Users(p)) /\ (~Live(p) => refs[p] = 0)
    BY <1>2 DEF RefsInv
  <2>2. held[p] \in Nat /\ Cardinality(Users(p)) \in Nat
    BY <1>2, UsersFinite DEF CoreTypes
  <2>3. refs[p] > 0
    BY <1>3, <2>1, <2>2
  <2> QED BY <1>1, <2>1, <2>3
<1>5. CoreTypes'
  BY <1>1, <1>2, <1>4 DEF CoreTypes, Kinds
<1>6. ShapeInv'
  BY <1>1 DEF ShapeInv, CoreTypes
<1>7. \A q \in Mem :
        Users(q)' = IF q = p THEN Users(p) \ {m} ELSE Users(q)
  <2>1. \A c \in Mem \ {m} : (Live(c)' <=> Live(c))
    BY <1>1 DEF Live, CoreTypes
  <2>2. ~Live(m)'
    BY <1>1 DEF Live, CoreTypes
  <2> QED BY <1>1, <2>1, <2>2 DEF Users
<1>8. ASSUME NEW q \in Mem
      PROVE  /\ refs'[q] = held'[q] + Cardinality(Users(q)')
             /\ ~Live(q)' => refs'[q] = 0
  <2>1. CASE q = p
    <3>1. Live(q)'
      BY <1>1, <1>4, <2>1 DEF Live, CoreTypes
    <3>2. refs'[q] = refs[p] - 1 /\ held'[q] = held[p]
      BY <1>1, <1>2, <2>1 DEF CoreTypes
    <3>3. Cardinality(Users(q)') = Cardinality(Users(p)) - 1
      BY <1>3, <1>7, <2>1
    <3> QED BY <1>2, <2>1, <3>1, <3>2, <3>3, UsersFinite DEF RefsInv, CoreTypes
  <2>2. CASE q = m
    BY <1>1, <1>2, <1>4, <1>7, <2>2 DEF RefsInv, CoreTypes
  <2>3. CASE q # p /\ q # m
    BY <1>1, <1>2, <1>7, <2>3 DEF RefsInv, CoreTypes, Live
  <2> QED BY <2>1, <2>2, <2>3
<1>9. dying' # None => Live(dying)' /\ refs'[dying'] = 0
  BY <1>1, <1>2, <1>4 DEF Live, CoreTypes
<1> QED BY <1>5, <1>6, <1>8, <1>9 DEF RefsInv

LEMMA MemNextIInv == MemIInv /\ [MemNext]_memVars => MemIInv'
<1> SUFFICES ASSUME MemIInv, [MemNext]_memVars PROVE MemIInv'
  OBVIOUS
<1>1. ASSUME NEW m \in Mem, NEW size \in SlabSize, NEW visible \in BOOLEAN,
             NEW allocator \in BOOLEAN, NewSlab(m, size, visible, allocator)
      PROVE  MemIInv'
  BY <1>1, NewSlabIInv
<1>2. ASSUME NEW m \in Mem, NEW p \in Mem, NEW size \in Request,
             NEW offset \in Request, Allocate(m, p, size, offset)
      PROVE  MemIInv'
  <2>1. MappedPtr(p, offset) \in Int
    BY RequestAssumption, WordsAssumption DEF MappedPtr, MemIInv, CoreTypes
  <2>2. size \in 0..(Words - 1) /\ offset \in 0..(Words - 1)
    BY RequestAssumption
  <2>3. /\ Usable(p) /\ kind[m] = "new"
        /\ Make(m, p, "range", size, offset, MappedPtr(p, offset))
    BY <1>2 DEF Allocate
  <2> QED BY <2>1, <2>2, <2>3, MakeIInv
<1>3. ASSUME NEW m \in Mem, NEW p \in Mem, NEW size \in Request,
             NEW offset \in BufferOffset, NewBuffer(m, p, size, offset)
      PROVE  MemIInv'
  <2>1. mapped_ptr_[p] \in Int
    BY DEF MemIInv, CoreTypes
  <2>2. size \in 0..(Words - 1) /\ offset \in 0..(Words - 1)
    BY RequestAssumption
  <2>3. /\ Usable(p) /\ kind[m] = "new"
        /\ Make(m, p, "buffer", size, offset, mapped_ptr_[p])
    BY <1>3 DEF NewBuffer
  <2> QED BY <2>1, <2>2, <2>3, MakeIInv
<1>4. ASSUME UNCHANGED memVars
      PROVE  MemIInv'
  BY <1>4 DEF memVars, shapeVars, MemIInv, CoreTypes, ShapeInv, RefsInv, Users, Live
<1> QED BY <1>1, <1>2, <1>3, <1>4, CopyIInv, DropIInv, DestroySlabIInv,
           DestroyPartIInv DEF MemNext

(* What was taken from some memory keeps it alive: no order of releases,   *)
(* at any depth, frees memory under a range or a buffer.                   *)
THEOREM NothingFreedUnderUse == MemSpec => []MemoryOutlivesItsUsers
<1>1. MemIInv => MemoryOutlivesItsUsers
  <2> SUFFICES ASSUME MemIInv, NEW m \in Mem, Live(m), mem_[m] # None
               PROVE  Live(mem_[m])
    BY DEF MemoryOutlivesItsUsers
  <2>1. mem_[m] \in Mem /\ m \in Users(mem_[m])
    BY DEF MemIInv, CoreTypes, Users
  <2>2. Cardinality(Users(mem_[m])) # 0
    BY <2>1, UsersFinite, FS_EmptySet
  <2>3. /\ refs[mem_[m]] = held[mem_[m]] + Cardinality(Users(mem_[m]))
        /\ held[mem_[m]] \in Nat /\ Cardinality(Users(mem_[m])) \in Nat
    BY <2>1, UsersFinite DEF MemIInv, RefsInv, CoreTypes
  <2>4. refs[mem_[m]] # 0
    BY <2>2, <2>3
  <2> QED BY <2>1, <2>4 DEF MemIInv, RefsInv
<1> QED BY <1>1, MemInitIInv, MemNextIInv, PTL DEF MemSpec

------------------------------------------------------------------------------

(* Every object lies in what it was taken from and in its slab unless a    *)
(* sum wrapped, and slabs start where the memory does.                     *)
InsideInv ==
  /\ InsideUnlessWrapped
  /\ \A m \in Created : offset_[base_[m]] = 0

LEMMA MakeInside ==
  ASSUME MemIInv, InsideInv, NEW m \in Mem, NEW p \in Mem,
         NEW k \in {"range", "buffer"},
         NEW size \in 0..(Words - 1), NEW offset \in 0..(Words - 1), NEW mapped \in Int,
         Usable(p), kind[m] = "new", Fits(p, size, offset),
         Make(m, p, k, size, offset, mapped)
  PROVE  InsideInv'
<1> USE DEF MemIInv
<1>1. kind[p] \in {"slab", "range"} /\ m # p /\ p # None
  BY MemAssumption DEF Usable
<1>2. /\ base_[p] \in Mem /\ kind[base_[p]] # "new" /\ base_[p] # m
      /\ offset_[base_[p]] = 0
      /\ offset_[p] \in Nat /\ size_[p] \in Nat /\ size_[base_[p]] \in 0..(Words - 1)
  BY <1>1 DEF InsideInv, Created, ShapeInv, CoreTypes
<1>3. /\ offset_'[m] = (offset_[p] + offset) % Words /\ size_'[m] = size
      /\ mem_'[m] = p /\ base_'[m] = base_[p] /\ kind'[m] = k
  BY DEF Make, CoreTypes
<1>4. \A q \in Mem \ {m} :
        /\ offset_'[q] = offset_[q] /\ size_'[q] = size_[q]
        /\ mem_'[q] = mem_[q] /\ base_'[q] = base_[q] /\ kind'[q] = kind[q]
  BY DEF Make, CoreTypes
<1>5. /\ wrapped \subseteq wrapped'
      /\ m \notin wrapped' => p \notin wrapped /\ ~(offset + size >= Words)
  BY DEF Make, Wrapped
<1>6. ASSUME m \notin wrapped'
      PROVE  /\ offset_[p] <= offset_'[m]
             /\ offset_'[m] + size <= offset_[p] + size_[p]
             /\ 0 <= offset_'[m] /\ offset_'[m] + size <= size_[base_[p]]
  <2>1. p \notin wrapped /\ offset + size \in 0..(Words - 1)
    BY <1>5, <1>6, WordsAssumption
  <2>2. (offset + size) % Words = offset + size
    BY <2>1, ModSmall
  <2>3. offset + size <= size_[p]
    BY <2>2 DEF Fits
  <2>4. offset_[p] + size_[p] <= size_[base_[p]]
    BY <1>1, <1>2, <2>1 DEF InsideInv, InsideUnlessWrapped, Inside, Created
  <2>5. offset_[p] + offset \in 0..(Words - 1)
    BY <1>2, <2>3, <2>4, WordsAssumption
  <2>6. offset_'[m] = offset_[p] + offset
    BY <1>3, <2>5, ModSmall
  <2> QED BY <1>2, <2>3, <2>4, <2>6
<1>7. ASSUME NEW q \in Mem, kind'[q] # "new", q \notin wrapped'
      PROVE  (mem_'[q] # None => Inside(q, mem_[q])') /\ Inside(q, base_[q])'
  <2>1. CASE q = m
    <3>1. /\ offset_'[p] = offset_[p] /\ size_'[p] = size_[p]
          /\ size_'[base_[p]] = size_[base_[p]]
          /\ offset_'[base_[p]] = 0
      BY <1>1, <1>2, <1>4
    <3>2. /\ mem_'[q] = p /\ base_'[q] = base_[p] /\ size_'[q] = size
      BY <1>3, <2>1
    <3>3. Inside(q, mem_[q])'
      BY <1>6, <1>7, <2>1, <3>1, <3>2 DEF Inside
    <3>4. Inside(q, base_[q])'
      <4>1. size_[base_[p]] \in Int
        BY <1>2
      <4> QED BY <1>6, <1>7, <2>1, <3>1, <3>2, <4>1 DEF Inside
    <3> QED BY <3>3, <3>4
  <2>2. CASE q # m
    <3>1. kind[q] # "new" /\ q \notin wrapped
          /\ base_[q] \in Mem /\ mem_[q] \in Mem \cup {None}
      BY <1>4, <1>5, <1>7, <2>2 DEF CoreTypes
    <3>2. base_[q] # m /\ mem_[q] # m
      BY <3>1 DEF ShapeInv
    <3>3. /\ offset_'[q] = offset_[q] /\ size_'[q] = size_[q]
          /\ mem_'[q] = mem_[q] /\ base_'[q] = base_[q]
          /\ offset_'[base_[q]] = offset_[base_[q]]
          /\ size_'[base_[q]] = size_[base_[q]]
      BY <1>4, <2>2, <3>1, <3>2
    <3>4. (mem_[q] # None => Inside(q, mem_[q])) /\ Inside(q, base_[q])
      BY <3>1 DEF InsideInv, InsideUnlessWrapped, Created
    <3>5. Inside(q, base_[q])'
      BY <3>3, <3>4 DEF Inside
    <3>6. ASSUME mem_'[q] # None PROVE Inside(q, mem_[q])'
      <4>1. /\ offset_'[mem_[q]] = offset_[mem_[q]]
            /\ size_'[mem_[q]] = size_[mem_[q]]
        BY <1>4, <3>1, <3>2, <3>3, <3>6
      <4> QED BY <3>3, <3>4, <3>6, <4>1 DEF Inside
    <3> QED BY <3>5, <3>6
  <2> QED BY <2>1, <2>2
<1>8. ASSUME NEW q \in Mem, kind'[q] # "new"
      PROVE  offset_'[base_'[q]] = 0
  <2>1. CASE q = m
    BY <1>2, <1>3, <1>4, <2>1
  <2>2. CASE q # m
    <3>1. kind[q] # "new" /\ base_[q] \in Mem /\ base_[q] # m
      BY <1>4, <1>8, <2>2 DEF CoreTypes, ShapeInv
    <3> QED BY <1>4, <2>2, <3>1 DEF InsideInv, Created
  <2> QED BY <2>1, <2>2
<1> QED BY <1>7, <1>8 DEF InsideInv, InsideUnlessWrapped, Created

LEMMA NewSlabInside ==
  ASSUME MemIInv, InsideInv, NEW m \in Mem, NEW size \in SlabSize,
         NEW visible \in BOOLEAN, NEW allocator \in BOOLEAN,
         NewSlab(m, size, visible, allocator)
  PROVE  InsideInv'
<1> USE DEF MemIInv
<1>1. size \in 0..(Words - 1)
  BY RequestAssumption
<1>2. /\ mem_' = mem_ /\ base_' = base_ /\ offset_' = offset_ /\ wrapped' = wrapped
      /\ kind[m] = "new" /\ size_'[m] = size
      /\ \A q \in Mem \ {m} : kind'[q] = kind[q] /\ size_'[q] = size_[q]
  BY DEF NewSlab, CoreTypes
<1>3. mem_[m] = None /\ base_[m] = m /\ offset_[m] = 0
  BY <1>2 DEF ShapeInv
<1>4. ASSUME NEW q \in Mem, q # m, kind'[q] # "new"
      PROVE  /\ kind[q] # "new" /\ base_[q] \in Mem /\ mem_[q] \in Mem \cup {None}
             /\ base_[q] # m /\ mem_[q] # m
  BY <1>2, <1>4 DEF CoreTypes, ShapeInv
<1>5. ASSUME NEW q \in Mem, kind'[q] # "new", q \notin wrapped
      PROVE  (mem_'[q] # None => Inside(q, mem_[q])') /\ Inside(q, base_[q])'
  <2>1. CASE q = m
    BY <1>1, <1>2, <1>3, <2>1 DEF Inside
  <2>2. CASE q # m
    <3>1. (mem_[q] # None => Inside(q, mem_[q])) /\ Inside(q, base_[q])
      BY <1>4, <1>5, <2>2 DEF InsideInv, InsideUnlessWrapped, Created
    <3> QED BY <1>2, <1>4, <1>5, <2>2, <3>1 DEF Inside
  <2> QED BY <2>1, <2>2
<1>6. ASSUME NEW q \in Mem, kind'[q] # "new"
      PROVE  offset_'[base_'[q]] = 0
  <2>1. CASE q = m
    BY <1>2, <1>3, <2>1
  <2>2. CASE q # m
    BY <1>2, <1>4, <1>6, <2>2 DEF InsideInv, Created
  <2> QED BY <2>1, <2>2
<1> QED BY <1>2, <1>5, <1>6 DEF InsideInv, InsideUnlessWrapped, Created

LEMMA NextInside == MemIInv /\ InsideInv /\ [MemNext]_memVars => InsideInv'
<1> SUFFICES ASSUME MemIInv, InsideInv, [MemNext]_memVars PROVE InsideInv'
  OBVIOUS
<1>1. ASSUME NEW m \in Mem, NEW size \in SlabSize, NEW visible \in BOOLEAN,
             NEW allocator \in BOOLEAN, NewSlab(m, size, visible, allocator)
      PROVE  InsideInv'
  BY <1>1, NewSlabInside
<1>2. ASSUME NEW m \in Mem, NEW p \in Mem, NEW size \in Request,
             NEW offset \in Request, Allocate(m, p, size, offset)
      PROVE  InsideInv'
  <2>1. MappedPtr(p, offset) \in Int
    BY RequestAssumption, WordsAssumption DEF MappedPtr, MemIInv, CoreTypes
  <2>2. size \in 0..(Words - 1) /\ offset \in 0..(Words - 1)
    BY RequestAssumption
  <2>3. /\ Usable(p) /\ kind[m] = "new" /\ Fits(p, size, offset)
        /\ Make(m, p, "range", size, offset, MappedPtr(p, offset))
    BY <1>2 DEF Allocate
  <2> QED BY <2>1, <2>2, <2>3, MakeInside
<1>3. ASSUME NEW m \in Mem, NEW p \in Mem, NEW size \in Request,
             NEW offset \in BufferOffset, NewBuffer(m, p, size, offset)
      PROVE  InsideInv'
  <2>1. mapped_ptr_[p] \in Int
    BY DEF MemIInv, CoreTypes
  <2>2. size \in 0..(Words - 1) /\ offset \in 0..(Words - 1)
    BY RequestAssumption
  <2>3. /\ Usable(p) /\ kind[m] = "new" /\ Fits(p, size, offset)
        /\ Make(m, p, "buffer", size, offset, mapped_ptr_[p])
    BY <1>3 DEF NewBuffer
  <2> QED BY <2>1, <2>2, <2>3, MakeInside
<1>4. ASSUME UNCHANGED <<mem_, base_, offset_, size_, wrapped>>,
             \A m \in Mem : kind[m] = "new" => kind'[m] = "new"
      PROVE  InsideInv'
  BY <1>4 DEF InsideInv, InsideUnlessWrapped, Inside, Created
<1>5. ASSUME NEW m \in Mem, Copy(m) \/ Drop(m) \/ DestroySlab(m) \/ DestroyPart(m)
      PROVE  InsideInv'
  <2>1. \A q \in Mem : kind[q] = "new" => kind'[q] = "new"
    BY <1>5 DEF Copy, Drop, DestroySlab, DestroyPart, MemIInv, CoreTypes
  <2>2. UNCHANGED <<mem_, base_, offset_, size_, wrapped>>
    BY <1>5 DEF Copy, Drop, DestroySlab, DestroyPart, shapeVars
  <2> QED BY <1>4, <2>1, <2>2
<1>6. CASE UNCHANGED memVars
  BY <1>4, <1>6 DEF memVars, shapeVars
<1> QED BY <1>1, <1>2, <1>3, <1>5, <1>6 DEF MemNext

(* A range is mapped where it starts, and a buffer where its memory does.  *)
LEMMA NextMapped == MemIInv /\ PointersAreAsMapped /\ [MemNext]_memVars => PointersAreAsMapped'
<1> SUFFICES ASSUME MemIInv, PointersAreAsMapped, [MemNext]_memVars
             PROVE  PointersAreAsMapped'
  OBVIOUS
<1> USE DEF MemIInv
<1>1. ASSUME NEW m \in Mem, NEW size \in SlabSize, NEW visible \in BOOLEAN,
             NEW allocator \in BOOLEAN, NewSlab(m, size, visible, allocator)
      PROVE  PointersAreAsMapped'
  <2>1. /\ kind'[m] = "slab" /\ offset_'[m] = 0 /\ mapped_ptr_'[m] \in {0, -1}
        /\ mem_' = mem_ /\ offset_' = offset_
        /\ \A q \in Mem \ {m} : kind'[q] = kind[q] /\ mapped_ptr_'[q] = mapped_ptr_[q]
    BY <1>1 DEF NewSlab, CoreTypes, ShapeInv
  <2>2. ASSUME NEW q \in Mem, Live(q)', mapped_ptr_'[q] # -1
        PROVE  mapped_ptr_'[q] = offset_'[IF kind'[q] = "buffer" THEN mem_'[q] ELSE q]
    <3>1. CASE q = m
      BY <2>1, <2>2, <3>1
    <3>2. CASE q # m
      BY <2>1, <2>2, <3>2 DEF PointersAreAsMapped, Live
    <3> QED BY <3>1, <3>2
  <2> QED BY <2>2 DEF PointersAreAsMapped
<1>2. ASSUME NEW m \in Mem, NEW p \in Mem, NEW k \in {"range", "buffer"},
             NEW size, NEW offset, NEW mapped, Usable(p), kind[m] = "new",
             Make(m, p, k, size, offset, mapped),
             mapped # -1 => mapped = IF k = "buffer" THEN offset_[p]
                                     ELSE (offset_[p] + offset) % Words
      PROVE  PointersAreAsMapped'
  <2>1. /\ kind'[m] = k /\ mem_'[m] = p /\ mapped_ptr_'[m] = mapped
        /\ offset_'[m] = (offset_[p] + offset) % Words
        /\ \A q \in Mem \ {m} :
             /\ kind'[q] = kind[q] /\ mapped_ptr_'[q] = mapped_ptr_[q]
             /\ mem_'[q] = mem_[q] /\ offset_'[q] = offset_[q]
    BY <1>2 DEF Make, CoreTypes
  <2>2. p # m
    BY <1>2 DEF Usable
  <2>3. ASSUME NEW q \in Mem, Live(q)', mapped_ptr_'[q] # -1
        PROVE  mapped_ptr_'[q] = offset_'[IF kind'[q] = "buffer" THEN mem_'[q] ELSE q]
    <3>1. CASE q = m
      BY <1>2, <2>1, <2>2, <2>3, <3>1
    <3>2. CASE q # m
      <4>1. Live(q) /\ kind[q] # "new"
        BY <2>1, <2>3, <3>2 DEF Live
      <4>2. kind[q] = "buffer" => mem_[q] \in Mem \ {m}
        BY <1>2, <4>1 DEF ShapeInv
      <4> QED BY <2>1, <2>3, <3>2, <4>1, <4>2 DEF PointersAreAsMapped
    <3> QED BY <3>1, <3>2
  <2> QED BY <2>3 DEF PointersAreAsMapped
<1>3. ASSUME NEW p \in Mem, Usable(p), mapped_ptr_[p] # -1
      PROVE  mapped_ptr_[p] = offset_[p]
  BY <1>3 DEF Usable, PointersAreAsMapped, Live
<1>4. ASSUME NEW m \in Mem, NEW p \in Mem, NEW size \in Request,
             NEW offset \in Request, Allocate(m, p, size, offset)
      PROVE  PointersAreAsMapped'
  <2>1. /\ Usable(p) /\ kind[m] = "new"
        /\ Make(m, p, "range", size, offset, MappedPtr(p, offset))
    BY <1>4 DEF Allocate
  <2>2. MappedPtr(p, offset) # -1 => MappedPtr(p, offset) = (offset_[p] + offset) % Words
    BY <1>3, <2>1 DEF MappedPtr
  <2> HIDE DEF MappedPtr
  <2> QED BY <1>2, <2>1, <2>2
<1>5. ASSUME NEW m \in Mem, NEW p \in Mem, NEW size \in Request,
             NEW offset \in BufferOffset, NewBuffer(m, p, size, offset)
      PROVE  PointersAreAsMapped'
  <2>1. /\ Usable(p) /\ kind[m] = "new"
        /\ Make(m, p, "buffer", size, offset, mapped_ptr_[p])
    BY <1>5 DEF NewBuffer
  <2> QED BY <1>2, <1>3, <2>1
<1>6. ASSUME UNCHANGED <<mem_, offset_, mapped_ptr_>>,
             \A m \in Mem : kind'[m] \in {kind[m], "freed"}
      PROVE  PointersAreAsMapped'
  BY <1>6 DEF PointersAreAsMapped, Live
<1>7. ASSUME NEW m \in Mem, Copy(m) \/ Drop(m) \/ DestroySlab(m) \/ DestroyPart(m)
      PROVE  PointersAreAsMapped'
  <2>1. \A q \in Mem : kind'[q] \in {kind[q], "freed"}
    BY <1>7 DEF Copy, Drop, DestroySlab, DestroyPart, CoreTypes
  <2>2. UNCHANGED <<mem_, offset_, mapped_ptr_>>
    BY <1>7 DEF Copy, Drop, DestroySlab, DestroyPart, shapeVars
  <2> QED BY <1>6, <2>1, <2>2
<1>8. CASE UNCHANGED memVars
  BY <1>6, <1>8 DEF memVars, shapeVars
<1> QED BY <1>1, <1>4, <1>5, <1>7, <1>8 DEF MemNext

LEMMA InitInside == MemInit => InsideInv /\ PointersAreAsMapped
  BY DEF MemInit, InsideInv, InsideUnlessWrapped, Created, PointersAreAsMapped, Live

(* For any words, requests and buffer offsets: the one way in which a      *)
(* range or a buffer gets outside what it was taken from, or outside its   *)
(* slab, is a sum that wrapped in GpuMem::Allocate() or Buffer::Buffer(),  *)
(* for it or for what it was taken from; and every mapped GpuMem, wrapped  *)
(* or not, has the address of its own first byte, every mapped Buffer that *)
(* of the memory it is bound to.                                           *)
THEOREM RangesStaySound == MemSpec => []RangesAreSound
<1>1. InsideInv => InsideUnlessWrapped
  BY DEF InsideInv
<1> QED BY <1>1, MemInitIInv, MemNextIInv, InitInside, NextInside, NextMapped,
           PTL DEF MemSpec, RangesAreSound

(* The types of what the reference counts do not depend on. *)
Rest ==
  /\ allocator_ \in [Mem -> BOOLEAN]
  /\ total_slab_bytes_ \in 0..(Words - 1) /\ slab_count_ \in Int
  /\ taken \in [Mem -> SUBSET Mem]
  /\ wrapped \subseteq Mem

(* Every counter is a word, every flag a flag, in every reachable state:   *)
(* also the sums and differences of total_slab_bytes_ (gpu_allocator.cc).  *)
THEOREM TypeCorrect == MemSpec => []MemTypeOK
<1>1. MemInit => MemTypeOK
  BY WordsAssumption DEF MemInit, MemTypeOK
<1>2. MemIInv /\ MemTypeOK /\ MemIInv' /\ [MemNext]_memVars => MemTypeOK'
  <2> SUFFICES ASSUME MemIInv, MemTypeOK, MemIInv', [MemNext]_memVars PROVE MemTypeOK'
    OBVIOUS
  <2>1. CoreTypes' /\ Rest' => MemTypeOK'
    BY DEF CoreTypes, Kinds, MemTypeOK, Rest
  <2>2. Rest
    BY DEF MemTypeOK, Rest
  <2>3. ASSUME NEW m \in Mem, NEW size \in SlabSize, NEW visible \in BOOLEAN,
               NEW allocator \in BOOLEAN, NewSlab(m, size, visible, allocator)
        PROVE  Rest'
    <3>1. size \in 0..(Words - 1)
      BY RequestAssumption
    <3>2. (total_slab_bytes_ + size) % Words \in 0..(Words - 1)
      BY <2>2, <3>1, WordsAssumption DEF Rest
    <3> QED BY <2>2, <2>3, <3>2 DEF NewSlab, Rest, countVars
  <2>4. ASSUME NEW m \in Mem, NEW p \in Mem, NEW size \in Request, NEW offset \in Request,
               Allocate(m, p, size, offset)
        PROVE  Rest'
    BY <2>2, <2>4 DEF Allocate, Make, Wrapped, Rest, countVars
  <2>5. ASSUME NEW m \in Mem, NEW p \in Mem, NEW size \in Request, NEW offset \in BufferOffset,
               NewBuffer(m, p, size, offset)
        PROVE  Rest'
    BY <2>2, <2>5 DEF NewBuffer, Make, Wrapped, Rest, countVars
  <2>6. ASSUME NEW m \in Mem, Copy(m) \/ Drop(m)
        PROVE  Rest'
    BY <2>2, <2>6 DEF Copy, Drop, Rest, shapeVars, countVars
  <2>7. ASSUME NEW m \in Mem, DestroySlab(m)
        PROVE  Rest'
    <3>1. (total_slab_bytes_ - size_[m]) % Words \in 0..(Words - 1)
      BY <2>2, WordsAssumption DEF Rest, MemIInv, CoreTypes
    <3> QED BY <2>2, <2>7, <3>1 DEF DestroySlab, Rest, shapeVars, countVars
  <2>8. ASSUME NEW m \in Mem, DestroyPart(m)
        PROVE  Rest'
    BY <2>2, <2>8 DEF DestroyPart, OnAllocationDestroyed, Rest, shapeVars, countVars
  <2>9. ASSUME UNCHANGED memVars PROVE Rest'
    BY <2>2, <2>9 DEF memVars, shapeVars, countVars, Rest
  <2>10. Rest'
    BY <2>3, <2>4, <2>5, <2>6, <2>7, <2>8, <2>9 DEF MemNext
  <2> QED BY <2>1, <2>10 DEF MemIInv
<1> QED BY <1>1, <1>2, MemInitIInv, MemNextIInv, PTL DEF MemSpec
------------------------------------------------------------------------------
(* What the allocators are told.  An allocator has noted what is taken of  *)
(* its slabs, also while destructors run, and counts its slabs.            *)
Taken(s) == {m \in Mem : kind[m] = "range" /\ mem_[m] = s /\ kind[s] = "slab"}

Slabs == {m \in Mem : kind[m] = "slab" /\ allocator_[m]}

BookInv ==
  /\ \A s \in Mem : taken[s] = Taken(s)
  /\ slab_count_ = Cardinality(Slabs)
  /\ taken \in [Mem -> SUBSET Mem] /\ allocator_ \in [Mem -> BOOLEAN]

LEMMA SlabsFinite == IsFiniteSet(Slabs) /\ Cardinality(Slabs) \in Nat
  BY MemAssumption, FS_Subset, FS_CardinalityType DEF Slabs

LEMMA NewSlabBook ==
  ASSUME MemIInv, BookInv, NEW m \in Mem, NEW size \in SlabSize,
         NEW visible \in BOOLEAN, NEW allocator \in BOOLEAN,
         NewSlab(m, size, visible, allocator)
  PROVE  BookInv'
<1>1. /\ kind[m] = "new" /\ kind' = [kind EXCEPT ![m] = "slab"]
      /\ allocator_' = [allocator_ EXCEPT ![m] = allocator]
      /\ slab_count_' = IF allocator THEN slab_count_ + 1 ELSE slab_count_
      /\ mem_' = mem_ /\ taken' = taken
  BY DEF NewSlab, countVars
<1>2. kind \in [Mem -> Kinds] /\ allocator_ \in [Mem -> BOOLEAN]
  BY DEF MemIInv, CoreTypes, BookInv
<1>3. ASSUME NEW s \in Mem PROVE Taken(s)' = Taken(s)
  <2>1. \A c \in Mem : kind[c] = "range" => mem_[c] # m
    BY <1>1 DEF MemIInv, ShapeInv
  <2> QED BY <1>1, <1>2, <2>1 DEF Taken
<1>4. Slabs' = IF allocator THEN Slabs \cup {m} ELSE Slabs
  BY <1>1, <1>2 DEF Slabs
<1>5. m \notin Slabs
  BY <1>1 DEF Slabs
<1>6. slab_count_' = Cardinality(Slabs')
  BY <1>1, <1>4, <1>5, SlabsFinite, FS_AddElement DEF BookInv
<1> QED BY <1>1, <1>2, <1>3, <1>6 DEF BookInv

LEMMA MakeBook ==
  ASSUME MemIInv, BookInv, NEW m \in Mem, NEW p \in Mem, NEW k \in {"range", "buffer"},
         NEW size, NEW offset, NEW mapped,
         Usable(p), kind[m] = "new", Make(m, p, k, size, offset, mapped),
         taken' = IF k = "range" /\ kind[p] = "slab"
                  THEN [taken EXCEPT ![p] = @ \cup {m}] ELSE taken
  PROVE  BookInv'
<1>1. /\ kind' = [kind EXCEPT ![m] = k] /\ mem_' = [mem_ EXCEPT ![m] = p]
      /\ allocator_' = allocator_ /\ slab_count_' = slab_count_
  BY DEF Make, countVars
<1>2. /\ kind \in [Mem -> Kinds] /\ allocator_ \in [Mem -> BOOLEAN]
      /\ mem_ \in [Mem -> Mem \cup {None}] /\ taken \in [Mem -> SUBSET Mem]
  BY DEF MemIInv, CoreTypes, BookInv
<1>3. kind[p] \in {"slab", "range"} /\ p # m
  BY DEF Usable
<1>4. Slabs' = Slabs
  BY <1>1, <1>2 DEF Slabs
<1>5. ASSUME NEW s \in Mem PROVE taken'[s] = Taken(s)'
  <2>1. Taken(s)' = IF s = p /\ k = "range" /\ kind[p] = "slab"
                    THEN Taken(s) \cup {m} ELSE Taken(s)
    BY <1>1, <1>2, <1>3 DEF Taken
  <2>2. taken[s] = Taken(s)
    BY DEF BookInv
  <2> QED BY <1>2, <2>1, <2>2
<1>6. taken' \in [Mem -> SUBSET Mem]
  BY <1>2
<1> QED BY <1>1, <1>2, <1>4, <1>5, <1>6 DEF BookInv

LEMMA DestroySlabBook ==
  ASSUME MemIInv, BookInv, NEW m \in Mem, DestroySlab(m)
  PROVE  BookInv'
<1>1. /\ dying = m /\ kind[m] = "slab" /\ kind' = [kind EXCEPT ![m] = "freed"]
      /\ slab_count_' = IF allocator_[m] THEN slab_count_ - 1 ELSE slab_count_
      /\ mem_' = mem_ /\ taken' = taken /\ allocator_' = allocator_
  BY DEF DestroySlab, countVars, shapeVars
<1>2. kind \in [Mem -> Kinds] /\ allocator_ \in [Mem -> BOOLEAN]
  BY DEF MemIInv, CoreTypes, BookInv
<1>3. Users(m) = {}
  <2>1. m # None
    BY MemAssumption
  <2>2. refs[m] = 0 /\ refs[m] = held[m] + Cardinality(Users(m)) /\ held[m] \in Nat
    BY <1>1, <2>1 DEF MemIInv, RefsInv, CoreTypes
  <2> QED BY <2>2, UsersFinite, FS_EmptySet
<1>4. \A c \in Mem : kind[c] = "range" => mem_[c] # m
  BY <1>3 DEF Users, Live
<1>5. ASSUME NEW s \in Mem PROVE Taken(s)' = Taken(s)
  BY <1>1, <1>2, <1>4 DEF Taken
<1>6. Slabs' = Slabs \ {m} /\ (m \in Slabs <=> allocator_[m])
  BY <1>1, <1>2 DEF Slabs
<1>7. slab_count_' = Cardinality(Slabs')
  BY <1>1, <1>6, SlabsFinite, FS_RemoveElement DEF BookInv
<1> QED BY <1>1, <1>5, <1>7 DEF BookInv

LEMMA DestroyPartBook ==
  ASSUME MemIInv, BookInv, NEW m \in Mem, DestroyPart(m)
  PROVE  BookInv'
<1> DEFINE p == mem_[m]
<1>1. /\ kind[m] \in {"range", "buffer"} /\ kind' = [kind EXCEPT ![m] = "freed"]
      /\ taken' = IF kind[m] = "range" /\ kind[p] = "slab"
                  THEN [taken EXCEPT ![p] = @ \ {m}] ELSE taken
      /\ mem_' = mem_ /\ allocator_' = allocator_ /\ slab_count_' = slab_count_
  BY DEF DestroyPart, OnAllocationDestroyed, countVars, shapeVars
<1>2. /\ kind \in [Mem -> Kinds] /\ allocator_ \in [Mem -> BOOLEAN]
      /\ taken \in [Mem -> SUBSET Mem] /\ p \in Mem
  BY <1>1 DEF MemIInv, CoreTypes, BookInv, ShapeInv
<1>3. ASSUME NEW s \in Mem PROVE taken'[s] = Taken(s)'
  <2>1. Taken(s)' = IF s = p /\ kind[m] = "range" /\ kind[p] = "slab"
                    THEN Taken(s) \ {m} ELSE Taken(s)
    BY <1>1, <1>2 DEF Taken
  <2>2. taken[s] = Taken(s)
    BY DEF BookInv
  <2> QED BY <1>1, <1>2, <2>1, <2>2
<1>4. Slabs' = Slabs
  BY <1>1, <1>2 DEF Slabs
<1>5. taken' \in [Mem -> SUBSET Mem]
  BY <1>1, <1>2
<1> QED BY <1>1, <1>3, <1>4, <1>5 DEF BookInv

LEMMA NextBook == MemIInv /\ BookInv /\ [MemNext]_memVars => BookInv'
<1> SUFFICES ASSUME MemIInv, BookInv, [MemNext]_memVars PROVE BookInv'
  OBVIOUS
<1>1. ASSUME NEW m \in Mem, NEW p \in Mem, NEW size \in Request,
             NEW offset \in Request, Allocate(m, p, size, offset)
      PROVE  BookInv'
  BY <1>1, MakeBook DEF Allocate
<1>2. ASSUME NEW m \in Mem, NEW p \in Mem, NEW size \in Request,
             NEW offset \in BufferOffset, NewBuffer(m, p, size, offset)
      PROVE  BookInv'
  BY <1>2, MakeBook DEF NewBuffer
<1>3. ASSUME UNCHANGED <<kind, shapeVars, countVars, taken>> PROVE BookInv'
  BY <1>3 DEF shapeVars, countVars, BookInv, Taken, Slabs
<1>4. ASSUME NEW m \in Mem, Copy(m) \/ Drop(m) PROVE BookInv'
  BY <1>3, <1>4 DEF Copy, Drop
<1>5. CASE UNCHANGED memVars
  BY <1>3, <1>5 DEF memVars
<1> QED BY <1>1, <1>2, <1>4, <1>5, NewSlabBook, DestroySlabBook, DestroyPartBook DEF MemNext

LEMMA InitBook == MemInit => BookInv
<1> SUFFICES ASSUME MemInit PROVE BookInv
  OBVIOUS
<1>1. Slabs = {} /\ \A s \in Mem : Taken(s) = {}
  BY DEF MemInit, Slabs, Taken
<1> QED BY <1>1, FS_EmptySet DEF MemInit, BookInv

LEMMA WordsModPlus ==
  ASSUME NEW x \in Nat, NEW b \in Int
  PROVE  ((x % Words) + b) % Words = (x + b) % Words
<1>1. Words \in Nat /\ Words # 0 /\ x \in Int
  BY WordsAssumption
<1> QED BY <1>1, ModPlus

(* The bytes of the slabs, counted in one word. *)
BytesInv == total_slab_bytes_ = SumOver(size_, Slabs) % Words

LEMMA BytesOfSame ==
  ASSUME CoreTypes, BytesInv, NEW m \in Mem, m \notin Slabs,
         total_slab_bytes_' = total_slab_bytes_, Slabs' = Slabs,
         \A s \in Mem : s # m => size_'[s] = size_[s]
  PROVE  BytesInv'
<1>1. IsFiniteSet(Slabs) /\ \A s \in Slabs : s \in Mem /\ size_[s] \in Nat
  BY SlabsFinite, WordsAssumption DEF Slabs, CoreTypes
<1>2. \A s \in Slabs : size_[s] = size_'[s]
  BY <1>1
<1>3. SumOver(size_, Slabs) = SumOver(size_', Slabs)
  BY <1>1, <1>2, SumOfSame
<1> QED BY <1>3 DEF BytesInv

LEMMA NewSlabBytes ==
  ASSUME CoreTypes, BookInv, BytesInv, NEW m \in Mem, NEW size \in SlabSize,
         NEW visible \in BOOLEAN, NEW allocator \in BOOLEAN,
         NewSlab(m, size, visible, allocator)
  PROVE  BytesInv'
<1>1. /\ kind[m] = "new" /\ kind' = [kind EXCEPT ![m] = "slab"]
      /\ allocator_' = [allocator_ EXCEPT ![m] = allocator]
      /\ size_' = [size_ EXCEPT ![m] = size]
      /\ total_slab_bytes_' = IF allocator THEN (total_slab_bytes_ + size) % Words
                                          ELSE total_slab_bytes_
  BY DEF NewSlab, countVars
<1>2. /\ kind \in [Mem -> Kinds] /\ allocator_ \in [Mem -> BOOLEAN]
      /\ size_ \in [Mem -> 0..(Words - 1)]
  BY DEF CoreTypes, BookInv
<1>3. m \notin Slabs /\ Slabs' = IF allocator THEN Slabs \cup {m} ELSE Slabs
  BY <1>1, <1>2 DEF Slabs
<1>4. size_'[m] = size /\ \A s \in Mem : s # m => size_'[s] = size_[s]
  BY <1>1, <1>2
<1>5. CASE ~allocator
  BY <1>1, <1>3, <1>4, <1>5, BytesOfSame
<1>6. CASE allocator
  <2> DEFINE T == Slabs'
  <2>1. T = Slabs \cup {m} /\ IsFiniteSet(T) /\ T \ {m} = Slabs /\ m \in T
    BY <1>3, <1>6, SlabsFinite, FS_AddElement
  <2>2. size \in Nat /\ \A s \in Slabs : s \in Mem /\ size_[s] \in Nat
    BY <1>2, RequestAssumption, WordsAssumption DEF Slabs
  <2>3. \A s \in Slabs : size_[s] = size_'[s]
    BY <1>3, <1>4, <2>2
  <2>4. SumOver(size_, Slabs) = SumOver(size_', Slabs) /\ SumOver(size_, Slabs) \in Nat
    BY <2>2, <2>3, SlabsFinite, SumOfSame
  <2>5. \A s \in T : size_'[s] \in Nat
    BY <1>4, <2>1, <2>2, <2>3
  <2>6. SumOver(size_', T) = size + SumOver(size_, Slabs)
    BY <1>4, <2>1, <2>4, <2>5, SumOfRest
  <2>7. ((SumOver(size_, Slabs) % Words) + size) % Words = (SumOver(size_, Slabs) + size) % Words
    <3>1. size \in Int
      BY <2>2
    <3> QED BY <2>4, <3>1, WordsModPlus
  <2>8. total_slab_bytes_' = SumOver(size_', T) % Words
    BY <1>1, <1>6, <2>2, <2>4, <2>6, <2>7 DEF BytesInv
  <2> QED BY <2>8 DEF BytesInv
<1> QED BY <1>5, <1>6

LEMMA DestroySlabBytes ==
  ASSUME CoreTypes, BookInv, BytesInv, NEW m \in Mem, DestroySlab(m)
  PROVE  BytesInv'
<1>1. /\ kind[m] = "slab" /\ kind' = [kind EXCEPT ![m] = "freed"]
      /\ total_slab_bytes_' = IF allocator_[m]
                              THEN (total_slab_bytes_ - size_[m]) % Words
                              ELSE total_slab_bytes_
      /\ allocator_' = allocator_ /\ size_' = size_
  BY DEF DestroySlab, countVars, shapeVars
<1>2. /\ kind \in [Mem -> Kinds] /\ allocator_ \in [Mem -> BOOLEAN]
      /\ size_ \in [Mem -> 0..(Words - 1)]
  BY DEF CoreTypes, BookInv
<1>3. Slabs' = Slabs \ {m} /\ (m \in Slabs <=> allocator_[m])
  BY <1>1, <1>2 DEF Slabs
<1>4. CASE ~allocator_[m]
  <2>1. m \notin Slabs /\ Slabs' = Slabs
    BY <1>3, <1>4
  <2> QED BY <1>1, <1>4, <2>1, BytesOfSame
<1>5. CASE allocator_[m]
  <2>1. \A s \in Slabs : s \in Mem /\ size_[s] \in Nat
    BY <1>2, WordsAssumption DEF Slabs
  <2>2. /\ SumOver(size_, Slabs) = size_[m] + SumOver(size_, Slabs \ {m})
        /\ SumOver(size_, Slabs) \in Nat /\ SumOver(size_, Slabs \ {m}) \in Nat
    BY <1>3, <1>5, <2>1, SlabsFinite, SumOfRest
  <2>3. size_[m] \in Nat /\ 0 - size_[m] \in Int
    BY <1>2, WordsAssumption
  <2>4. ((SumOver(size_, Slabs) % Words) + (0 - size_[m])) % Words
          = (SumOver(size_, Slabs) + (0 - size_[m])) % Words
    BY <2>2, <2>3, WordsModPlus
  <2>5. SumOver(size_, Slabs) + (0 - size_[m]) = SumOver(size_, Slabs \ {m})
    BY <2>2, <2>3
  <2>6. (SumOver(size_, Slabs) % Words) + (0 - size_[m])
          = (SumOver(size_, Slabs) % Words) - size_[m]
    BY <2>2, <2>3, WordsAssumption
  <2>7. total_slab_bytes_' = SumOver(size_, Slabs \ {m}) % Words
    BY <1>1, <1>5, <2>4, <2>5, <2>6 DEF BytesInv
  <2> QED BY <1>1, <1>3, <2>7 DEF BytesInv
<1> QED BY <1>4, <1>5

LEMMA NextBytes ==
  CoreTypes /\ BookInv /\ BytesInv /\ [MemNext]_memVars => BytesInv'
<1> SUFFICES ASSUME CoreTypes, BookInv, BytesInv, [MemNext]_memVars PROVE BytesInv'
  OBVIOUS
<1>1. ASSUME NEW m \in Mem, NEW p \in Mem, NEW k \in {"range", "buffer"},
             NEW size, NEW offset, NEW mapped, kind[m] = "new",
             Make(m, p, k, size, offset, mapped)
      PROVE  BytesInv'
  <2>1. /\ kind' = [kind EXCEPT ![m] = k] /\ allocator_' = allocator_
        /\ size_' = [size_ EXCEPT ![m] = size]
        /\ total_slab_bytes_' = total_slab_bytes_
    BY <1>1 DEF Make, countVars
  <2>2. m \notin Slabs /\ Slabs' = Slabs
    BY <1>1, <2>1 DEF Slabs, CoreTypes
  <2>3. \A s \in Mem : s # m => size_'[s] = size_[s]
    BY <2>1 DEF CoreTypes
  <2> QED BY <2>1, <2>2, <2>3, BytesOfSame
<1>2. ASSUME NEW m \in Mem, NEW p \in Mem, NEW size \in Request,
             NEW offset \in Request, Allocate(m, p, size, offset)
      PROVE  BytesInv'
  BY <1>1, <1>2 DEF Allocate
<1>3. ASSUME NEW m \in Mem, NEW p \in Mem, NEW size \in Request,
             NEW offset \in BufferOffset, NewBuffer(m, p, size, offset)
      PROVE  BytesInv'
  BY <1>1, <1>3 DEF NewBuffer
<1>4. ASSUME NEW m \in Mem, DestroyPart(m) PROVE BytesInv'
  <2>1. /\ kind[m] \in {"range", "buffer"} /\ kind' = [kind EXCEPT ![m] = "freed"]
        /\ allocator_' = allocator_ /\ size_' = size_
        /\ total_slab_bytes_' = total_slab_bytes_
    BY <1>4 DEF DestroyPart, countVars, shapeVars
  <2>2. m \notin Slabs /\ Slabs' = Slabs
    BY <2>1 DEF Slabs, CoreTypes
  <2> QED BY <2>1, <2>2, BytesOfSame
<1>5. ASSUME UNCHANGED <<kind, shapeVars, countVars>> PROVE BytesInv'
  <2>1. Slabs' = Slabs /\ size_' = size_ /\ total_slab_bytes_' = total_slab_bytes_
    BY <1>5 DEF shapeVars, countVars, Slabs
  <2> QED BY <2>1 DEF BytesInv
<1>6. ASSUME NEW m \in Mem, Copy(m) \/ Drop(m) PROVE BytesInv'
  BY <1>5, <1>6 DEF Copy, Drop
<1>7. CASE UNCHANGED memVars
  BY <1>5, <1>7 DEF memVars
<1> QED BY <1>2, <1>3, <1>4, <1>6, <1>7, NewSlabBytes, DestroySlabBytes DEF MemNext

LEMMA InitBytes == MemInit => BytesInv
<1> SUFFICES ASSUME MemInit PROVE BytesInv
  OBVIOUS
<1>1. Slabs = {} /\ total_slab_bytes_ = 0
  BY DEF MemInit, Slabs
<1>2. 0 % Words = 0
  BY WordsAssumption, ModSmall
<1> QED BY <1>1, <1>2, SumOfNone DEF BytesInv

(* An allocator that is told of every range that ends knows, whatever the  *)
(* order of destructors, which ranges of its slabs are taken, and the      *)
(* counters of gpu_allocator.cc, which its destructor insists are zero,    *)
(* are the number of the slabs there are and the sum of their sizes.       *)
THEOREM AllocatorsKnowTheirSlabs == MemSpec => []AllocatorsAreInformed
<1>1. BookInv => BookkeepingIsExact
  BY DEF BookInv, BookkeepingIsExact, Taken
<1>2. BookInv /\ BytesInv => SlabsAccountedFor
  BY DEF BookInv, BytesInv, SlabsAccountedFor, Slabs, SumOver
<1>3. BookInv /\ BytesInv => AllocatorsAreInformed
  BY <1>1, <1>2 DEF AllocatorsAreInformed
<1>4. MemIInv => CoreTypes
  BY DEF MemIInv
<1> QED BY <1>3, <1>4, MemInitIInv, MemNextIInv, InitBook, NextBook, InitBytes, NextBytes,
           PTL DEF MemSpec
------------------------------------------------------------------------------
RecyclingTypes ==
  /\ items \in [Handle -> SUBSET made]
  /\ free \subseteq made
  /\ handles_held \subseteq Handle
  /\ used_resources \in [1..MaxSequence -> SUBSET Handle]
  /\ parts \in [Wrapper -> SUBSET Handle]
  /\ held_wrappers \subseteq Wrapper
  /\ wrapper_number \in [Wrapper -> Nat]
  /\ uses \in [1..MaxSequence -> SUBSET made]

(* An item is free or belongs to one handle.                               *)
ItemInv ==
  /\ \A h \in Handle : items[h] \cap free = {}
  /\ \A h, k \in Handle : h # k => items[h] \cap items[k] = {}
  /\ \A i \in made : i \in free \/ \E h \in Handle : i \in items[h]

(* Something refers to item i on behalf of command buffer n: the buffer    *)
(* itself, or a wrapper that a recycler keeps until n is announced.        *)
KeptFor(n, i) ==
  \/ \E h \in used_resources[n] : i \in items[h]
  \/ \E w \in Wrapper : /\ n <= wrapper_number[w]
                        /\ \E h \in parts[w] : i \in items[h]

UseInv ==
  /\ \A n \in 1..MaxSequence : n \notin 1..issued => uses[n] = {}
  /\ \A n \in recording \cup executing : \A i \in uses[n] : KeptFor(n, i)

(* A live handle is referred to, by nothing that is over.                  *)
ReferenceInv ==
  /\ \A h \in Handle : items[h] # {} =>
        \/ h \in handles_held
        \/ \E n \in 1..MaxSequence : h \in used_resources[n]
        \/ \E w \in Wrapper : h \in parts[w]
  /\ \A n \in 1..MaxSequence :
        used_resources[n] # {} => n \in 1..issued /\ n \notin finished
  /\ \A w \in Wrapper :
        parts[w] # {} => w \in held_wrappers \/ announced < wrapper_number[w]

IInv == CommandInv /\ RecyclingTypes /\ ItemInv /\ UseInv /\ ReferenceInv

LEMMA InitIInv == RecyclingInit => IInv
<1> SUFFICES ASSUME RecyclingInit PROVE IInv
  OBVIOUS
<1>1. CommandInv
  BY InitCommandInv DEF RecyclingInit
<1>2. free = made
  BY DEF RecyclingInit
<1>3. recording = {} /\ executing = {}
  BY DEF RecyclingInit, Init
<1>4. RecyclingTypes /\ ItemInv
  BY <1>2 DEF RecyclingInit, RecyclingTypes, ItemInv
<1>5. UseInv /\ ReferenceInv
  BY <1>3 DEF RecyclingInit, UseInv, ReferenceInv
<1> QED BY <1>1, <1>4, <1>5 DEF IInv

------------------------------------------------------------------------------
(* What is taken from a pool was free or is new, whichever pool it is.     *)
LEMMA TakeProperties ==
  ASSUME IInv, NEW h \in Handle, NEW family, NEW count, NEW growth,
         Take(h, family, count, growth)
  PROVE  /\ made \subseteq made'
         /\ items' \in [Handle -> SUBSET made'] /\ free' \subseteq made'
         /\ \A k \in Handle : items[k] # {} => k # h /\ items'[k] = items[k]
         /\ \A k \in Handle : k # h => items'[k] = items[k]
         /\ ItemInv'
         /\ handles_held' = handles_held \cup {h}
<1> DEFINE old == free \cap family
<1>1. PICK new \in NewItems(family, IF Cardinality(old) < count THEN growth ELSE 0) :
        \E chosen \in kSubset(count, old \cup new) :
           /\ items' = [items EXCEPT ![h] = chosen]
           /\ free' = (free \cup new) \ chosen
           /\ made' = made \cup new
  BY DEF Take
<1>2. PICK chosen \in kSubset(count, old \cup new) :
           /\ items' = [items EXCEPT ![h] = chosen]
           /\ free' = (free \cup new) \ chosen
           /\ made' = made \cup new
  BY <1>1
<1>3. new \cap made = {} /\ chosen \subseteq free \cup new
  BY DEF NewItems, kSubset
<1>4. items[h] = {} /\ handles_held' = handles_held \cup {h}
  BY DEF Take
<1>5. items \in [Handle -> SUBSET made] /\ free \subseteq made /\ ItemInv
  BY DEF IInv, RecyclingTypes
<1>6. items'[h] = chosen /\ \A k \in Handle : k # h => items'[k] = items[k]
  BY <1>2, <1>5
<1> HIDE DEF old
<1>7. items' \in [Handle -> SUBSET made'] /\ free' \subseteq made'
  BY <1>2, <1>3, <1>5
<1>8. ItemInv'
  <2>1. \A k \in Handle : items'[k] \cap free' = {}
    BY <1>2, <1>3, <1>5, <1>6 DEF ItemInv
  <2>2. \A k, l \in Handle : k # l => items'[k] \cap items'[l] = {}
    BY <1>3, <1>5, <1>6 DEF ItemInv
  <2>3. \A i \in made' : i \in free' \/ \E k \in Handle : i \in items'[k]
    BY <1>2, <1>3, <1>4, <1>5, <1>6 DEF ItemInv
  <2> QED BY <2>1, <2>2, <2>3 DEF ItemInv
<1> QED BY <1>2, <1>4, <1>6, <1>7, <1>8

(* What nobody refers to any more is free, and nothing else is.            *)
LEMMA GiveBackProperties ==
  ASSUME IInv, NEW client,
         NEW retained \in [1..MaxSequence -> SUBSET Handle],
         NEW kept \in [Wrapper -> SUBSET Handle],
         GiveBack(client, retained, kept)
  PROVE  /\ made' = made
         /\ items' \in [Handle -> SUBSET made'] /\ free' \subseteq made'
         /\ ItemInv'
         /\ \A h \in Handle : items'[h] # {} =>
              \/ h \in client
              \/ \E n \in 1..MaxSequence : h \in retained[n]
              \/ \E w \in Wrapper : h \in kept[w]
         /\ \A n \in 1..MaxSequence : \A h \in retained[n] : items'[h] = items[h]
         /\ \A w \in Wrapper : \A h \in kept[w] : items'[h] = items[h]
<1> DEFINE holding == Referenced(client, retained, kept)
           gone == LiveHandles \ holding
<1>1. /\ items' = [h \in Handle |-> IF h \in gone THEN {} ELSE items[h]]
      /\ free' = free \cup UNION {items[h] : h \in gone}
      /\ made' = made
  BY DEF GiveBack
<1>2. \A h : h \in holding <=> \/ h \in client
                               \/ \E n \in 1..MaxSequence : h \in retained[n]
                               \/ \E w \in Wrapper : h \in kept[w]
  BY DEF Referenced
<1>3. \A h \in Handle : h \in gone <=> items[h] # {} /\ h \notin holding
  BY DEF LiveHandles
<1>4. gone \subseteq Handle
  BY DEF LiveHandles
<1> HIDE DEF holding, gone
<1>5. \A i : i \in free' <=> i \in free \/ \E h \in gone : i \in items[h]
  BY <1>1
<1>6. \A h \in Handle : items'[h] = IF h \in gone THEN {} ELSE items[h]
  BY <1>1
<1>7. items \in [Handle -> SUBSET made] /\ free \subseteq made /\ ItemInv
  BY DEF IInv, RecyclingTypes
<1>8. items' \in [Handle -> SUBSET made'] /\ free' \subseteq made'
  BY <1>1, <1>4, <1>5, <1>6, <1>7
<1>9. ItemInv'
  <2>1. \A h \in Handle : items'[h] \cap free' = {}
    BY <1>4, <1>5, <1>6, <1>7 DEF ItemInv
  <2>2. \A h, k \in Handle : h # k => items'[h] \cap items'[k] = {}
    BY <1>6, <1>7 DEF ItemInv
  <2>3. \A i \in made' : i \in free' \/ \E h \in Handle : i \in items'[h]
    BY <1>1, <1>4, <1>5, <1>6, <1>7 DEF ItemInv
  <2> QED BY <2>1, <2>2, <2>3 DEF ItemInv
<1>10. \A h \in Handle : h \in holding => items'[h] = items[h]
  BY <1>3, <1>6
<1>11. \A h \in Handle : items'[h] # {} => h \in holding
  BY <1>3, <1>6
<1> QED BY <1>1, <1>2, <1>8, <1>9, <1>10, <1>11

------------------------------------------------------------------------------
(* Allocations.  What a live handle stands for does not change.            *)

LEMMA KeptWhileTaking ==
  ASSUME IInv,
         \A k \in Handle : items[k] # {} => items'[k] = items[k],
         \A n \in 1..MaxSequence : used_resources[n] \subseteq used_resources'[n],
         UNCHANGED <<parts, wrapper_number>>,
         NEW n \in 1..MaxSequence, NEW i, KeptFor(n, i)
  PROVE  KeptFor(n, i)'
<1>1. CASE \E h \in used_resources[n] : i \in items[h]
  <2>1. PICK h \in used_resources[n] : i \in items[h]
    BY <1>1
  <2>2. h \in used_resources'[n] /\ items'[h] = items[h]
    BY <2>1 DEF IInv, RecyclingTypes
  <2> QED BY <2>1, <2>2 DEF KeptFor
<1>2. CASE \E w \in Wrapper : /\ n <= wrapper_number[w]
                              /\ \E h \in parts[w] : i \in items[h]
  <2>1. PICK w \in Wrapper : /\ n <= wrapper_number[w]
                             /\ \E h \in parts[w] : i \in items[h]
    BY <1>2
  <2>2. PICK h \in parts[w] : i \in items[h]
    BY <2>1
  <2>3. items'[h] = items[h]
    BY <2>2 DEF IInv, RecyclingTypes
  <2> QED BY <2>1, <2>2, <2>3 DEF KeptFor
<1> QED BY <1>1, <1>2 DEF KeptFor

(* Allocate() and NewImage(), for nobody but the client. *)
LEMMA TakeIInv ==
  ASSUME IInv, NEW h \in Handle, NEW family, NEW count, NEW growth,
         Take(h, family, count, growth),
         UNCHANGED <<commandVars, used_resources, wrapperVars, uses>>
  PROVE  IInv'
<1> USE DEF IInv
<1>1. /\ made \subseteq made'
      /\ items' \in [Handle -> SUBSET made'] /\ free' \subseteq made'
      /\ \A k \in Handle : items[k] # {} => k # h /\ items'[k] = items[k]
      /\ \A k \in Handle : k # h => items'[k] = items[k]
      /\ ItemInv'
      /\ handles_held' = handles_held \cup {h}
  BY TakeProperties
<1>2. CommandInv'
  BY DEF CommandInv, commandVars
<1>3. /\ UNCHANGED <<issued, finished, announced, recording, executing>>
      /\ UNCHANGED <<parts, held_wrappers, wrapper_number>>
  BY DEF commandVars, wrapperVars
<1>4. RecyclingTypes'
  BY <1>1, <1>3 DEF RecyclingTypes
<1>5. UseInv'
  <2>1. ASSUME NEW n \in recording \cup executing, NEW i \in uses[n]
        PROVE  KeptFor(n, i)'
    BY <1>1, <1>3, KeptWhileTaking, PendingIsLater DEF UseInv
  <2> QED BY <1>3, <2>1 DEF UseInv
<1>6. ReferenceInv'
  BY <1>1, <1>3 DEF ReferenceInv
<1> QED BY <1>1, <1>2, <1>4, <1>5, <1>6

(* DescriptorSetPool::Allocate(), when a command buffer retains what it    *)
(* returns.                                                                *)
LEMMA RetainedIInv ==
  ASSUME IInv, NEW h \in Handle, NEW family, NEW count, NEW growth,
         Take(h, family, count, growth),
         NEW n \in recording, Retain(h, n),
         UNCHANGED <<commandVars, wrapperVars>>
  PROVE  IInv'
<1> USE DEF IInv
<1>1. /\ made \subseteq made'
      /\ items' \in [Handle -> SUBSET made'] /\ free' \subseteq made'
      /\ \A k \in Handle : items[k] # {} => k # h /\ items'[k] = items[k]
      /\ \A k \in Handle : k # h => items'[k] = items[k]
      /\ ItemInv'
      /\ handles_held' = handles_held \cup {h}
  BY TakeProperties
<1>2. CommandInv'
  BY DEF CommandInv, commandVars
<1>3. /\ UNCHANGED <<issued, finished, announced, recording, executing>>
      /\ UNCHANGED <<parts, held_wrappers, wrapper_number>>
  BY DEF commandVars, wrapperVars
<1>4. n \in 1..MaxSequence /\ n \in 1..issued /\ n \notin finished
  BY PendingIsLater DEF CommandInv
<1>5. /\ used_resources' = [used_resources EXCEPT ![n] = @ \cup {h}]
      /\ uses' = [uses EXCEPT ![n] = @ \cup items'[h]]
  BY DEF Retain
<1>6. /\ used_resources'[n] = used_resources[n] \cup {h}
      /\ uses'[n] = uses[n] \cup items'[h]
      /\ \A k \in 1..MaxSequence : k # n =>
           used_resources'[k] = used_resources[k] /\ uses'[k] = uses[k]
  BY <1>4, <1>5 DEF RecyclingTypes
<1>7. RecyclingTypes'
  <2>1. used_resources' \in [1..MaxSequence -> SUBSET Handle]
    BY <1>4, <1>5 DEF RecyclingTypes
  <2>2. uses' \in [1..MaxSequence -> SUBSET made']
    <3>1. items'[h] \subseteq made' /\ \A k \in 1..MaxSequence : uses[k] \subseteq made'
      BY <1>1 DEF RecyclingTypes
    <3> QED BY <1>4, <1>5, <3>1 DEF RecyclingTypes
  <2> QED BY <1>1, <1>3, <2>1, <2>2 DEF RecyclingTypes
<1>8. UseInv'
  <2>1. ASSUME NEW k \in recording \cup executing, NEW i \in uses'[k]
        PROVE  KeptFor(k, i)'
    <3>1. k \in 1..MaxSequence
      BY PendingIsLater
    <3>2. CASE i \in uses[k]
      <4>1. KeptFor(k, i)
        BY <3>2 DEF UseInv
      <4>2. \A l \in 1..MaxSequence : used_resources[l] \subseteq used_resources'[l]
        BY <1>6
      <4> QED BY <1>1, <1>3, <3>1, <4>1, <4>2, KeptWhileTaking
    <3>3. CASE i \notin uses[k]
      <4>1. k = n /\ i \in items'[h]
        BY <1>6, <2>1, <3>1, <3>3
      <4> QED BY <1>6, <4>1 DEF KeptFor
    <3> QED BY <3>2, <3>3
  <2>2. \A k \in 1..MaxSequence : k \notin 1..issued => uses'[k] = {}
    BY <1>4, <1>6 DEF UseInv
  <2> QED BY <1>3, <2>1, <2>2 DEF UseInv
<1>9. ReferenceInv'
  <2>1. \A k \in Handle : items'[k] # {} =>
          \/ k \in handles_held'
          \/ \E l \in 1..MaxSequence : k \in used_resources'[l]
          \/ \E w \in Wrapper : k \in parts'[w]
    BY <1>1, <1>3, <1>6 DEF ReferenceInv
  <2>2. \A k \in 1..MaxSequence :
          used_resources'[k] # {} => k \in 1..issued' /\ k \notin finished'
    BY <1>3, <1>4, <1>6 DEF ReferenceInv
  <2> QED BY <1>3, <2>1, <2>2 DEF ReferenceInv
<1> QED BY <1>1, <1>2, <1>7, <1>8, <1>9

------------------------------------------------------------------------------
(* Display lists, textures and framebuffers.                               *)

LEMMA NewWrapperIInv ==
  ASSUME IInv, NEW w \in Wrapper, NEW contents \in SUBSET handles_held,
         NewWrapper(w, contents)
  PROVE  IInv'
<1> USE DEF IInv
<1>1. /\ parts[w] = {}
      /\ parts' = [parts EXCEPT ![w] = contents]
      /\ held_wrappers' = held_wrappers \cup {w}
      /\ wrapper_number' = [wrapper_number EXCEPT ![w] = 0]
      /\ UNCHANGED <<issued, finished, announced, recording, executing>>
      /\ UNCHANGED <<free, made, items, handles_held, used_resources, uses>>
  BY DEF NewWrapper, commandVars, poolVars, useVars
<1>2. CommandInv'
  BY <1>1 DEF CommandInv
<1>3. RecyclingTypes'
  BY <1>1 DEF RecyclingTypes
<1>4. ItemInv'
  BY <1>1 DEF ItemInv
<1>5. \A v \in Wrapper : v # w =>
        parts'[v] = parts[v] /\ wrapper_number'[v] = wrapper_number[v]
  BY <1>1 DEF RecyclingTypes
<1>6. UseInv'
  <2>1. ASSUME NEW n \in recording \cup executing, NEW i \in uses[n]
        PROVE  KeptFor(n, i)'
    <3>1. KeptFor(n, i)
      BY DEF UseInv
    <3> QED BY <1>1, <1>5, <3>1 DEF KeptFor
  <2> QED BY <1>1, <2>1 DEF UseInv
<1>7. ReferenceInv'
  <2>1. \A h \in Handle : items'[h] # {} =>
          \/ h \in handles_held'
          \/ \E n \in 1..MaxSequence : h \in used_resources'[n]
          \/ \E v \in Wrapper : h \in parts'[v]
    <3> SUFFICES ASSUME NEW h \in Handle, NEW v \in Wrapper, h \in parts[v]
                 PROVE  \E u \in Wrapper : h \in parts'[u]
      BY <1>1 DEF ReferenceInv
    <3>1. v # w
      BY <1>1
    <3> QED BY <1>5, <3>1
  <2>2. \A v \in Wrapper : parts'[v] # {} =>
          v \in held_wrappers' \/ announced' < wrapper_number'[v]
    BY <1>1, <1>5 DEF ReferenceInv
  <2> QED BY <1>1, <2>1, <2>2 DEF ReferenceInv
<1> QED BY <1>2, <1>3, <1>4, <1>6, <1>7

LEMMA UseWrapperIInv ==
  ASSUME IInv, NEW w \in Wrapper, NEW n \in recording, UseWrapper(w, n)
  PROVE  IInv'
<1> USE DEF IInv
<1>1. /\ w \in held_wrappers /\ wrapper_number[w] <= n
      /\ wrapper_number' = [wrapper_number EXCEPT ![w] = n]
      /\ uses' = [uses EXCEPT ![n] = @ \cup UNION {items[h] : h \in parts[w]}]
      /\ UNCHANGED <<issued, finished, announced, recording, executing>>
      /\ UNCHANGED <<free, made, items, handles_held, used_resources, parts, held_wrappers>>
  BY DEF UseWrapper, commandVars, poolVars
<1>2. CommandInv'
  BY <1>1 DEF CommandInv
<1>3. n \in 1..MaxSequence /\ n \in 1..issued
  BY PendingIsLater
<1>4. /\ wrapper_number'[w] = n
      /\ \A v \in Wrapper : v # w => wrapper_number'[v] = wrapper_number[v]
      /\ \A k \in 1..MaxSequence : k # n => uses'[k] = uses[k]
      /\ uses'[n] = uses[n] \cup UNION {items[h] : h \in parts[w]}
  BY <1>1, <1>3 DEF RecyclingTypes
<1>5. RecyclingTypes'
  <2>1. wrapper_number' \in [Wrapper -> Nat]
    BY <1>1, <1>3 DEF RecyclingTypes
  <2>2. UNION {items[h] : h \in parts[w]} \subseteq made
    BY DEF RecyclingTypes
  <2>3. uses' \in [1..MaxSequence -> SUBSET made]
    BY <1>1, <2>2 DEF RecyclingTypes
  <2> QED BY <1>1, <2>1, <2>3 DEF RecyclingTypes
<1>6. ItemInv'
  BY <1>1 DEF ItemInv
<1>7. UseInv'
  <2>1. ASSUME NEW k \in recording \cup executing, NEW i \in uses'[k]
        PROVE  KeptFor(k, i)'
    <3>1. k \in 1..MaxSequence
      BY PendingIsLater
    <3>2. CASE i \in uses[k]
      <4>1. KeptFor(k, i)
        BY <3>2 DEF UseInv
      <4>2. \A v \in Wrapper : k <= wrapper_number[v] => k <= wrapper_number'[v]
        BY <1>1, <1>3, <1>4, <3>1 DEF RecyclingTypes
      <4> QED BY <1>1, <4>1, <4>2 DEF KeptFor
    <3>3. CASE i \notin uses[k]
      <4>1. k = n /\ \E h \in parts[w] : i \in items[h]
        BY <1>4, <2>1, <3>1, <3>3
      <4>2. n <= wrapper_number'[w]
        BY <1>3, <1>4
      <4> QED BY <1>1, <4>1, <4>2 DEF KeptFor
    <3> QED BY <3>2, <3>3
  <2>2. \A k \in 1..MaxSequence : k \notin 1..issued => uses'[k] = {}
    BY <1>3, <1>4 DEF UseInv
  <2> QED BY <1>1, <2>1, <2>2 DEF UseInv
<1>8. ReferenceInv'
  BY <1>1, <1>4 DEF ReferenceInv
<1> QED BY <1>2, <1>5, <1>6, <1>7, <1>8

------------------------------------------------------------------------------
(* References that go away.  Those of pending command buffers, and those   *)
(* of wrappers with the number of one that is not announced, must stay.    *)
LEMMA LetGoIInv ==
  ASSUME IInv, CommandInv',
         UNCHANGED <<issued, recording, executing, wrapper_number, uses>>,
         handles_held' \subseteq Handle, held_wrappers' \subseteq Wrapper,
         used_resources' \in [1..MaxSequence -> SUBSET Handle],
         parts' \in [Wrapper -> SUBSET Handle],
         \A n \in recording \cup executing : used_resources'[n] = used_resources[n],
         \A n \in 1..MaxSequence : used_resources'[n] # {} =>
            n \in 1..issued /\ n \notin finished',
         \A w \in Wrapper : announced' < wrapper_number[w] => parts'[w] = parts[w],
         \A w \in Wrapper : parts'[w] # {} =>
            w \in held_wrappers' \/ announced' < wrapper_number[w],
         GiveBack(handles_held', used_resources', parts')
  PROVE  IInv'
<1> USE DEF IInv
<1>1. /\ made' = made
      /\ items' \in [Handle -> SUBSET made'] /\ free' \subseteq made'
      /\ ItemInv'
      /\ \A h \in Handle : items'[h] # {} =>
           \/ h \in handles_held'
           \/ \E n \in 1..MaxSequence : h \in used_resources'[n]
           \/ \E w \in Wrapper : h \in parts'[w]
      /\ \A n \in 1..MaxSequence : \A h \in used_resources'[n] : items'[h] = items[h]
      /\ \A w \in Wrapper : \A h \in parts'[w] : items'[h] = items[h]
  BY GiveBackProperties
<1>2. RecyclingTypes'
  BY <1>1 DEF RecyclingTypes
<1>3. UseInv'
  <2>1. ASSUME NEW n \in recording \cup executing, NEW i \in uses[n]
        PROVE  KeptFor(n, i)'
    <3>1. n \in 1..MaxSequence /\ announced' < n
      <4>1. recording' \cup executing' = recording \cup executing
        OBVIOUS
      <4> QED BY <4>1, MaxSequenceAssumption DEF CommandInv
    <3>2. KeptFor(n, i)
      BY DEF UseInv
    <3>3. CASE \E h \in used_resources[n] : i \in items[h]
      BY <1>1, <3>1, <3>3 DEF KeptFor
    <3>4. CASE \E w \in Wrapper : /\ n <= wrapper_number[w]
                                  /\ \E h \in parts[w] : i \in items[h]
      <4>1. PICK w \in Wrapper : /\ n <= wrapper_number[w]
                                 /\ \E h \in parts[w] : i \in items[h]
        BY <3>4
      <4>2. announced' < wrapper_number[w]
        <5>1. announced' \in Nat /\ n \in Nat /\ wrapper_number[w] \in Nat
          BY <3>1 DEF CommandInv, RecyclingTypes
        <5> QED BY <3>1, <4>1, <5>1
      <4>3. parts'[w] = parts[w]
        BY <4>2
      <4> QED BY <1>1, <4>1, <4>3 DEF KeptFor
    <3> QED BY <3>2, <3>3, <3>4 DEF KeptFor
  <2> QED BY <2>1 DEF UseInv
<1>4. ReferenceInv'
  BY <1>1 DEF ReferenceInv
<1> QED BY <1>1, <1>2, <1>3, <1>4

LEMMA RecycledProperties ==
  ASSUME IInv, NEW client, NEW last_finished \in Nat
  PROVE  /\ Recycled(client, last_finished) \in [Wrapper -> SUBSET Handle]
         /\ \A w \in Wrapper : last_finished < wrapper_number[w] =>
              Recycled(client, last_finished)[w] = parts[w]
         /\ \A w \in Wrapper : Recycled(client, last_finished)[w] # {} =>
              w \in client \/ last_finished < wrapper_number[w]
<1>1. /\ parts \in [Wrapper -> SUBSET Handle]
      /\ wrapper_number \in [Wrapper -> Nat]
  BY DEF IInv, RecyclingTypes
<1> QED BY <1>1 DEF Recycled

LEMMA DropItemIInv ==
  ASSUME IInv, NEW h \in Handle, DropItem(h)
  PROVE  IInv'
<1>1. /\ handles_held' = handles_held \ {h}
      /\ GiveBack(handles_held', used_resources, parts)
      /\ UNCHANGED commandVars
      /\ UNCHANGED <<used_resources, parts, held_wrappers, wrapper_number, uses>>
  BY DEF DropItem, wrapperVars, useVars
<1>2. CommandInv' /\ UNCHANGED <<issued, recording, executing, finished, announced>>
  BY <1>1 DEF IInv, CommandInv, commandVars
<1>3. GiveBack(handles_held', used_resources', parts')
  BY <1>1
<1>4. /\ handles_held' \subseteq Handle /\ held_wrappers' \subseteq Wrapper
      /\ used_resources' \in [1..MaxSequence -> SUBSET Handle]
      /\ parts' \in [Wrapper -> SUBSET Handle]
  BY <1>1 DEF IInv, RecyclingTypes
<1>5. /\ \A n \in 1..MaxSequence : used_resources'[n] # {} =>
           n \in 1..issued /\ n \notin finished'
      /\ \A w \in Wrapper : parts'[w] # {} =>
           w \in held_wrappers' \/ announced' < wrapper_number[w]
  BY <1>1, <1>2 DEF IInv, ReferenceInv
<1> QED BY <1>1, <1>2, <1>3, <1>4, <1>5, LetGoIInv

LEMMA DropWrapperIInv ==
  ASSUME IInv, NEW w \in Wrapper, DropWrapper(w)
  PROVE  IInv'
<1>1. /\ held_wrappers' = held_wrappers \ {w}
      /\ parts' = Recycled(held_wrappers', announced)
      /\ GiveBack(handles_held, used_resources, parts')
      /\ UNCHANGED commandVars
      /\ UNCHANGED <<handles_held, used_resources, wrapper_number, uses>>
  BY DEF DropWrapper, useVars
<1>2. CommandInv' /\ UNCHANGED <<issued, recording, executing, finished, announced>>
  BY <1>1 DEF IInv, CommandInv, commandVars
<1>3. announced \in Nat
  BY DEF IInv, CommandInv
<1>4. GiveBack(handles_held', used_resources', parts')
  BY <1>1
<1>5. /\ parts' \in [Wrapper -> SUBSET Handle]
      /\ \A v \in Wrapper : announced' < wrapper_number[v] => parts'[v] = parts[v]
      /\ \A v \in Wrapper : parts'[v] # {} =>
           v \in held_wrappers' \/ announced' < wrapper_number[v]
  BY <1>1, <1>2, <1>3, RecycledProperties
<1>6. /\ handles_held' \subseteq Handle /\ held_wrappers' \subseteq Wrapper
      /\ used_resources' \in [1..MaxSequence -> SUBSET Handle]
  BY <1>1 DEF IInv, RecyclingTypes
<1>7. \A n \in 1..MaxSequence : used_resources'[n] # {} =>
           n \in 1..issued /\ n \notin finished'
  BY <1>1, <1>2 DEF IInv, ReferenceInv
<1> QED BY <1>1, <1>2, <1>4, <1>5, <1>6, <1>7, LetGoIInv

(* The number of an image that commands refer to directly protects it      *)
(* from nothing: of what the invariant speaks of, nothing changes.         *)
LEMMA UseImageIInv ==
  ASSUME IInv, NEW h \in Handle, NEW n \in recording, UseImage(h, n)
  PROVE  IInv'
  BY DEF UseImage, commandVars, poolVars, wrapperVars, IInv, CommandInv,
     RecyclingTypes, ItemInv, UseInv, KeptFor, ReferenceInv

(* A buffer lets go of what it retained when it is retired, and recyclers  *)
(* of what the announcement allows.                                        *)
LEMMA FinishIInv ==
  ASSUME IInv, NEW n \in 1..issued, Finish(n)
  PROVE  IInv'
<1>1. /\ FinishNumber(n)
      /\ used_resources' = [used_resources EXCEPT ![n] = {}]
      /\ parts' = Recycled(held_wrappers, announced')
      /\ GiveBack(handles_held, used_resources', parts')
      /\ UNCHANGED <<handles_held, held_wrappers, wrapper_number, uses>>
  BY DEF Finish, useVars
<1>2. CommandInv'
  BY <1>1, FinishCommandInv DEF IInv
<1>3. /\ n \notin recording \cup executing
      /\ finished' = finished \cup {n}
      /\ UNCHANGED <<issued, recording, executing>>
  BY <1>1 DEF FinishNumber, Sequencer!Finish
<1>4. announced' \in Nat
  BY <1>2 DEF CommandInv
<1>5. GiveBack(handles_held', used_resources', parts')
  BY <1>1
<1>6. /\ parts' \in [Wrapper -> SUBSET Handle]
      /\ \A v \in Wrapper : announced' < wrapper_number[v] => parts'[v] = parts[v]
      /\ \A v \in Wrapper : parts'[v] # {} =>
           v \in held_wrappers' \/ announced' < wrapper_number[v]
  BY <1>1, <1>4, RecycledProperties
<1>7. used_resources \in [1..MaxSequence -> SUBSET Handle]
  BY DEF IInv, RecyclingTypes
<1>8. /\ used_resources' \in [1..MaxSequence -> SUBSET Handle]
      /\ \A k \in 1..MaxSequence :
           used_resources'[k] = IF k = n THEN {} ELSE used_resources[k]
  BY <1>1, <1>7
<1>9. /\ handles_held' \subseteq Handle /\ held_wrappers' \subseteq Wrapper
  BY <1>1 DEF IInv, RecyclingTypes
<1>10. \A k \in recording \cup executing : used_resources'[k] = used_resources[k]
  BY <1>3, <1>8, PendingIsLater DEF IInv
<1>11. \A k \in 1..MaxSequence : used_resources'[k] # {} =>
           k \in 1..issued /\ k \notin finished'
  BY <1>3, <1>8 DEF IInv, ReferenceInv
<1> QED BY <1>1, <1>2, <1>3, <1>5, <1>6, <1>8, <1>9, <1>10, <1>11, LetGoIInv

------------------------------------------------------------------------------
LEMMA CommandsIInv ==
  ASSUME IInv, Commands
  PROVE  IInv'
<1>1. /\ UNCHANGED <<free, made, items, handles_held, used_resources>>
      /\ UNCHANGED <<parts, held_wrappers, wrapper_number, uses>>
  BY DEF Commands, poolVars, wrapperVars, useVars
<1>2. HandOut \/ \E n \in 1..issued : SubmitNumber(n) \/ Execute(n)
  BY DEF Commands
<1>3. CommandInv' /\ announced' = announced
  BY <1>2, HandOutCommandInv, SubmitCommandInv DEF IInv
<1>4. RecyclingTypes' /\ ItemInv'
  BY <1>1 DEF IInv, RecyclingTypes, ItemInv
<1>5. /\ finished' = finished
      /\ \A n \in 1..issued : n \in 1..issued'
      /\ \A n \in recording' \cup executing' :
           n \in recording \cup executing \/ n \notin 1..issued
  BY <1>2 DEF IInv, CommandInv, HandOut, Sequencer!Issue, SubmitNumber, Execute
<1>6. UseInv'
  <2>1. ASSUME NEW n \in recording' \cup executing', NEW i \in uses'[n]
        PROVE  KeptFor(n, i)'
    <3>1. n \in 1..MaxSequence
      <4>1. CommandInv' /\ n \in (recording \cup executing)'
        BY <1>3, <2>1
      <4>2. n \in 1..issued' /\ issued' \in 0..MaxSequence
        BY <4>1 DEF CommandInv
      <4> QED BY <4>2, MaxSequenceAssumption
    <3>2. n \in recording \cup executing
      BY <1>1, <1>5, <2>1, <3>1 DEF IInv, UseInv
    <3>3. KeptFor(n, i)
      BY <1>1, <2>1, <3>2 DEF IInv, UseInv
    <3> QED BY <1>1, <3>3 DEF KeptFor
  <2>2. \A n \in 1..MaxSequence : n \notin 1..issued' => uses'[n] = {}
    BY <1>1, <1>5 DEF IInv, UseInv
  <2> QED BY <2>1, <2>2 DEF UseInv
<1>7. ReferenceInv'
  BY <1>1, <1>3, <1>5 DEF IInv, ReferenceInv
<1> QED BY <1>3, <1>4, <1>6, <1>7 DEF IInv

LEMMA NextIInv == IInv /\ [RecyclingNext]_allVars => IInv'
<1> SUFFICES ASSUME IInv, [RecyclingNext]_allVars PROVE IInv'
  OBVIOUS
<1>1. ASSUME NEW h \in Handle,
             \/ \E count \in Count : AllocateSets(h, count)
             \/ AllocateBuffer(h)
             \/ NewImage(h)
             \/ \E n \in recording : UseImage(h, n)
             \/ DropItem(h)
      PROVE  IInv'
  <2>1. ASSUME NEW count \in Count, AllocateSets(h, count)
        PROVE  IInv'
    <3>1. /\ Take(h, DescriptorSet, count, 2 * count)
          /\ UNCHANGED <<commandVars, wrapperVars>>
      BY <2>1 DEF AllocateSets
    <3>2. CASE \E n \in recording : Retain(h, n)
      BY <3>1, <3>2, RetainedIInv
    <3>3. CASE UNCHANGED <<used_resources, uses>>
      BY <3>1, <3>3, TakeIInv
    <3> QED BY <2>1, <3>2, <3>3 DEF AllocateSets
  <2>2. CASE AllocateBuffer(h)
    BY <2>2, TakeIInv DEF AllocateBuffer, useVars
  <2>3. CASE NewImage(h)
    BY <2>3, TakeIInv DEF NewImage, useVars
  <2> QED BY <1>1, <2>1, <2>2, <2>3, UseImageIInv, DropItemIInv
<1>2. ASSUME NEW w \in Wrapper,
             \/ \E contents \in SUBSET handles_held : NewWrapper(w, contents)
             \/ \E n \in recording : UseWrapper(w, n)
             \/ DropWrapper(w)
      PROVE  IInv'
  BY <1>2, NewWrapperIInv, UseWrapperIInv, DropWrapperIInv
<1>3. ASSUME NEW n \in 1..issued, Finish(n) PROVE IInv'
  BY <1>3, FinishIInv
<1>4. CASE UNCHANGED allVars
  BY <1>4 DEF allVars, commandVars, poolVars, wrapperVars, useVars, IInv, CommandInv,
     RecyclingTypes, ItemInv, UseInv, KeptFor, ReferenceInv
<1> QED BY <1>1, <1>2, <1>3, <1>4, CommandsIInv DEF RecyclingNext

LEMMA AlwaysIInv == RecyclingSpec => []IInv
  BY InitIInv, NextIInv, PTL DEF RecyclingSpec

------------------------------------------------------------------------------
(* impl/descriptor_set_pool.h: though the pools reuse at once what is      *)
(* given back, no set, buffer or image that commands refer to through an   *)
(* allocation their buffer retains, or through a Texture, Framebuffer or   *)
(* ModelDisplayList, is written or vended again while they are recorded or *)
(* executed.  (Of images they refer to directly nothing of the kind holds: *)
(* MCImageRetention.cfg.)                                                  *)
THEOREM FreeItemsAreIdle == RecyclingSpec => []FreeIsIdle
<1>1. IInv => FreeIsIdle
  <2> SUFFICES ASSUME IInv, NEW n \in recording \cup executing,
                      NEW i \in uses[n], i \in free
               PROVE  FALSE
    BY DEF FreeIsIdle
  <2>1. KeptFor(n, i)
    BY DEF IInv, UseInv
  <2>2. PICK h \in Handle : i \in items[h]
    BY <2>1, PendingIsLater DEF KeptFor, IInv, RecyclingTypes
  <2> QED BY <2>2 DEF IInv, ItemInv
<1> QED BY <1>1, AlwaysIInv, PTL

(* OnReceiveOwnable() of the pools and Retire() of the command buffers:     *)
(* whatever was made is free or vended once, and what is vended is         *)
(* referred to by the client, by a command buffer that is not retired, or  *)
(* by something a recycler keeps for one that is not announced.            *)
THEOREM EverythingComesBack == RecyclingSpec => []ItemsComeBack
<1>1. IInv => EachItemInOnePlace
  <2> SUFFICES ASSUME IInv, NEW i \in made
               PROVE  Cardinality({h \in LiveHandles : i \in items[h]})
                        = IF i \in free THEN 0 ELSE 1
    BY DEF EachItemInOnePlace
  <2> DEFINE owners == {h \in LiveHandles : i \in items[h]}
  <2>1. owners = {h \in Handle : i \in items[h]}
    BY DEF LiveHandles
  <2>2. CASE i \in free
    <3>1. owners = {}
      BY <2>1, <2>2 DEF IInv, ItemInv
    <3> QED BY <2>2, <3>1, FS_EmptySet
  <2>3. CASE i \notin free
    <3>1. PICK h \in Handle : i \in items[h]
      BY <2>3 DEF IInv, ItemInv
    <3>2. owners = {h}
      BY <2>1, <3>1 DEF IInv, ItemInv
    <3> QED BY <2>3, <3>2, FS_Singleton
  <2> QED BY <2>2, <2>3
<1>2. IInv => NothingOutstays
  <2> SUFFICES ASSUME IInv, NEW h \in LiveHandles \ handles_held
               PROVE  \/ \E n \in 1..issued : h \in used_resources[n] /\ n \notin finished
                      \/ \E w \in Wrapper :
                           /\ h \in parts[w]
                           /\ w \in held_wrappers \/ wrapper_number[w] > announced
    BY DEF NothingOutstays
  <2>1. h \in Handle /\ items[h] # {}
    BY DEF LiveHandles
  <2>2. CASE \E n \in 1..MaxSequence : h \in used_resources[n]
    BY <2>2 DEF IInv, ReferenceInv
  <2>3. CASE \E w \in Wrapper : h \in parts[w]
    <3>1. PICK w \in Wrapper : h \in parts[w]
      BY <2>3
    <3>2. w \in held_wrappers \/ announced < wrapper_number[w]
      BY <3>1 DEF IInv, ReferenceInv
    <3>3. announced \in Nat /\ wrapper_number[w] \in Nat
      BY DEF IInv, CommandInv, RecyclingTypes
    <3> QED BY <3>1, <3>2, <3>3
  <2> QED BY <2>1, <2>2, <2>3 DEF IInv, ReferenceInv
<1> QED BY <1>1, <1>2, AlwaysIInv, PTL DEF ItemsComeBack
==============================================================================
