------------------------------ MODULE MCStorage ------------------------------
(***************************************************************************)
(* Instances of GpuMemory and ImmediateRecycling for TLC, side by side: in *)
(* a behaviour one of them is at work; of the other nothing has been made. *)
(*                                                                         *)
(* GpuMemory: words of two bits, so that sums wrap, and memory objects     *)
(* that form chains and trees up to three levels below a slab.             *)
(*                                                                         *)
(* ImmediateRecycling: the pool of descriptor sets starts with one set and *)
(* must grow for a second allocation, a second uniform buffer needs a      *)
(* second batch, and the one image is vended again when it is free.        *)
(***************************************************************************)
EXTENDS GpuMemory, ImmediateRecycling, TLC

CONSTANTS s1, s2, s3,   \* memory objects in the one, descriptor sets in the other
          m, u1, u2, i1, h1, h2, w1

Symmetry == Permutations({s1, s2, s3}) \cup Permutations({u1, u2})
            \cup Permutations({h1, h2})

-----------------------------------------------------------------------------

VARIABLE part   \* which module is at work

NoPools ==
  /\ Init
  /\ free = {} /\ made = {} /\ handles_held = {} /\ held_wrappers = {}
  /\ items = [h \in Handle |-> {}]
  /\ parts = [w \in Wrapper |-> {}]
  /\ wrapper_number = [w \in Wrapper |-> 0]
  /\ used_resources = [n \in 1..MaxSequence |-> {}]
  /\ uses = [n \in 1..MaxSequence |-> {}]
  /\ image_uses = [n \in 1..MaxSequence |-> {}]

StorageInit ==
  /\ MemInit
  /\ \/ part = "memory" /\ NoPools
     \/ part = "pools" /\ RecyclingInit

StorageNext ==
  /\ UNCHANGED part
  /\ \/ part = "memory" /\ MemNext /\ UNCHANGED allVars
     \/ part = "pools" /\ RecyclingNext /\ UNCHANGED memVars

StorageSpec == StorageInit /\ [][StorageNext]_<<part, memVars, allVars>>
=============================================================================
