---------------------------- MODULE MCMeshManager ----------------------------
(* An instance of MeshManager for TLC: one mesh and two frames at most. *)
EXTENDS MeshManager, TLC

CONSTANTS b1, b2, b3,      \* staging buffers
          circle           \* a mesh

MCBuffer == {b1, b2, b3}
MCSize == {1}
MCMesh == {circle}

Symmetry == Permutations(MCBuffer)
==============================================================================
