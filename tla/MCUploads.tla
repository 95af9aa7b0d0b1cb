------------------------------ MODULE MCUploads ------------------------------
(***************************************************************************)
(* Instances of GpuUploader and MeshManager for TLC: either clients that   *)
(* use an uploader as they like, or a MeshManager that uses it.            *)
(*                                                                         *)
(* With a minimum size of 3 and an alignment of 2, two Writers of size 1   *)
(* fill a buffer of the minimum size up; a Writer of size 6 needs a larger *)
(* one, finds those on the free list too small, and leaves room for        *)
(* Writers of either size.  A MeshManager asks for Writers of size 1.      *)
(***************************************************************************)
EXTENDS MeshManager, TLC

CONSTANTS b1, b2, b3,      \* staging buffers
          circle, ring     \* meshes

MCBuffer == {b1, b2, b3}
MCMesh == {circle, ring}
MCSize == {1, 6}

Symmetry == Permutations(MCBuffer) \cup Permutations(MCMesh)

-----------------------------------------------------------------------------

VARIABLE part   \* who uses the uploader

UploadsInit == part \in {"clients", "meshes"} /\ MeshInit

UploadsNext ==
  /\ UNCHANGED part
  /\ \/ part = "clients" /\ UploaderNext /\ UNCHANGED meshVars
     \/ /\ part = "meshes"
        /\ MeshNext
        /\ \A b \in Buffer : buffer_size'[b] <= kMinBufferSize

UploadsSpec == UploadsInit /\ [][UploadsNext]_<<part, allVars, meshVars>>
=============================================================================
