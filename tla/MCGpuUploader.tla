---------------------------- MODULE MCGpuUploader ----------------------------
(* Instances of GpuUploader for TLC.  With a minimum size of 3 and an      *)
(* alignment of 2, two Writers of size 1 fill a buffer of the minimum size *)
(* up; a Writer of size 6 needs a larger one, finds those on the free list *)
(* too small, and leaves room for Writers of either size.                  *)
EXTENDS GpuUploader, TLC

CONSTANTS b1, b2, b3   \* staging buffers

MCBuffer == {b1, b2, b3}
MCSize == {1, 6}

Symmetry == Permutations(MCBuffer)
==============================================================================
