----------------------------- MODULE MCFrameLoop -----------------------------
(* The loop of the waterfall demo by itself, with a swapchain of two images *)
(* and a benchmark of nine frames, which is three cycles of the images that *)
(* the benchmark draws into: the previous frame of an image was drawn, and  *)
(* the one before it waited for, in the cycles before the last.             *)
EXTENDS FrameLoop
=============================================================================
