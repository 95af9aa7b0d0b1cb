------------------------------- MODULE MCFrames -------------------------------
(***************************************************************************)
(* What a frame consists of, and the loop that draws one after another:    *)
(* instances of modules that do not act on each other, side by side.  In a *)
(* behaviour one of them is at work, and the others stay in one of their   *)
(* initial states.                                                         *)
(***************************************************************************)
EXTENDS DisplayList, FramePasses, SsdoTable, TimestampProfiler, FrameLoop, TLC

-----------------------------------------------------------------------------
(* Display lists.  Two pixels are enough to tell inside from outside for   *)
(* each of two clip groups, and every object covers any set of them.       *)

CONSTANTS o1, o2, o3, o4, o5

MCPixel == {1, 2}
MCObject == {o1, o2, o3, o4, o5}
Areas == SUBSET MCPixel

None == [o \in MCObject |-> <<>>]

(* A group in a group: o1 clips o2, which (with o4) clips o3; o5 is next,  *)
(* in the same list.                                                       *)
Nested(areas, group, clipper, disable) ==
  [objects |-> <<o1, o5>>,
   shape |-> (o1 :> group) @@ areas,
   material |-> (o1 :> IF group = kNone THEN "none" ELSE clipper) @@ (o2 :> clipper)
             @@ (o3 :> "opaque") @@ (o4 :> clipper) @@ (o5 :> "translucent"),
   clippers |-> (o2 :> <<o4>>) @@ None,
   clippees |-> (o1 :> <<o2>>) @@ (o2 :> <<o3>>) @@ None,
   disable_depth_test |-> disable]

(* A group of a group and a sibling that comes after it. *)
Siblings(areas, group, clipper, disable) ==
  [Nested(areas, group, clipper, disable) EXCEPT
     !.objects = <<o1>>,
     !.clippers = (o1 :> <<o4>>) @@ None,
     !.clippees = (o1 :> <<o2, o3>>) @@ (o2 :> <<o5>>) @@ None]

(* Three groups in each other. *)
Deep(areas, group, clipper, disable) ==
  [Nested(areas, group, clipper, disable) EXCEPT
     !.clippers = None,
     !.clippees = (o1 :> <<o2>>) @@ (o2 :> <<o3>>) @@ (o3 :> <<o4>>) @@ None]

Some == [{o2, o3, o4, o5} -> Areas]
Few == {areas \in Some : areas[o2] = {1} /\ areas[o5] = {1, 2}}

SingleScenes ==
  {<<Nested(areas, group, clipper, FALSE)>> :
     areas \in Some, group \in {{}, {1}, {1, 2}}, clipper \in {"none", "opaque"}}
  \cup
  {<<Siblings(areas, group, "none", FALSE)>> : areas \in Some, group \in {kNone, {1}}}

(* The model of a frame, the overlay of the frame, the model of the next.  *)
SceneSequences ==
  {<<Siblings(areas, {1}, clipper, FALSE), Nested(areas, {1, 2}, "none", overlay),
     Deep(areas, {1, 2}, clipper, FALSE)>> :
     areas \in Few, clipper \in {"none", "opaque"}, overlay \in BOOLEAN}

MCScenes == SingleScenes \cup SceneSequences

-----------------------------------------------------------------------------
(* The other modules.                                                      *)

\* Sizes of the output: one that is not square, and sizes whose eighth is not a
\* multiple of eight.
MCSizes == {<<8, 72>>, <<32, 136>>, <<96, 24>>}

\* A box in front of a plane, and planes that lean.
MCDepths ==
    {[y \in Neighborhood |->
        [x \in Neighborhood |-> IF x \in x0 .. x0 + w /\ y = y0 THEN 1 ELSE 2]] :
            x0 \in 1 .. 14, y0 \in 1 .. 14, w \in {0, 2}}
    \union
    {[y \in Neighborhood |-> [x \in Neighborhood |-> ((m * x + n * y) \div k) + 50]] :
            m \in -1 .. 1, n \in -1 .. 1, k \in {1, 3}}

VARIABLE part   \* which module is at work

AScene == CHOOSE s \in SceneSequences : TRUE
ADepth == CHOOSE image_of_depth \in MCDepths : TRUE

FramesInit ==
    /\ part \in {"display", "passes", "ssdo", "profiler", "loop"}
    /\ part # "display" => scene = AScene
    /\ part # "passes" => size = <<8, 72>>
    /\ part # "ssdo" => enabled = TRUE /\ depth = ADepth
    /\ SsdoInit /\ PassesInit /\ ProfilerInit /\ DisplayInit /\ LoopInit
    /\ part # "loop" => ~demo.debug /\ ~demo.auto_toggle_lighting

\* Only p is at work.
At(p) ==
    /\ part = p /\ part' = p
    /\ p # "display" => UNCHANGED displayVars
    /\ p # "passes" => UNCHANGED passesVars
    /\ p # "ssdo" => UNCHANGED ssdoVars
    /\ p # "profiler" => UNCHANGED profilerVars
    /\ p # "loop" => UNCHANGED loopVars

framesVars == <<part, displayVars, passesVars, ssdoVars, profilerVars, loopVars>>

FramesNext ==
    \/ At("display") /\ DisplayNext
    \/ At("passes") /\ PassesNext
    \/ At("ssdo") /\ SsdoNext
    \/ At("profiler") /\ ProfilerNext
    \/ At("loop") /\ LoopNext

\* That of LoopSpec (see FrameLoop), while the loop is at work.
FramesFairness ==
    /\ WF_loopVars(part = "loop" /\ HostStep)
    /\ WF_loopVars(part = "loop" /\ GpuExecutesNext)
    /\ WF_loopVars(part = "loop" /\ EngineShows)
    /\ \A s \in Semaphores : WF_loopVars(part = "loop" /\ EngineSignals(s))

FramesSpec == FramesInit /\ [][FramesNext]_framesVars /\ FramesFairness
=============================================================================
