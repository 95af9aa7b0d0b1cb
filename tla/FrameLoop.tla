------------------------------ MODULE FrameLoop ------------------------------
(***************************************************************************)
(* A demo that draws frame after frame: WaterfallDemo::HandleKeyPress()    *)
(* and DrawFrame(), VulkanSwapchainHelper::DrawFrame() with its pairs of   *)
(* semaphores, and Renderer::RunOffscreenBenchmark(), which throttles      *)
(* itself with semaphores and the fence of a command buffer.               *)
(*                                                                         *)
(* The GPU executes what is in the queue in order, each operation when the *)
(* semaphores it waits for are signalled.  The presentation engine works   *)
(* in FIFO order, the mode that CreateSwapchain() asks for.  A call of     *)
(* PaperRenderer::DrawFrame() counts as one command buffer here; its       *)
(* passes are in FramePasses.  Submissions succeed.                        *)
(***************************************************************************)
EXTENDS Naturals, Sequences, SequencesExt, FiniteSets, FiniteSetsExt

CONSTANTS
    ImageCount,   \* how many images the swapchain has
    FrameCount,   \* kOffscreenBenchmarkFrameCount
    Period,       \* how many frames there are between two reports, 200 in the code
    Keys,         \* the keys that are pressed
    MaxDrawn,     \* bound: the frames that are drawn
    MaxPressed    \* bound: the keys that are pressed

ASSUME LoopAssumption ==
    /\ ImageCount \in Nat \ {0, 1} /\ FrameCount \in Nat \ {0} /\ Period \in Nat \ {0}
    /\ MaxDrawn \in Nat /\ MaxPressed \in Nat
    /\ Keys \subseteq {"SPACE", "D", "T", "P", "B"}

kSwapchainSize == 3   \* of RunOffscreenBenchmark()

NoImage == ImageCount
Nobody  == 0

SwapchainImages == 0 .. ImageCount - 1
Available(i) == <<"image available", i>>
RenderFinished(i) == <<"render finished", i>>
Benchmark(i) == <<"benchmark", i>>
Semaphores ==
    {Available(i) : i \in SwapchainImages} \union {RenderFinished(i) : i \in SwapchainImages}
        \union {Benchmark(i) : i \in 0 .. kSwapchainSize - 1}

VARIABLES
    at,          \* where the thread of the demo is
    demo,        \* the members of WaterfallDemo that keys change
    renderer,    \* the flags of the renderer
    asked,       \* those that the demo set when this DrawFrame() began
    clock,       \* whether stopwatch_ is started
    drawn,       \* frame_count_
    pressed,     \* how many keys were pressed
    next_semaphore_index,
    semaphores,  \* "unsignalled", "signalled", or "pending" for an acquired image
    queue,       \* the operations the GPU has not executed
    image,       \* swapchain_index
    free_images, \* those that may be acquired
    displays,    \* the images that wait to be shown, in order
    screen,      \* the image that is shown
    bench,       \* the locals of RunOffscreenBenchmark()
    buffers      \* how many command buffers the pool has made

demoVars == <<demo, renderer, asked, clock, drawn, pressed>>
swapchainVars == <<next_semaphore_index, image, free_images, displays, screen>>
loopVars == <<at, demoVars, swapchainVars, semaphores, queue, bench, buffers>>

LoopInit ==
    /\ at = "poll"
    /\ demo \in [debug : BOOLEAN, lighting : {TRUE}, stop_time : {FALSE}, profile : {FALSE},
                 benchmark : {FALSE}, auto_toggle_lighting : BOOLEAN]
    /\ renderer = [debug |-> FALSE, lighting |-> TRUE, profiling |-> FALSE]
    /\ asked = renderer
    /\ clock = TRUE
    /\ drawn = 0 /\ pressed = 0
    /\ next_semaphore_index = 0
    /\ semaphores = [s \in Semaphores |-> "unsignalled"]
    /\ queue = <<>>
    /\ image = NoImage
    /\ free_images = SwapchainImages
    /\ displays = <<>> /\ screen = NoImage
    /\ bench = [frame |-> 0, throttle |-> Nobody, was_profiling |-> FALSE]
    /\ buffers = 0

-----------------------------------------------------------------------------
(* Command buffers.  Both queues of the pool are first in, first out, and   *)
(* the GPU executes in order: what counts is how recently a buffer was     *)
(* submitted, and buffer 1 is the one that was submitted first.            *)

Pending == Cardinality({k \in DOMAIN queue : queue[k].presents = NoImage})

\* GetCommandBuffer() takes the free buffer that was submitted first, and makes
\* a new one when none is free.  What is submitted becomes the last one.
Reuses == buffers > Pending

Submit(waits, signals, draws) ==
    /\ queue' = Append(queue, [waits |-> waits, signals |-> signals, draws |-> draws,
                               presents |-> NoImage])
    /\ buffers' = IF Reuses THEN buffers ELSE buffers + 1

\* The position of the buffer that throttle points to, after a submission.
Moved(throttle) ==
    IF throttle = Nobody \/ ~Reuses THEN throttle
    ELSE IF throttle = 1 THEN buffers ELSE throttle - 1

\* CommandBuffer::Wait() returns when what the buffer was last used for is over.
Waited(b) == b <= buffers - Pending

-----------------------------------------------------------------------------
(* The demo.                                                               *)

HandleKeyPress(key) ==
    /\ at = "poll" /\ pressed < MaxPressed
    /\ pressed' = pressed + 1
    /\ demo' = CASE key = "SPACE" -> [demo EXCEPT !.lighting = ~@]
                 [] key = "D" -> [demo EXCEPT !.debug = ~@]
                 [] key = "T" -> [demo EXCEPT !.stop_time = ~@]
                 [] key = "P" -> [demo EXCEPT !.profile = TRUE]
                 [] key = "B" -> [demo EXCEPT !.benchmark = TRUE]
    /\ UNCHANGED <<at, renderer, asked, clock, drawn, swapchainVars, semaphores, queue,
                   bench, buffers>>

\* WaterfallDemo::DrawFrame() sets the flags of the renderer, and runs the
\* benchmark before the frame if it was asked for.
EnterDrawFrame ==
    /\ at = "poll" /\ drawn < MaxDrawn
    /\ asked' = [debug |-> demo.debug, lighting |-> demo.lighting, profiling |-> demo.profile]
    /\ demo' = [demo EXCEPT !.profile = FALSE, !.benchmark = FALSE]
    /\ IF demo.benchmark
       THEN /\ at' = "warm up"
            /\ renderer' = [asked' EXCEPT !.debug = FALSE]
            /\ clock' = FALSE
       ELSE /\ at' = "acquire"
            /\ renderer' = asked'
            /\ clock' = ~demo.stop_time
    /\ bench' = [frame |-> 0, throttle |-> Nobody, was_profiling |-> FALSE]
    /\ UNCHANGED <<drawn, pressed, swapchainVars, semaphores, queue, buffers>>

\* After the frame: every so often, a profile is asked for and the lighting is
\* toggled.
Report ==
    /\ at = "report"
    /\ at' = "poll"
    /\ drawn' = drawn + 1
    /\ demo' =
        IF drawn' = 1 \/ drawn' % Period # 0 THEN demo
        ELSE [demo EXCEPT !.profile = TRUE,
                          !.lighting = IF demo.auto_toggle_lighting
                                       THEN ~(@ /\ drawn' % (3 * Period) = 0) ELSE @]
    /\ UNCHANGED <<renderer, asked, clock, pressed, swapchainVars, semaphores, queue,
                   bench, buffers>>

\* Escape: Run() leaves its loop and waits until the device is idle.
Quit ==
    /\ at = "poll" /\ queue = <<>>
    /\ at' = "quit"
    /\ UNCHANGED <<demoVars, swapchainVars, semaphores, queue, bench, buffers>>

-----------------------------------------------------------------------------
(* The benchmark.                                                          *)

AfterBenchmarkStep == UNCHANGED <<demo, asked, drawn, pressed, swapchainVars, semaphores>>

\* Throwaway frames, which signal the semaphores for the first time.
WarmUp ==
    /\ at = "warm up" /\ bench.frame < kSwapchainSize
    /\ Submit({}, {Benchmark(bench.frame)}, TRUE)
    /\ bench' = [bench EXCEPT !.frame = @ + 1]
    /\ UNCHANGED <<at, renderer, clock>> /\ AfterBenchmarkStep

\* A command buffer is submitted and waited for.
WarmUpDone ==
    /\ at = "warm up" /\ bench.frame = kSwapchainSize
    /\ Submit({}, {}, FALSE)
    /\ at' = "warm"
    /\ UNCHANGED <<bench, renderer, clock>> /\ AfterBenchmarkStep

Warm ==
    /\ at = "warm" /\ queue = <<>>
    /\ at' = "wait for image"
    /\ bench' = [frame |-> 0, throttle |-> Nobody, was_profiling |-> renderer.profiling]
    /\ renderer' = [renderer EXCEPT !.profiling = FALSE]
    /\ UNCHANGED <<clock, queue, buffers>> /\ AfterBenchmarkStep

\* The command buffer that waits for the frame that was drawn into this image.
WaitForImage ==
    /\ at = "wait for image" /\ bench.frame < FrameCount
    /\ Submit({Benchmark(bench.frame % kSwapchainSize)}, {}, FALSE)
    /\ bench' = [bench EXCEPT !.throttle = Moved(@)]
    /\ at' = IF bench.frame % kSwapchainSize = 0 THEN "throttle" ELSE "draw"
    /\ UNCHANGED <<renderer, clock>> /\ AfterBenchmarkStep

\* A bug to be caught: it is only replaced if there was one before.
ThrottleNeverSet ==
    /\ at = "throttle"
    /\ bench.throttle # Nobody => Waited(bench.throttle)
    /\ at' = "draw"
    /\ UNCHANGED <<bench, renderer, clock, queue, buffers>> /\ AfterBenchmarkStep

\* Once per cycle: wait for the command buffer of the cycle before.  It is
\* known by a raw pointer, and may have been reused meanwhile.
Throttle ==
    /\ at = "throttle"
    /\ bench.throttle # Nobody => Waited(bench.throttle)
    /\ bench' = [bench EXCEPT !.throttle = buffers]
    /\ at' = "draw"
    /\ UNCHANGED <<renderer, clock, queue, buffers>> /\ AfterBenchmarkStep

DrawBenchmarkFrame ==
    /\ at = "draw"
    /\ renderer' = [renderer EXCEPT !.profiling = (bench.frame = FrameCount - 1)]
    /\ Submit({}, {Benchmark(bench.frame % kSwapchainSize)}, TRUE)
    /\ bench' = [bench EXCEPT !.frame = @ + 1, !.throttle = Moved(@)]
    /\ at' = "wait for image"
    /\ UNCHANGED clock /\ AfterBenchmarkStep

\* The last frame of the benchmark is waited for.
WaitForLastFrame ==
    /\ at = "wait for image" /\ bench.frame = FrameCount
    /\ renderer' = [renderer EXCEPT !.profiling = bench.was_profiling]
    /\ Submit({Benchmark((FrameCount - 1) % kSwapchainSize)}, {}, FALSE)
    /\ at' = "finish"
    /\ UNCHANGED <<bench, clock>> /\ AfterBenchmarkStep

\* A bug to be caught: the overlays stay as the benchmark has set them.
FinishBenchmarkWithoutOverlays ==
    /\ at = "finish" /\ queue = <<>>
    /\ clock' = ~demo.stop_time
    /\ semaphores' = [s \in Semaphores |-> IF s[1] = "benchmark" THEN "unsignalled"
                                                             ELSE semaphores[s]]
    /\ at' = "acquire"
    /\ UNCHANGED <<renderer, bench, queue, buffers, demo, asked, drawn, pressed, swapchainVars>>

\* Back in the demo, which shows its overlays again.  The semaphores of the
\* benchmark are destroyed, two of them signalled.
FinishBenchmark ==
    /\ at = "finish" /\ queue = <<>>
    /\ renderer' = [renderer EXCEPT !.debug = demo.debug]
    /\ clock' = ~demo.stop_time
    /\ semaphores' = [s \in Semaphores |-> IF s[1] = "benchmark" THEN "unsignalled"
                                                             ELSE semaphores[s]]
    /\ at' = "acquire"
    /\ UNCHANGED <<bench, queue, buffers, demo, asked, drawn, pressed, swapchainVars>>

-----------------------------------------------------------------------------
(* The swapchain.                                                          *)

\* acquireNextImageKHR() blocks until there is an image, and has its semaphore
\* signalled when the presentation engine is through with it.
AcquireNextImage(i) ==
    /\ at = "acquire" /\ i \in free_images
    /\ image' = i
    /\ free_images' = free_images \ {i}
    /\ semaphores' = [semaphores EXCEPT ![Available(next_semaphore_index)] = "pending"]
    /\ at' = "render"
    /\ UNCHANGED <<demoVars, next_semaphore_index, displays, screen, queue, bench, buffers>>

\* A bug to be caught: the next pair is used although this one was not.
AcquireFailsAndAdvances ==
    /\ at = "acquire"
    /\ next_semaphore_index' = (next_semaphore_index + 1) % ImageCount
    /\ at' = "report"
    /\ UNCHANGED <<demoVars, image, free_images, displays, screen, semaphores, queue,
                   bench, buffers>>

\* It fails: the frame is skipped, and the pair of semaphores is used next time.
AcquireFails ==
    /\ at = "acquire"
    /\ at' = "report"
    /\ UNCHANGED <<demoVars, swapchainVars, semaphores, queue, bench, buffers>>

\* PaperRenderer::DrawFrame() takes the semaphore of the image.
Render ==
    /\ at = "render"
    /\ Submit({Available(next_semaphore_index)}, {RenderFinished(next_semaphore_index)}, TRUE)
    /\ at' = "present"
    /\ UNCHANGED <<demoVars, swapchainVars, semaphores, bench>>

\* A bug to be caught: the image is not presented while the overlays are shown.
PresentWithoutOverlays ==
    /\ at = "present"
    /\ queue' = IF renderer.debug THEN queue ELSE
                Append(queue, [waits |-> {RenderFinished(next_semaphore_index)}, signals |-> {},
                               draws |-> FALSE, presents |-> image])
    /\ next_semaphore_index' = (next_semaphore_index + 1) % ImageCount
    /\ image' = NoImage
    /\ at' = "report"
    /\ UNCHANGED <<demoVars, free_images, displays, screen, semaphores, bench, buffers>>

\* presentKHR(); next_semaphore_index_ has been advanced after the acquisition,
\* while references to both semaphores are held.
Present ==
    /\ at = "present"
    /\ queue' = Append(queue, [waits |-> {RenderFinished(next_semaphore_index)}, signals |-> {},
                               draws |-> FALSE, presents |-> image])
    /\ next_semaphore_index' = (next_semaphore_index + 1) % ImageCount
    /\ image' = NoImage
    /\ at' = "report"
    /\ UNCHANGED <<demoVars, free_images, displays, screen, semaphores, bench, buffers>>

-----------------------------------------------------------------------------
(* The GPU and the presentation engine.                                    *)

GpuExecutesNext ==
    /\ queue # <<>>
    /\ \A s \in Head(queue).waits : semaphores[s] = "signalled"
    /\ semaphores' = [s \in Semaphores |->
                        IF s \in Head(queue).signals THEN "signalled"
                        ELSE IF s \in Head(queue).waits THEN "unsignalled"
                        ELSE semaphores[s]]
    /\ displays' = IF Head(queue).presents = NoImage THEN displays
                   ELSE Append(displays, Head(queue).presents)
    /\ queue' = Tail(queue)
    /\ UNCHANGED <<at, demoVars, next_semaphore_index, image, free_images, screen, bench, buffers>>

\* The image that was shown until now can be acquired again.
EngineShows ==
    /\ displays # <<>>
    /\ screen' = Head(displays)
    /\ displays' = Tail(displays)
    /\ free_images' = free_images \union ({screen} \ {NoImage})
    /\ UNCHANGED <<at, demoVars, next_semaphore_index, image, semaphores, queue, bench, buffers>>

EngineSignals(s) ==
    /\ semaphores[s] = "pending"
    /\ semaphores' = [semaphores EXCEPT ![s] = "signalled"]
    /\ UNCHANGED <<at, demoVars, swapchainVars, queue, bench, buffers>>

HostStep ==
    \/ Report
    \/ WarmUp \/ WarmUpDone \/ Warm
    \/ WaitForImage \/ Throttle \/ DrawBenchmarkFrame \/ WaitForLastFrame \/ FinishBenchmark
    \/ \E i \in SwapchainImages : AcquireNextImage(i)
    \/ Render \/ Present

LoopNext ==
    \/ \E key \in Keys : HandleKeyPress(key)
    \/ EnterDrawFrame
    \/ Quit
    \/ AcquireFails
    \/ HostStep
    \/ GpuExecutesNext
    \/ EngineShows
    \/ \E s \in Semaphores : EngineSignals(s)

\* The calls of the demo go on when they do not wait (no acquisition need ever
\* fail), the GPU executes what it can, and the presentation engine shows images and lets go of them.
LoopFairness ==
    /\ WF_loopVars(HostStep)
    /\ WF_loopVars(GpuExecutesNext)
    /\ WF_loopVars(EngineShows)
    /\ \A s \in Semaphores : WF_loopVars(EngineSignals(s))

LoopSpec == LoopInit /\ [][LoopNext]_loopVars /\ LoopFairness

-----------------------------------------------------------------------------
(* Properties.                                                             *)

\* Signals that are there, or will be when the first k operations are over.
Signals(s, k) ==
    LET Up   == {j \in 1..k : s \in queue[j].signals}
        Down == {j \in 1..k : s \in queue[j].waits}
    IN  (IF semaphores[s] = "unsignalled" THEN 0 ELSE 1) + Cardinality(Up) - Cardinality(Down)

\* A binary semaphore is signalled once for every time that it is waited for:
\* neither VulkanSwapchainHelper, which uses its pairs in turn without ever
\* asking whether the GPU is through with them, nor the benchmark signals one
\* that is signalled or waits for one that nothing will signal.
SemaphoresAlternate ==
    \A s \in Semaphores : \A k \in 0 .. Len(queue) : Signals(s, k) \in {0, 1}

\* The frames of the benchmark that the GPU has not drawn.
FramesAhead == Cardinality({k \in DOMAIN queue : queue[k].draws /\ queue[k].presents = NoImage
                                                   /\ queue[k].waits = {}})

\* What the comment in RunOffscreenBenchmark() promises: "Every time we cycle
\* through all images, wait for the previous frame that was rendered to that
\* image to finish."  The GPU draws in order, so when the next cycle begins to
\* draw, at most the other two frames of the last one are left.
PreviousFrameIsFinished ==
    at = "draw" /\ bench.frame % kSwapchainSize = 0 => FramesAhead < kSwapchainSize

\* What the code does: throttle is the command buffer that was submitted before
\* the first frame of the last cycle was drawn, and says nothing of that frame.
\* A cycle begins to draw when all frames before the last cycle are finished,
\* the whole of the last one may be left, and the benchmark is never more than
\* two cycles ahead of the GPU, although the buffer is known by a pointer only
\* and may have been used again.
BenchmarkIsThrottled ==
    /\ FramesAhead <= 2 * kSwapchainSize
    /\ at = "draw" /\ bench.frame % kSwapchainSize = 0 => FramesAhead <= kSwapchainSize

\* The frame that is shown is rendered with the flags that the demo has asked
\* for in this DrawFrame(), and the clock runs unless it was stopped, although
\* the benchmark changes all of them in between.
ShownFrameIsAsAskedFor ==
    at \in {"acquire", "render"} => renderer = asked /\ clock = ~demo.stop_time

\* DrawFrame() returns: neither the swapchain nor the benchmark waits for ever.
DrawFrameReturns == at # "poll" ~> at \in {"poll", "quit"}
=============================================================================
