---------------------------- MODULE FramePasses ----------------------------
(***************************************************************************)
(* PaperRenderer::DrawFrame(): the passes of a frame, in the order in      *)
(* which they are recorded, and what they do to the images they render     *)
(* into, sample and copy.                                                  *)
(*                                                                         *)
(* All command buffers of a renderer are submitted to one queue in the     *)
(* order they are recorded, so the order of recording is the order in      *)
(* which image layouts change.  A command is the set of its accesses to    *)
(* images.  Of an image, the model keeps the layout it is in and the pass  *)
(* that wrote it; images come from ImageCache and hold what the previous   *)
(* frame left there.  Pixels, cameras and shaders are left out, and so is  *)
(* the multisampled path (kLightingPassSampleCount is the constant 1).     *)
(***************************************************************************)
EXTENDS Naturals, Sequences, SequencesExt

CONSTANTS
    Sizes,      \* the sizes <<width, height>> of the output images
    MaxFrames   \* bound: how many frames are drawn

ASSUME SizesAssumption ==
    \A size \in Sizes :
        /\ size \in (Nat \ {0}) \X (Nat \ {0})
        /\ size[1] % 8 = 0 /\ size[2] % 8 = 0    \* the FTL_CHECKs of DrawFrame

VARIABLES
    pc,       \* the next pass of DrawFrame(), or "idle"
    frame,    \* frame_number_
    flags,    \* enable_lighting_, show_debug_info_ and the accelerator's enabled_
    size,     \* of color_image_out
    extent,   \* the sizes of the images that the helpers make
    layout,   \* of each image
    data,     \* who wrote each image, in which frame
    uses,     \* the accesses of the commands that were recorded last
    used,     \* the images that the current command buffer uses
    kept,     \* the images that it keeps alive
    submitted,\* both, of the command buffer that was submitted last
    waited    \* whether color_image_out's semaphore has been waited for

passesVars == <<pc, frame, flags, size, extent, layout, data, uses, used, kept, submitted, waited>>

Images == {"accel_depth", "accel_dummy", "accel_table", "depth", "illum1",
           "illum2", "output", "depth_as_color", "unpacked", "noise"}

Undefined       == "Undefined"
General         == "General"
ColorAttachment == "ColorAttachmentOptimal"
DepthAttachment == "DepthStencilAttachmentOptimal"
ShaderReadOnly  == "ShaderReadOnlyOptimal"
PresentSrc      == "PresentSrcKHR"

NoContents == [pass |-> "nothing", frame |-> 0]
Same    == "same"

-----------------------------------------------------------------------------
(* Accesses.  needs is the layout that the command declares ("Undefined":  *)
(* any, and the contents are given up), leaves the layout it leaves behind.*)
(* Only barriers and render passes change a layout: a command that declares*)
(* another one than the image is in leaves the image in the one it is in.  *)

Sampled(image) ==
    [image |-> image, needs |-> ShaderReadOnly, leaves |-> Same,
     reads |-> TRUE, gives |-> Same]

\* A storage image is bound in the layout eGeneral.
Stored(image, pass) ==
    [image |-> image, needs |-> General, leaves |-> Same,
     reads |-> FALSE, gives |-> pass]

Loaded(image) ==
    [image |-> image, needs |-> General, leaves |-> Same,
     reads |-> TRUE, gives |-> Same]

Barrier(image, old_layout, new_layout) ==
    [image |-> image, needs |-> old_layout, leaves |-> new_layout,
     reads |-> FALSE, gives |-> IF old_layout = Undefined THEN "nothing" ELSE Same]

Blitted(image, in_layout) ==
    [image |-> image, needs |-> in_layout, leaves |-> Same,
     reads |-> TRUE, gives |-> Same]

\* The attachments of the render passes: none of them loads what is there.
Attachment(image, final_layout, pass) ==
    [image |-> image, needs |-> Undefined, leaves |-> final_layout,
     reads |-> FALSE, gives |-> pass]

DepthPrePassAttachments(depth_image, color_image, pass) ==
    {Attachment(depth_image, DepthAttachment, pass),
     Attachment(color_image, ColorAttachment, "nothing")}

LightingAttachments ==
    {Attachment("output", ColorAttachment, "lighting"),
     Attachment("depth", DepthAttachment, "nothing")}


\* A bug to be caught: the render pass leaves the image as an attachment.
SsdoAttachmentLeft(image, pass) == {Attachment(image, ColorAttachment, pass)}

SsdoAttachment(image, pass) == {Attachment(image, ShaderReadOnly, pass)}

\* SsdoSampler::Sample() and Filter(): a render pass that samples three textures.
Sample(out, depth_texture, accelerator_texture) ==
    SsdoAttachment(out, "sample")
        \union {Sampled(depth_texture), Sampled(accelerator_texture), Sampled("noise")}

Filter(out, unfiltered_illumination, accelerator_texture, pass) ==
    SsdoAttachment(out, pass)
        \union {Sampled(unfiltered_illumination), Sampled(accelerator_texture),
                Sampled("noise")}

\* ComputeShader::Dispatch() with an input and an output.
Dispatch(input, out, pass) == {input, Stored(out, pass)}

-----------------------------------------------------------------------------
(* Recording commands, one after another.                                  *)

Access(accesses, i) == CHOOSE a \in accesses : a.image = i

Apply(gpu, accesses) ==
    LET touched == {a.image : a \in accesses}
        Found(a) == [image |-> a.image, needs |-> a.needs, reads |-> a.reads,
                     found |-> gpu.layout[a.image], data |-> gpu.data[a.image],
                     by |-> {b.gives : b \in accesses} \ {Same}]
        Gives(i) == Access(accesses, i).gives
        Leaves(i) == Access(accesses, i).leaves
    IN  [layout |-> [i \in Images |->
                        IF i \in touched /\ Leaves(i) # Same THEN Leaves(i)
                                                            ELSE gpu.layout[i]],
         data   |-> [i \in Images |->
                        CASE i \notin touched      -> gpu.data[i]
                          [] i \in touched /\ Gives(i) = Same -> gpu.data[i]
                          [] i \in touched /\ Gives(i) = "nothing" -> NoContents
                          [] OTHER -> [pass |-> Gives(i), frame |-> frame]],
         uses   |-> gpu.uses \union {Found(a) : a \in accesses}]

Recorded(commands) ==
    FoldLeft(Apply, [layout |-> layout, data |-> data, uses |-> {}], commands)

UsedWith(commands) == used \union {u.image : u \in Recorded(commands).uses}

\* What the commands do to the images when the GPU comes to them.
Execute(commands) ==
    /\ layout' = Recorded(commands).layout
    /\ data' = Recorded(commands).data
    /\ uses' = Recorded(commands).uses

\* Records the commands, and keeps the images in 'keeps' alive with the
\* command buffer: KeepAlive() of a texture, a framebuffer or a display list
\* keeps the images they refer to.
Record(commands, keeps) ==
    /\ Execute(commands)
    /\ used' = UsedWith(commands)
    /\ kept' = kept \union keeps
    /\ UNCHANGED submitted

\* SubmitPartialFrame(): what follows goes into another command buffer.
RecordAndSubmit(commands, keeps) ==
    /\ Execute(commands)
    /\ submitted' = [used |-> UsedWith(commands), kept |-> kept \union keeps]
    /\ used' = {} /\ kept' = {}

-----------------------------------------------------------------------------
PassesInit ==
    /\ pc = "idle" /\ frame = 0
    /\ flags = [lighting |-> TRUE, debug |-> FALSE, acceleration |-> TRUE]
    /\ size \in Sizes
    /\ extent = [table |-> <<0, 0>>, as_color |-> <<0, 0>>, unpacked |-> <<0, 0>>]
    /\ layout = [i \in Images |-> IF i = "noise" THEN ShaderReadOnly ELSE Undefined]
    /\ data = [i \in Images |-> IF i = "noise" THEN [pass |-> "upload", frame |-> 0]
                                               ELSE NoContents]
    /\ uses = {} /\ used = {} /\ kept = {}
    /\ submitted = [used |-> {}, kept |-> {}]
    /\ waited = FALSE

\* set_enable_lighting(), set_show_debug_info(), set_enable_ssdo_acceleration()
SetFlag(f) ==
    /\ pc = "idle"
    /\ flags' = [flags EXCEPT ![f] = ~@]
    /\ UNCHANGED <<pc, frame, size, extent, layout, data, uses, used, kept, submitted, waited>>

\* The client asks for a frame: color_image_out is an image that was presented
\* before, or a new one, with a semaphore to wait for.
BeginFrame ==
    /\ pc = "idle" /\ frame < MaxFrames
    /\ frame' = frame + 1
    /\ size' \in Sizes
    /\ waited' = FALSE
    /\ uses' = {} /\ used' = {} /\ kept' = {}
    /\ pc' = "accel_depth"
    /\ UNCHANGED <<flags, extent, layout, data, submitted>>

kDownsampleFactor == 8
AccelWidth  == size[1] \div kDownsampleFactor
AccelHeight == size[2] \div kDownsampleFactor

AccelDepthPrePass ==
    /\ pc = "accel_depth"
    /\ RecordAndSubmit(
           <<DepthPrePassAttachments("accel_depth", "accel_dummy", "accel_prepass")>>,
           {"accel_depth", "accel_dummy"})
    /\ pc' = "accel_table"
    /\ UNCHANGED <<frame, flags, size, extent, waited>>

\* The size of the neighborhood that an invocation of a kernel works on, and
\* the number of texels of the packed table that it writes.
kSize == 8
WorkGroups(n) == n \div kSize + (IF n % kSize > 0 THEN 1 ELSE 0)

Packed(n) == n \div 4 + (IF n % kSize > 0 THEN 1 ELSE 0)

\* GenerateLookupTable(), or GenerateNullLookupTable() when the accelerator is
\* not enabled: both make an image and bind it, with the depth image, to a
\* kernel.
GenerateLookupTable ==
    /\ pc = "accel_table"
    /\ RecordAndSubmit(
           <<{Barrier("accel_table", Undefined, General)},
             Dispatch(Sampled("accel_depth"), "accel_table",
                      IF flags.acceleration THEN "table" ELSE "null_table")>>,
           {"accel_depth", "accel_table"})
    /\ extent' = [extent EXCEPT !.table = <<Packed(AccelWidth), Packed(AccelHeight)>>]
    /\ pc' = "depth"
    /\ UNCHANGED <<frame, flags, size, waited>>

\* The output image serves as the color attachment that nobody looks at.
DepthPrePass ==
    /\ pc = "depth"
    /\ waited' = TRUE
    /\ RecordAndSubmit(<<DepthPrePassAttachments("depth", "output", "prepass")>>,
                       {"depth", "output"})
    /\ pc' = IF flags.lighting THEN "sample" ELSE "lighting"
    /\ UNCHANGED <<frame, flags, size, extent>>

SsdoSample ==
    /\ pc = "sample"
    /\ Record(<<{Barrier("depth", DepthAttachment, ShaderReadOnly)},
                Sample("illum1", "depth", "accel_table"),
                {Barrier("depth", ShaderReadOnly, DepthAttachment)}>>,
              {"depth", "illum1", "illum2", "accel_table"})
    /\ pc' = "filter_1"
    /\ UNCHANGED <<frame, flags, size, extent, waited>>


\* A bug to be caught: only the second filter pass is made.
FilterPass1Forgotten ==
    /\ pc = "filter_1"
    /\ pc' = "filter_2"
    /\ UNCHANGED <<frame, flags, size, extent, layout, data, uses, used, kept,
                   submitted, waited>>

\* The first filter pass reads the noisy image; afterwards that image is an
\* attachment again.
FilterPass1 ==
    /\ pc = "filter_1"
    /\ Record(<<Filter("illum2", "illum1", "accel_table", "filter_1"),
                {Barrier("illum1", ShaderReadOnly, ColorAttachment)}>>,
              {"illum1"})
    /\ pc' = "filter_2"
    /\ UNCHANGED <<frame, flags, size, extent, waited>>

FilterPass2 ==
    /\ pc = "filter_2"
    /\ RecordAndSubmit(<<Filter("illum1", "illum2", "accel_table", "filter_2"),
                {Barrier("illum2", ShaderReadOnly, ColorAttachment)}>>,
              {"illum2"})
    /\ pc' = "lighting"
    /\ UNCHANGED <<frame, flags, size, extent, waited>>


\* A bug to be caught: the illumination was kept alive by the command buffers
\* of the SSDO passes, and is not by the one that draws with it.
LightingPassUnkept ==
    /\ pc = "lighting"
    /\ Record(<<LightingAttachments
                   \union (IF flags.lighting THEN {Sampled("illum1")} ELSE {})>>,
              {"output", "depth"})
    /\ pc' = IF flags.debug THEN "show_depth" ELSE "finish"
    /\ UNCHANGED <<frame, flags, size, extent, waited>>

\* The display list of the lighting pass refers to the illumination, or to a
\* white texture when there is none.
LightingPass ==
    /\ pc = "lighting"
    /\ Record(<<LightingAttachments
                   \union (IF flags.lighting THEN {Sampled("illum1")} ELSE {})>>,
              {"output", "depth"} \union (IF flags.lighting THEN {"illum1"} ELSE {}))
    /\ pc' = IF flags.debug THEN "show_depth" ELSE "finish"
    /\ UNCHANGED <<frame, flags, size, extent, waited>>

\* DepthToColor::Convert() makes an image whose height is the width of the
\* depth image.  The copy is blitted from a layout it is not in.
ShowAccelDepth ==
    /\ pc = "show_depth"
    /\ Record(<<{Barrier("depth_as_color", Undefined, General)},
                Dispatch(Sampled("accel_depth"), "depth_as_color", "convert"),
                {Blitted("depth_as_color", ShaderReadOnly),
                 Blitted("output", ColorAttachment)}>>,
              {"accel_depth", "depth_as_color"})
    /\ extent' = [extent EXCEPT !.as_color = <<AccelWidth, AccelWidth>>]
    /\ pc' = "show_table"
    /\ UNCHANGED <<frame, flags, size, waited>>

\* SsdoAccelerator::UnpackLookupTable()
ShowLookupTable ==
    /\ pc = "show_table"
    /\ Record(<<{Barrier("unpacked", Undefined, General)},
                Dispatch(Loaded("accel_table"), "unpacked", "unpack"),
                {Blitted("unpacked", General), Blitted("output", ColorAttachment)}>>,
              {"accel_table", "unpacked"})
    /\ extent' = [extent EXCEPT !.unpacked = <<AccelWidth, AccelHeight>>]
    /\ pc' = IF flags.lighting THEN "show_illumination" ELSE "finish"
    /\ UNCHANGED <<frame, flags, size, waited>>

ShowIllumination ==
    /\ pc = "show_illumination"
    /\ Record(<<{Blitted("illum1", ShaderReadOnly), Blitted("output", ColorAttachment)}>>, {})
    /\ pc' = "finish"
    /\ UNCHANGED <<frame, flags, size, extent, waited>>

\* The image is handed to the presentation engine, and EndFrame() submits the
\* last command buffer.
FinishFrame ==
    /\ pc = "finish"
    /\ RecordAndSubmit(<<{Barrier("output", ColorAttachment, PresentSrc)}>>, {"output"})
    /\ pc' = "idle"
    /\ UNCHANGED <<frame, flags, size, extent, waited>>

FrameStep ==
    \/ AccelDepthPrePass \/ GenerateLookupTable \/ DepthPrePass
    \/ SsdoSample \/ FilterPass1 \/ FilterPass2
    \/ LightingPass
    \/ ShowAccelDepth \/ ShowLookupTable \/ ShowIllumination
    \/ FinishFrame

PassesNext ==
    \/ \E f \in DOMAIN flags : SetFlag(f)
    \/ BeginFrame
    \/ FrameStep

PassesSpec == PassesInit /\ [][PassesNext]_passesVars

-----------------------------------------------------------------------------
(* Properties.                                                             *)

\* What the code gets wrong: an image, the layout that a command declares for
\* it, and the one it is in.  The acceleration structure's depth is an
\* attachment when its kernels and DepthToColor sample it; the lookup table and
\* the converted depth are in the layout in which their kernels stored them when
\* the SSDO passes sample the one and the other is blitted.
Misdeclared == {<<"accel_depth", ShaderReadOnly, DepthAttachment>>,
                <<"accel_table", ShaderReadOnly, General>>,
                <<"depth_as_color", ShaderReadOnly, General>>}

\* Every image is in the layout which the command that uses it declares, but
\* for these three, and they are in exactly one other: the two filter passes
\* move the illumination images back and forth between attachment and texture,
\* depth goes to texture and back, and none of it may depend on the flags.
AsDeclared(image, needs, found) ==
    needs \in {Undefined, found} \/ <<image, needs, found>> \in Misdeclared

ImagesAreAsDeclared == \A u \in uses : AsDeclared(u.image, u.needs, u.found)

\* What there should be in an image that is read.  The illumination is filtered
\* twice; only the first filter reads it as it was sampled.
Producers(u) ==
    [accel_depth |-> {"accel_prepass"}, accel_table |-> {"table", "null_table"},
     depth |-> {"prepass"},
     illum1 |-> IF u.by = {"filter_1"} THEN {"sample"} ELSE {"filter_2"},
     illum2 |-> {"filter_1"},
     output |-> {"lighting"}, depth_as_color |-> {"convert"}, unpacked |-> {"unpack"}]

\* A pass reads what an earlier pass of the same frame has written, and the
\* right one: images come from a cache and hold the previous frame's data.
PassesReadThisFrame ==
    \A u \in uses :
        u.reads /\ u.image # "noise" =>
            /\ u.data.frame = frame
            /\ u.data.pass \in Producers(u)[u.image]

\* Every image that a command buffer uses is kept alive with that command
\* buffer, and not only with the one that recorded its earlier uses; the noise
\* texture belongs to the SsdoSampler.
UsedImagesAreKept == submitted.used \ {"noise"} \subseteq submitted.kept

\* No command touches the output image before the semaphore that came with it
\* has been waited for.
OutputIsWaitedFor == (\E u \in uses : u.image = "output") => waited

\* The packed lookup table is large enough for the pixels it stands for and
\* not a whole neighborhood too large (the DCHECKs of UnpackLookupTable()),
\* and the kernel writes every texel of it.
TableCoversDepthImage ==
    pc \in {"depth", "lighting", "show_table"} =>
        \A d \in {1, 2} :
            LET n == <<AccelWidth, AccelHeight>>[d]
                texels == extent.table[d]
            IN  /\ n <= 4 * texels
                /\ n + kSize > 4 * texels
                /\ texels <= 2 * WorkGroups(n)

\* A finished frame leaves the output image ready to be presented, with what
\* the lighting pass of that frame has drawn.
FinishedFrameIsPresentable ==
    pc = "idle" /\ frame > 0 =>
        /\ layout["output"] = PresentSrc
        /\ data["output"] = [pass |-> "lighting", frame |-> frame]

\* Every layout that a command declares is the one that an earlier command has
\* left the image in, except for the three images that the code is known to
\* declare wrongly, whose layout is known too; and the presentation engine gets
\* the output image as it expects it.
LayoutsAreHandedOn == ImagesAreAsDeclared /\ FinishedFrameIsPresentable

\* What a pass reads was written by this frame, and all of it.
PassesReadWholeFrame == PassesReadThisFrame /\ TableCoversDepthImage

\* A command buffer uses images that are there: not before the presentation
\* engine has let go of them, and with a reference of its own.
UsedImagesAreThere == UsedImagesAreKept /\ OutputIsWaitedFor
=============================================================================
