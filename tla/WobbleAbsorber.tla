---------------------------- MODULE WobbleAbsorber ----------------------------
(***************************************************************************)
(* impl/wobble_modifier_absorber.cc: before a frame, the vertices of every *)
(* object that wobbles are copied to a new buffer and displaced there by a *)
(* compute shader, and the object is given a mesh with this buffer.        *)
(*                                                                         *)
(* A submission is executed at once, when the semaphores it waits for are  *)
(* signalled, and otherwise in any order: work without a semaphore or a    *)
(* barrier between may overlap even on one queue.  A kernel takes its time:*)
(* what it reads may be overwritten meanwhile.  The vertices in a buffer   *)
(* are kept as what has been done to them; what a kernel writes beyond its *)
(* buffer is noted, and taken to hit nothing that is modelled here.        *)
(***************************************************************************)
EXTENDS Naturals, Sequences, FiniteSets, FiniteSetsExt

CONSTANTS
    Objects,        \* the objects of the model that wobble
    NumVertices,    \* how many vertices their meshes can have
    MaxFrames       \* bound: the frames

ASSUME WobbleAssumption ==
    /\ IsFiniteSet(Objects) /\ NumVertices \subseteq Nat \ {0} /\ MaxFrames \in Nat

kLocalSize == 32
VertexSize == 28   \* of the mesh specification that the shader is written for

VARIABLES
    absorbing,      \* the objects that AbsorbWobbleIfAny() has still to do in this frame
    frame,          \* the number of the frame
    num_vertices,   \* object -> the size of its mesh
    uploaded,       \* object -> the frame in which the upload of its mesh was executed
    submissions,    \* what was submitted: its number is its position
    running,        \* the kernels that are being executed
    done,           \* the submissions that were executed
    modified,       \* object -> the submission that computes its modified mesh, 0 if none
    model_time,     \* in the uniform buffer that all frames share; times are frames
    compute_buffer, \* <<frame, object>> -> the vertices
    spilled,        \* the objects whose kernels have written beyond their buffers
    vertices_drawn  \* what the frames have read, of which object

cpuVars == <<absorbing, frame, num_vertices, submissions, modified, model_time>>
gpuVars == <<uploaded, running, done, compute_buffer, spilled, vertices_drawn>>
wobbleVars == <<cpuVars, gpuVars>>

\* Of an upload that was not executed yet: no frame has such a number.
Never == MaxFrames + 1

NewBuffer == [state |-> "new", whole |-> FALSE, times |-> {}]
BufferOf(k) == <<submissions[k].frame, submissions[k].object>>

WobbleInit ==
    /\ absorbing = {}
    /\ frame = 0
    /\ num_vertices \in [Objects -> NumVertices]
    /\ uploaded = [o \in Objects |-> Never]
    /\ submissions = <<>> /\ running = {} /\ done = {}
    /\ modified = [o \in Objects |-> 0]
    /\ model_time = 0
    /\ compute_buffer = [b \in (1 .. MaxFrames) \X Objects |-> NewBuffer]
    /\ spilled = {} /\ vertices_drawn = {}

\* GetModel() makes the model of a new frame, with the original meshes, and
\* AbsorbWobbleIfAny() begins: it writes the time of the model to the buffer that
\* kernels of earlier frames may be reading.
BeginWobbleFrame ==
    /\ absorbing = {} /\ frame < MaxFrames
    /\ \A o \in Objects : modified[o] = 0
    /\ frame' = frame + 1
    /\ absorbing' = Objects
    /\ model_time' = frame'
    /\ compute_buffer' = [b \in DOMAIN compute_buffer |->
         IF \E k \in running : BufferOf(k) = b
         THEN [compute_buffer[b] EXCEPT !.times = @ \union {model_time'}] ELSE compute_buffer[b]]
    /\ UNCHANGED <<num_vertices, submissions, modified, uploaded, running, done, spilled,
                   vertices_drawn>>

GroupCount(n) == (n \div kLocalSize) + (n % kLocalSize)

\* The invocations of the kernel that displace a vertex, of the buffer or behind its
\* end: the push constant, which the kernel takes for the number of vertices, is the
\* size of the buffer in bytes.
Invocations(n) == {idx \in 0 .. GroupCount(n) * kLocalSize - 1 : idx < n * VertexSize}
Vertices(n) == 0 .. n - 1

\* A bug to be caught: the kernel does not wait for the copy.
AbsorbWithoutWait(o) ==
    LET copy == Len(submissions) + 1 IN
    /\ o \in absorbing
    /\ submissions' = submissions \o
         <<[work |-> "copy", object |-> o, frame |-> frame, waits |-> {}],
           [work |-> "compute", object |-> o, frame |-> frame, waits |-> {}]>>
    /\ modified' = [modified EXCEPT ![o] = copy + 1]
    /\ absorbing' = absorbing \ {o}
    /\ UNCHANGED <<frame, num_vertices, model_time, gpuVars>>

\* One object of the loop in AbsorbWobbleIfAny(): a copy that signals
\* compute_buffer_ready, and a dispatch that waits for it and signals absorbed,
\* the semaphore of the modified mesh.  The copy asks the vertex buffer for the
\* semaphore of its upload, but the mesh has taken that away (see MeshManager), and
\* nobody asks the original mesh: the copy does not wait for the vertices.
AbsorbWobble(o) ==
    LET copy == Len(submissions) + 1 IN
    /\ o \in absorbing
    /\ submissions' = submissions \o
         <<[work |-> "copy", object |-> o, frame |-> frame, waits |-> {}],
           [work |-> "compute", object |-> o, frame |-> frame, waits |-> {copy}]>>
    /\ modified' = [modified EXCEPT ![o] = copy + 1]
    /\ absorbing' = absorbing \ {o}
    /\ UNCHANGED <<frame, num_vertices, model_time, gpuVars>>

\* The renderer draws the model: DrawMesh() takes the semaphores of the meshes.
DrawWobbleFrame ==
    /\ absorbing = {} /\ \A o \in Objects : modified[o] # 0
    /\ submissions' = Append(submissions,
         [work |-> "draw", object |-> Objects, frame |-> frame,
          waits |-> {modified[o] : o \in Objects}])
    /\ modified' = [o \in Objects |-> 0]
    /\ UNCHANGED <<absorbing, frame, num_vertices, model_time, gpuVars>>

-----------------------------------------------------------------------------
(* The GPU.                                                                *)

MeshArrives(o) ==
    /\ uploaded[o] = Never
    /\ uploaded' = [uploaded EXCEPT ![o] = frame]
    /\ UNCHANGED <<cpuVars, running, done, compute_buffer, spilled, vertices_drawn>>

\* Whatever is in the vertex buffer by now.
GpuCopies(k) ==
    /\ submissions[k].work = "copy"
    /\ compute_buffer' = [compute_buffer EXCEPT ![BufferOf(k)] =
         [state |-> "copied", whole |-> uploaded[submissions[k].object] # Never, times |-> {}]]
    /\ UNCHANGED <<running, spilled, vertices_drawn>>

\* Its invocations read the time from now on, each when it comes to it.
GpuStartsKernel(k) ==
    /\ k \notin running \union done /\ submissions[k].waits \subseteq done
    /\ submissions[k].work = "compute"
    /\ running' = running \union {k}
    /\ compute_buffer' = [compute_buffer EXCEPT ![BufferOf(k)].times = {model_time}]
    /\ UNCHANGED <<cpuVars, uploaded, done, spilled, vertices_drawn>>

\* The kernel has displaced what was in the buffer when it began, wherever an
\* invocation reaches.
GpuDisplaces(k) ==
    LET o == submissions[k].object
        n == num_vertices[o]
    IN  /\ submissions[k].work = "compute" /\ k \in running
        /\ running' = running \ {k}
        /\ compute_buffer' = [compute_buffer EXCEPT ![BufferOf(k)].state =
             IF @ = "copied" /\ compute_buffer[BufferOf(k)].times # {}
                /\ Vertices(n) \subseteq Invocations(n) THEN "displaced" ELSE "spoiled"]
        /\ spilled' = IF Invocations(n) \subseteq Vertices(n) THEN spilled ELSE spilled \union {o}
        /\ UNCHANGED vertices_drawn

GpuDraws(k) ==
    /\ submissions[k].work = "draw"
    /\ vertices_drawn' = vertices_drawn \union
         {[frame |-> submissions[k].frame, object |-> o,
           vertices |-> compute_buffer[<<submissions[k].frame, o>>]] : o \in Objects}
    /\ UNCHANGED <<running, compute_buffer, spilled>>

GpuExecutesWobble(k) ==
    /\ k \notin done /\ submissions[k].waits \subseteq done
    /\ done' = done \union {k}
    /\ GpuCopies(k) \/ GpuDisplaces(k) \/ GpuDraws(k)
    /\ UNCHANGED <<cpuVars, uploaded>>

WobbleNext ==
    \/ BeginWobbleFrame
    \/ \E o \in Objects : AbsorbWobble(o) \/ MeshArrives(o)
    \/ DrawWobbleFrame
    \/ \E k \in DOMAIN submissions : GpuStartsKernel(k) \/ GpuExecutesWobble(k)

WobbleSpec == WobbleInit /\ [][WobbleNext]_wobbleVars

-----------------------------------------------------------------------------
(* Properties.                                                             *)

\* Every vertex displaced once, and no sooner than copied, at times that are none of
\* an earlier frame.
DrawnDisplaced(d) ==
    /\ d.vertices.state = "displaced"
    /\ d.vertices.times # {} /\ d.vertices.times \subseteq d.frame .. frame

\* Whatever overlaps, a frame draws vertices that were copied and then all of them
\* displaced, for a mesh of any size: semaphores hand the buffer on from the copy to
\* the kernel and from the kernel to the frame.  The rest holds only as far as luck
\* and the size of the mesh go: a time may be that of a later frame that has begun,
\* and one frame may mix several; the vertices are the mesh's if its upload was
\* executed before the frame began; and the kernel writes beyond the end of its
\* buffer unless the vertices make whole work groups.
WobbleIsDrawnComplete ==
    \A d \in vertices_drawn :
        /\ DrawnDisplaced(d)
        /\ uploaded[d.object] < d.frame => d.vertices.whole
        /\ d.object \in spilled <=> num_vertices[d.object] % kLocalSize # 0
=============================================================================
