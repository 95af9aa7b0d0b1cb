------------------------------ MODULE MeshManager ------------------------------
(***************************************************************************)
(* impl/mesh_manager.{h,cc}: a MeshBuilder gets two Writers, one for the   *)
(* vertices and one for the indices, and Build() submits them one after    *)
(* the other; and impl::CommandBuffer::DrawMesh(), by which a frame on the *)
(* main queue waits for the mesh.  Every client in the repository builds   *)
(* one mesh at a time (NewMeshBuilder() ... Build()).                      *)
(***************************************************************************)
EXTENDS GpuUploader

CONSTANT Mesh   \* bound: the meshes that are built

VARIABLES
  stage,             \* mesh -> how far NewMeshBuilder() and Build() have come
  vertex_writer, index_writer,   \* mesh -> the number of the Writer, or 0
  wait_semaphore,    \* mesh -> its semaphore: the number that signals it, or 0
  waits,             \* number -> the numbers whose semaphores it waits for
  draws,             \* number -> the meshes its commands draw
  executed           \* the numbers the GPU has executed

meshVars == <<stage, vertex_writer, index_writer, wait_semaphore, waits, draws,
              executed>>

MeshInit ==
  /\ UploaderInit
  /\ stage = [m \in Mesh |-> "none"]
  /\ vertex_writer = [m \in Mesh |-> 0]
  /\ index_writer = [m \in Mesh |-> 0]
  /\ wait_semaphore = [m \in Mesh |-> 0]
  /\ waits = [n \in 1..MaxSequence |-> {}]
  /\ draws = [n \in 1..MaxSequence |-> {}]
  /\ executed = {}

(* No mesh is under construction. *)
ClientTurn == \A m \in Mesh : stage[m] \in {"none", "built"}

(* NewMeshBuilder() obtains both Writers as arguments of one constructor.  *)
(* C++ leaves their order open; this is that of Clang, left to right.      *)
ObtainWriter(m, size, from, to) ==
  /\ stage[m] = from
  /\ GetWriter(size)
  /\ stage' = [stage EXCEPT ![m] = to]
  /\ UNCHANGED <<wait_semaphore, waits, draws, executed>>

(* A bug to be caught: the arguments are evaluated from right to left. *)
IndicesFirst(m, size) ==
  /\ ClientTurn
  /\ ObtainWriter(m, size, "none", "one writer")
  /\ index_writer' = [index_writer EXCEPT ![m] = issued']
  /\ UNCHANGED vertex_writer

FirstWriter(m, size) ==
  /\ ClientTurn
  /\ ObtainWriter(m, size, "none", "one writer")
  /\ vertex_writer' = [vertex_writer EXCEPT ![m] = issued']
  /\ UNCHANGED index_writer

(* The Writer that is still missing. *)
SecondWriter(m, size) ==
  /\ ObtainWriter(m, size, "one writer", "building")
  /\ IF vertex_writer[m] = 0
     THEN /\ vertex_writer' = [vertex_writer EXCEPT ![m] = issued']
          /\ UNCHANGED index_writer
     ELSE /\ index_writer' = [index_writer EXCEPT ![m] = issued']
          /\ UNCHANGED vertex_writer

(* Build(), up to each of the two calls of Submit() and after it. *)
BuildStep(m, from, to) ==
  /\ stage[m] = from
  /\ stage' = [stage EXCEPT ![m] = to]
  /\ UNCHANGED <<vertex_writer, index_writer, waits, draws, executed>>

WriteVertices(m) ==
  /\ BuildStep(m, "building", "vertices written")
  /\ Write(vertex_writer[m])
  /\ UNCHANGED wait_semaphore

SubmitVertices(m) ==
  /\ BuildStep(m, "vertices written", "vertices submitted")
  /\ Submit(vertex_writer[m])
  /\ UNCHANGED wait_semaphore

WriteIndices(m) ==
  /\ BuildStep(m, "vertices submitted", "indices written")
  /\ Write(index_writer[m])
  /\ UNCHANGED wait_semaphore

(* A bug to be caught: the mesh takes over the other semaphore. *)
SubmitIndicesForIndices(m) ==
  /\ BuildStep(m, "indices written", "built")
  /\ Submit(index_writer[m])
  /\ wait_semaphore' = [wait_semaphore EXCEPT ![m] = index_writer[m]]

(* The mesh takes over the vertex buffer's semaphore, the only one. *)
SubmitIndices(m) ==
  /\ BuildStep(m, "indices written", "built")
  /\ Submit(index_writer[m])
  /\ wait_semaphore' = [wait_semaphore EXCEPT ![m] = vertex_writer[m]]

------------------------------------------------------------------------------
(* The numbers of the frames' command buffers, not the uploader's. *)
Frames == {n \in 1..issued : writers[n] = NoWriter}

(* DrawFrame() records one frame from its beginning to its end. *)
BeginFrame ==
  /\ ClientTurn
  /\ Frames \cap recording = {}
  /\ HandOut
  /\ UNCHANGED <<uploaderVars, meshVars>>

(* DrawMesh() takes the semaphore: only the first to draw m waits for it. *)
DrawMesh(n, m) ==
  /\ ClientTurn
  /\ n \in Frames \cap recording
  /\ stage[m] = "built"
  /\ draws' = [draws EXCEPT ![n] = @ \cup {m}]
  /\ waits' = [waits EXCEPT ![n] = @ \cup ({wait_semaphore[m]} \ {0})]
  /\ wait_semaphore' = [wait_semaphore EXCEPT ![m] = 0]
  /\ UNCHANGED <<commandVars, uploaderVars, stage, vertex_writer, index_writer,
                 executed>>

EndFrame(n) ==
  /\ ClientTurn
  /\ n \in Frames
  /\ SubmitNumber(n)
  /\ UNCHANGED <<uploaderVars, meshVars>>

(* The commands of n execute when its semaphores are signalled, and those  *)
(* on the main queue in the order of their submission.                     *)
GpuExecutesMesh(n) ==
  /\ waits[n] \subseteq executed
  /\ n \in Frames => \A f \in Frames \cap executing : n <= f
  /\ Execute(n)
  /\ executed' = executed \cup {n}
  /\ UNCHANGED <<uploaderVars, stage, vertex_writer, index_writer,
                 wait_semaphore, waits, draws>>

MeshNext ==
  \/ \E m \in Mesh, size \in Size : FirstWriter(m, size) \/ SecondWriter(m, size)
  \/ \E m \in Mesh : \/ WriteVertices(m) \/ SubmitVertices(m)
                     \/ WriteIndices(m) \/ SubmitIndices(m)
  \/ BeginFrame
  \/ \E n \in 1..issued : \/ EndFrame(n)
                          \/ GpuExecutesMesh(n)
                          \/ Finish(n) /\ UNCHANGED meshVars
                          \/ \E m \in Mesh : DrawMesh(n, m)

MeshSpec == MeshInit /\ [][MeshNext]_<<allVars, meshVars>>
------------------------------------------------------------------------------
(* A frame that draws a mesh, be it the first or a later one that finds    *)
(* the semaphore taken, reads vertices that have arrived; unless the frame *)
(* that took the semaphore was lost because its submission failed.         *)
VerticesArriveBeforeDraw ==
  \A n \in executed : \A m \in draws[n] :
    \/ vertex_writer[m] \in executed
    \/ \E f \in Frames \ (recording \cup executing \cup executed) :
         f < n /\ m \in draws[f]

(* mesh_manager.h:24: the MeshManager is responsible for "managing         *)
(* synchronization".  The mesh's semaphore is signalled by the upload of   *)
(* its vertices, not by that of its indices, which is submitted later.     *)
IndicesArriveBeforeDraw ==
  \A n \in executed : \A m \in draws[n] : index_writer[m] \in executed

(* command_buffer.cc:110, FTL_DCHECK(resource->sequence_number() <=        *)
(* sequence_number_): when Build() submits a Writer, no command buffer with *)
(* a higher number has read the staging buffer that both Writers may share *)
(* with each other and with the Writers of earlier and of later clients.   *)
BuildKeepsOrder ==
  \A m \in Mesh :
    /\ stage[m] = "vertices written" => KeepAliveInOrder(vertex_writer[m])
    /\ stage[m] = "indices written" => KeepAliveInOrder(index_writer[m])
==============================================================================
