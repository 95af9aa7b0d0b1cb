----------------------------- MODULE VertexLayout -----------------------------
(***************************************************************************)
(* The layout of a vertex, which is computed in three places: where the    *)
(* host writes its attributes (MeshSpec and GetVertexAttributePointers()), *)
(* where a pipeline reads them (ModelData::GetMeshShaderBinding()), and in *)
(* the compute shader of the WobbleModifierAbsorber.                       *)
(***************************************************************************)
EXTENDS Naturals, FiniteSets, Functions

CONSTANT MaxSpecs   \* bound: how many specifications are used

VARIABLES
    pointers,                    \* for each specification that was tessellated, its pointers
    mesh_shader_binding_cache    \* mesh_shader_binding_cache_ of ModelData

layoutVars == <<pointers, mesh_shader_binding_cache>>

MeshAttributes == {"position 2D", "position 3D", "position offset", "uv", "perimeter"}
MeshSpecs == SUBSET MeshAttributes
kMaxVertexSize == 100

GetMeshAttributeSize(attribute) ==
    CASE attribute = "position 2D" -> 8
      [] attribute = "position 3D" -> 12
      [] attribute = "position offset" -> 8
      [] attribute = "uv" -> 8
      [] attribute = "perimeter" -> 4

IsValid(flags) ==
    IF "position 2D" \in flags THEN "position 3D" \notin flags
    ELSE "position 3D" \in flags /\ {"position offset", "perimeter"} \intersect flags = {}

Size(attribute, flags) == IF attribute \in flags THEN GetMeshAttributeSize(attribute) ELSE 0

\* What follows the attribute, "stride" being the last.
GetAttributeOffset(flags, flag) ==
    LET position2D == 0
        position3D == position2D + Size("position 2D", flags)
        offset == position3D + Size("position 3D", flags)
        uv == offset + Size("position offset", flags)
        perimeter == uv + Size("uv", flags)
    IN  CASE flag = "position 2D" -> position2D
          [] flag = "position 3D" -> position3D
          [] flag = "position offset" -> offset
          [] flag = "uv" -> uv
          [] flag = "perimeter" -> perimeter
          [] flag = "stride" -> perimeter + Size("perimeter", flags)

\* A null pointer where there is no such attribute.
GetVertexAttributePointers(flags) ==
    [a \in flags |-> GetAttributeOffset(flags, a)]

Location(attribute) ==
    CASE attribute \in {"position 2D", "position 3D"} -> 0
      [] attribute = "position offset" -> 1
      [] attribute = "uv" -> 2
      [] attribute = "perimeter" -> 3

\* The attributes are appended one after the other; each begins where those
\* before it end.
Order == <<"position 2D", "position 3D", "position offset", "uv", "perimeter">>

\* A bug to be caught: the texture coordinates are appended first.
BindingWithUvFirst(flags) ==
    LET order == <<"uv", "position 2D", "position 3D", "position offset", "perimeter">>
        stride[k \in 0 .. 5] == IF k = 0 THEN 0 ELSE stride[k - 1] + Size(order[k], flags)
    IN  [attributes |-> {[attribute |-> order[k], location |-> Location(order[k]),
                          offset |-> stride[k - 1]] : k \in {k \in 1 .. 5 : order[k] \in flags}},
         stride |-> stride[5]]

NewMeshShaderBinding(flags) ==
    LET stride[k \in 0 .. 5] == IF k = 0 THEN 0 ELSE stride[k - 1] + Size(Order[k], flags)
    IN  [attributes |-> {[attribute |-> Order[k], location |-> Location(Order[k]),
                          offset |-> stride[k - 1]] : k \in {k \in 1 .. 5 : Order[k] \in flags}},
         stride |-> stride[5]]

LayoutInit == pointers = <<>> /\ mesh_shader_binding_cache = <<>>

TessellateVertices(flags) ==
    /\ IsValid(flags) /\ Cardinality(DOMAIN pointers \union {flags}) <= MaxSpecs
    /\ pointers' = [f \in DOMAIN pointers \union {flags} |-> GetVertexAttributePointers(f)]
    /\ UNCHANGED mesh_shader_binding_cache

\* A binding is made once for a specification.
GetMeshShaderBinding(flags) ==
    /\ flags \in DOMAIN pointers
    /\ mesh_shader_binding_cache' =
        [f \in DOMAIN mesh_shader_binding_cache \union {flags} |->
            IF f \in DOMAIN mesh_shader_binding_cache THEN mesh_shader_binding_cache[f]
            ELSE NewMeshShaderBinding(f)]
    /\ UNCHANGED pointers

LayoutNext == \E flags \in MeshSpecs : TessellateVertices(flags) \/ GetMeshShaderBinding(flags)

LayoutSpec == LayoutInit /\ [][LayoutNext]_layoutVars

\* struct Vertex of the compute shader, with which the meshes of strokes and
\* of the scenes are modified.
WobbleMeshSpec == {"position 2D", "position offset", "uv", "perimeter"}
WobbleVertex == [position |-> 0, offset |-> 8, uv |-> 16, perimeter |-> 24, stride |-> 28]

-----------------------------------------------------------------------------
(* Properties.                                                             *)

\* What the host writes the pipelines read: every attribute at the same offset
\* and at a location of its own, no two overlapping, all of them inside the
\* stride, which is that of the vertices in the buffer; and the compute shader
\* finds them there too ("Attribute order must match").
ReadersFindWhatWritersWrote ==
    /\ \A flags \in DOMAIN mesh_shader_binding_cache :
         LET binding == mesh_shader_binding_cache[flags] IN
         /\ {r.attribute : r \in binding.attributes} = DOMAIN pointers[flags]
         /\ binding.stride = GetAttributeOffset(flags, "stride") /\ binding.stride <= kMaxVertexSize
         /\ \A r \in binding.attributes :
              /\ r.offset = pointers[flags][r.attribute]
              /\ r.offset + GetMeshAttributeSize(r.attribute) <= binding.stride
              /\ \A s \in binding.attributes \ {r} :
                   /\ r.location # s.location
                   /\ \/ r.offset + GetMeshAttributeSize(r.attribute) <= s.offset
                      \/ s.offset + GetMeshAttributeSize(s.attribute) <= r.offset
    /\ WobbleMeshSpec \in DOMAIN pointers =>
         LET p == pointers[WobbleMeshSpec] IN
         WobbleVertex = [position |-> p["position 2D"], offset |-> p["position offset"],
                         uv |-> p["uv"], perimeter |-> p["perimeter"],
                         stride |-> GetAttributeOffset(WobbleMeshSpec, "stride")]
=============================================================================
