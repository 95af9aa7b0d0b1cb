----------------------------- MODULE DisplayList -----------------------------
(***************************************************************************)
(* How a Model becomes commands: ModelRenderer::CreateDisplayList() and    *)
(* ModelDisplayListBuilder walk the tree of Objects and emit items,        *)
(* ModelPipelineCache gives each item a pipeline, ModelRenderer::Draw()    *)
(* binds pipelines and stencil references, and the GPU tests and updates   *)
(* the stencil buffer.  The display lists of a frame (the model and an     *)
(* overlay) share a render pass, and those of all frames the pipeline      *)
(* cache.  Here all lists are drawn one after the other, with no clearing  *)
(* of the stencil buffer between frames, which is harder.                  *)
(*                                                                         *)
(* An Object covers a set of pixels; colors, transforms and depths are     *)
(* left out: a pixel is painted if the stencil test lets the fragment of   *)
(* an Object with a material pass.                                         *)
(***************************************************************************)
EXTENDS Naturals, Sequences, SequencesExt, FiniteSets

CONSTANTS
  Pixel,
  Object,
  kNone,        \* the shape of a pure clip group
  Scenes,       \* the sequences of models that may be drawn, see Model
  StencilSize,  \* values of the stencil buffer (256: it has 8 bits)
  kBufferSize, kPerModelSize, kPerObjectSize, kAlignment,   \* uniform buffers
  kSetsPerAllocation   \* kReasonableDescriptorSetAllocationCount

(* What a display list is built from: a list of top-level Objects, what    *)
(* each Object is, and the flag kDisableDepthTest.                         *)
Model ==
  [objects: Seq(Object),
   shape: [Object -> (SUBSET Pixel) \cup {kNone}],
   material: [Object -> {"none", "translucent", "opaque"}],
   clippers: [Object -> Seq(Object)],
   clippees: [Object -> Seq(Object)],
   disable_depth_test: BOOLEAN]

ASSUME SceneAssumption ==
  /\ \A s \in Scenes : s \in Seq(Model)
  /\ StencilSize \in Nat \ {0}
  /\ kBufferSize \in Nat /\ kPerModelSize \in Nat /\ kPerObjectSize \in Nat
  /\ kPerModelSize <= kBufferSize /\ kPerObjectSize <= kBufferSize
  /\ kAlignment \in Nat \ {0} /\ kSetsPerAllocation \in Nat \ {0}

(* The groups that o is a clippee or a clipper of.                         *)
ClippedBy(m, o) == {g \in Object : o \in ToSet(m.clippees[g])}
ClipsFor(m, o) == {g \in Object : o \in ToSet(m.clippers[g])}
Above(m, o) == ClippedBy(m, o) \cup ClipsFor(m, o)

(* An Object has its clippers and clippees by value, so a model is a tree. *)
(* The builder asserts that a clipper has none of either, and              *)
(* GetMeshForShape() that what is drawn has a shape.                       *)
IsTree(m) ==
  /\ \A o \in ToSet(m.objects) : Above(m, o) = {}
  /\ \A o \in Object : \A g, h \in Above(m, o) : g = h
  /\ \A o \in Object : ClippedBy(m, o) \cap ClipsFor(m, o) = {}
  /\ \A o \in Object : m.clippees[o] # <<>> \/ m.clippers[o] # <<>> =>
       o \in ToSet(m.objects) \/ ClippedBy(m, o) # {}
  /\ \A o \in Object : m.shape[o] = kNone => m.material[o] = "none"

(* Clients nest fewer groups than the stencil buffer has values: nesting   *)
(* grows from a group to its clippees.                                     *)
ASSUME TreeAssumption ==
  \A s \in Scenes : \A l \in DOMAIN s :
    /\ IsTree(s[l])
    /\ \E nesting \in [Object -> 0 .. StencilSize - 1] :
         \A g \in Object : \A c \in ToSet(s[l].clippees[g]) : nesting[g] < nesting[c]

VARIABLES
  scene,      \* the models whose display lists are still to be built
  list,       \* which of the display lists is being built
  builder,    \* the ModelDisplayListBuilder, see NewBuilder
  stack,      \* its calls of AddObject(), innermost last
  pipelines,  \* the cache: the specs that there is a pipeline for
  lists,      \* the display lists that are built: sequences of items
  items_drawn, \* how many items of all lists were drawn
  current_pipeline, current_stencil_reference,   \* locals of Draw(): a set of at most one
  reference,  \* the stencil reference the GPU uses
  stencil,    \* pixel -> its stencil value
  painted,    \* history: <<list, object>> -> the pixels painted for it
  clean       \* history: the items after which no clip group is open

buildVars == <<scene, list, builder, stack, pipelines, lists, clean>>
drawVars == <<items_drawn, current_pipeline, current_stencil_reference, reference,
              stencil, painted>>
displayVars == <<buildVars, drawVars>>

model == scene[list]

------------------------------------------------------------------------------
(* Pipelines (impl/model_pipeline_cache.cc).                               *)

(* What NewPipelineHelper() makes of clipper_state and is_clippee: when a  *)
(* fragment passes, and what becomes of the stencil value then.            *)
Passes(spec, ref, value) == spec.is_clippee => value = ref % StencilSize

StencilAfter(spec, value) ==
  CASE spec.clipper_state = "NoClipChildren" -> value
    [] spec.clipper_state = "BeginClipChildren" ->
         IF spec.is_clippee THEN (value + 1) % StencilSize ELSE 1
    [] spec.clipper_state = "EndClipChildren" ->
         IF spec.is_clippee THEN (value + StencilSize - 1) % StencilSize ELSE 0

HasDynamicStencilState(spec) == spec.is_clippee

StaticReference(spec) == IF spec.clipper_state = "BeginClipChildren" THEN 1 ELSE 0

(* operator==() of ModelPipelineSpec, which does not compare               *)
(* disable_depth_test.                                                     *)
SameSpec(a, b) == [a EXCEPT !.disable_depth_test = b.disable_depth_test] = b

(* GetPipeline(): a pipeline is known by the spec it was made for.  The    *)
(* hash map compares hash codes first, and those, which cover              *)
(* disable_depth_test, never agree for specs that differ only there.       *)
GetPipeline(made, spec) == spec

------------------------------------------------------------------------------
(* The builder (impl/model_display_list_builder.cc).                       *)

AlignedToNext(position, alignment) ==
  ((position + alignment - 1) \div alignment) * alignment

(* A bug to be caught: the buffer is full one object too late. *)
PrepareUniformBufferLate(b) ==
  LET index == AlignedToNext(b.write_index, kAlignment)
  IN  IF index > kBufferSize
      THEN [b EXCEPT !.uniform_buffer = @ + 1, !.write_index = 0]
      ELSE [b EXCEPT !.write_index = index]

(* PrepareUniformBufferForWriteOfSize() for the data of an object. *)
PrepareUniformBuffer(b) ==
  LET index == AlignedToNext(b.write_index, kAlignment)
  IN  IF index + kPerObjectSize > kBufferSize
      THEN [b EXCEPT !.uniform_buffer = @ + 1, !.write_index = 0]
      ELSE [b EXCEPT !.write_index = index]

(* A set of the current allocation, or the first of a new one. *)
ObtainPerObjectDescriptorSet(b) ==
  IF b.set_index >= kSetsPerAllocation
  THEN [b EXCEPT !.allocation = @ + 1, !.set_index = 1]
  ELSE [b EXCEPT !.set_index = @ + 1]

(* The constructor has written the PerModel data. *)
NewBuilder ==
  [items |-> <<>>, clip_depth |-> 0,
   disable_depth_test |-> FALSE,   \* the one of pipeline_spec_
   uniform_buffer |-> 1, write_index |-> kPerModelSize,
   allocation |-> 0, set_index |-> kSetsPerAllocation]

PipelineSpec(clippee, state, material, disable) ==
  [is_clippee |-> clippee, clipper_state |-> state,
   has_material |-> material # "none", is_opaque |-> material = "opaque",
   disable_depth_test |-> disable]

(* What the two leaf helpers share: the object's data go to a uniform      *)
(* buffer, which a descriptor set of its own refers to.                    *)
PushItem(b, o, state, disable) ==
  LET c == ObtainPerObjectDescriptorSet(PrepareUniformBuffer(b))
      item == [object |-> o, buffer |-> c.uniform_buffer, offset |-> c.write_index,
               set |-> <<c.allocation, c.set_index>>,
               pipeline |-> GetPipeline(pipelines, PipelineSpec(b.clip_depth > 0, state,
                                                                model.material[o], disable)),
               stencil_reference |-> b.clip_depth]
  IN  [c EXCEPT !.items = Append(@, item),
                !.write_index = @ + kPerObjectSize,
                !.disable_depth_test = disable]

(* pipeline_spec_.disable_depth_test stays what it was. *)
AddClipperObject(b, o) ==
  IF model.shape[o] = kNone THEN b
  ELSE PushItem(b, o, "BeginClipChildren", b.disable_depth_test)

AddNonClipperObject(b, o) ==
  IF model.material[o] = "none" THEN b
  ELSE PushItem(b, o, "NoClipChildren", model.disable_depth_test)

(* The second drawing of a clipper, which takes back what the first did to *)
(* the stencil buffer.                                                     *)
EndItem(b, item) ==
  [b EXCEPT !.items = Append(@, [item EXCEPT
              !.pipeline = GetPipeline(pipelines,
                 PipelineSpec(b.clip_depth > 1, "EndClipChildren", "none",
                              model.disable_depth_test)),
              !.stencil_reference = b.clip_depth]),
            !.disable_depth_test = model.disable_depth_test]

EndItems(b, start, end) == FoldLeft(EndItem, b, SubSeq(b.items, start + 1, end))

Top == Last(stack)

(* AddObject() of the object whose turn it is, if it has clippees: its     *)
(* clippers are drawn, and its clippees are next.                          *)
AddClipperAndClippeeObjects ==
  /\ stack # <<>>
  /\ Top.rest # <<>>
  /\ LET o == Head(Top.rest)
         b == FoldLeft(AddClipperObject, builder, <<o>> \o model.clippers[o])
     IN  /\ model.clippees[o] # <<>>
         /\ builder' = [b EXCEPT !.clip_depth = @ + 1]
         /\ stack' = Append([stack EXCEPT ![Len(stack)].rest = Tail(@)],
                            [rest |-> model.clippees[o],
                             start |-> Len(builder.items), end |-> Len(b.items)])
  /\ UNCHANGED <<scene, list, pipelines, lists, clean, drawVars>>

(* AddObject() of an object without clippees. *)
AddObject ==
  /\ stack # <<>>
  /\ Top.rest # <<>>
  /\ LET o == Head(Top.rest)
     IN  /\ model.clippees[o] = <<>>
         /\ builder' = FoldLeft(AddNonClipperObject, builder,
                                <<o>> \o model.clippers[o])
  /\ stack' = [stack EXCEPT ![Len(stack)].rest = Tail(@)]
  /\ clean' = IF Len(stack) = 1 THEN clean \cup {<<list, Len(builder'.items)>>}
              ELSE clean
  /\ UNCHANGED <<scene, list, pipelines, lists, drawVars>>

(* AddClipperAndClippeeObjects() of a group draws its clippers again and   *)
(* returns.                                                                *)
LeaveGroup ==
  /\ Len(stack) > 1
  /\ Top.rest = <<>>
  /\ LET b == EndItems(builder, Top.start, Top.end)
     IN  builder' = [b EXCEPT !.clip_depth = @ - 1]
  /\ stack' = Front(stack)
  /\ clean' = IF Len(stack) = 2 THEN clean \cup {<<list, Len(builder'.items)>>}
              ELSE clean
  /\ UNCHANGED <<scene, list, pipelines, lists, drawVars>>

------------------------------------------------------------------------------
(* The renderer (impl/model_renderer.cc).                                  *)

(* The orders in which CreateDisplayList() may add the objects: as they    *)
(* come, or with pure clip groups first and the rest in bins, whose order  *)
(* is that of a hash map.                                                  *)
RenderOrders(objects, shape) ==
  LET IsGroup(o) == shape[o] = kNone
      Before(o, p) == \E i, j \in DOMAIN objects : i < j /\ objects[i] = o /\ objects[j] = p
  IN  {objects} \cup
      {order \in SetToSeqs(ToSet(objects)) :
         \A i, j \in DOMAIN order :
           i < j /\ IsGroup(order[j]) => IsGroup(order[i]) /\ Before(order[i], order[j])}

BeginDisplayList ==
  /\ stack = <<>>
  /\ list < Len(scene)
  /\ list' = list + 1
  /\ builder' = NewBuilder
  /\ \E order \in RenderOrders(scene[list'].objects, scene[list'].shape) :
       stack' = <<[rest |-> order, start |-> 0, end |-> 0]>>
  /\ UNCHANGED <<scene, pipelines, lists, clean, drawVars>>

Build ==
  /\ Len(stack) = 1
  /\ Top.rest = <<>>
  /\ lists' = Append(lists, builder.items)
  /\ pipelines' = pipelines \cup {item.pipeline : item \in ToSet(builder.items)}
  /\ stack' = <<>>
  /\ UNCHANGED <<scene, list, builder, clean, drawVars>>

AllItems == FlattenSeq(lists)

(* The list that the n-th of all items is in, and its index there. *)
ListOf(n) ==
  LET before(l) == Len(FlattenSeq(SubSeq(lists, 1, l)))
  IN  CHOOSE l \in DOMAIN lists : before(l - 1) < n /\ n <= before(l)
IndexIn(n) == n - Len(FlattenSeq(SubSeq(lists, 1, ListOf(n) - 1)))

(* What Draw() knows of the GPU's state at its start, when it has set the  *)
(* reference to 0, and later.                                              *)
BoundPipeline(first) == IF first THEN {} ELSE current_pipeline
KnownReference(first) == IF first THEN 0 ELSE current_stencil_reference

(* A bug to be caught: the reference is set only with a new pipeline. *)
BindOnly(item, first) ==
  LET spec == item.pipeline
      known == KnownReference(first)
      set == HasDynamicStencilState(spec) /\ BoundPipeline(first) # {spec}
  IN  /\ current_pipeline' = {spec}
      /\ current_stencil_reference' = IF set THEN item.stencil_reference ELSE known
      /\ reference' = IF set THEN item.stencil_reference
                      ELSE IF ~HasDynamicStencilState(spec) THEN StaticReference(spec)
                      ELSE IF first THEN 0 ELSE reference

(* Draw() binds the item's pipeline if it is another one, which may change *)
(* the reference the GPU uses, and sets the reference if the pipeline      *)
(* wants it.                                                               *)
Bind(item, first) ==
  LET spec == item.pipeline
      known == KnownReference(first)
      set == /\ HasDynamicStencilState(spec)
             /\ BoundPipeline(first) # {spec} \/ known # item.stencil_reference
  IN  /\ current_pipeline' = {spec}
      /\ current_stencil_reference' = IF set THEN item.stencil_reference ELSE known
      /\ reference' = IF set THEN item.stencil_reference
                      ELSE IF ~HasDynamicStencilState(spec) THEN StaticReference(spec)
                      ELSE IF first THEN 0 ELSE reference

(* The commands of the next item are recorded, and executed. *)
DrawItem ==
  /\ Len(lists) = Len(scene)
  /\ items_drawn < Len(AllItems)
  /\ LET item == AllItems[items_drawn + 1]
         spec == item.pipeline
         l    == ListOf(items_drawn + 1)
         hit  == {p \in scene[l].shape[item.object] : Passes(spec, reference', stencil[p])}
     IN  /\ Bind(item, IndexIn(items_drawn + 1) = 1)
         /\ stencil' = [p \in Pixel |-> IF p \in hit THEN StencilAfter(spec, stencil[p])
                                        ELSE stencil[p]]
         /\ painted' = IF spec.has_material
                       THEN [painted EXCEPT ![<<l, item.object>>] = @ \cup hit]
                       ELSE painted
  /\ items_drawn' = items_drawn + 1
  /\ UNCHANGED buildVars

DisplayInit ==
  /\ scene \in Scenes
  /\ list = 0
  /\ builder = NewBuilder
  /\ stack = <<>>
  /\ pipelines = {}
  /\ lists = <<>>
  /\ items_drawn = 0
  /\ current_pipeline = {}
  /\ current_stencil_reference = 0
  /\ reference = 0
  /\ stencil = [p \in Pixel |-> 0]
  /\ painted = [x \in (DOMAIN scene) \X Object |-> {}]
  /\ clean = {}

DisplayNext ==
  \/ BeginDisplayList
  \/ AddClipperAndClippeeObjects
  \/ AddObject
  \/ LeaveGroup
  \/ Build
  \/ DrawItem

FrameSpec == DisplayInit /\ [][DisplayNext]_displayVars
------------------------------------------------------------------------------
AllDrawn == Len(lists) = Len(scene) /\ items_drawn = Len(AllItems)

Area(m, o) == IF m.shape[o] = kNone THEN {} ELSE m.shape[o]

(* The objects that clip for g, if g has clippees. *)
Clippers(m, g) == {g} \cup ToSet(m.clippers[g])
ClipArea(m, g) == UNION {Area(m, c) : c \in Clippers(m, g)}

IsDrawn(m, o) ==
  /\ o \in ToSet(m.objects) \/ Above(m, o) # {}
  /\ m.material[o] # "none"

(* What object.h:90 describes: the pixels of an object that lie inside the *)
(* clippers of every group it is below of.                                 *)
Visible(m) ==
  LET inside[o \in Object] ==
        IF ClippedBy(m, o) # {}
        THEN LET g == CHOOSE g \in ClippedBy(m, o) : TRUE
             IN  inside[g] \cap ClipArea(m, g)
        ELSE IF ClipsFor(m, o) # {}
        THEN inside[CHOOSE g \in ClipsFor(m, o) : TRUE]
        ELSE Pixel
  IN  [o \in Object |-> Area(m, o) \cap inside[o]]

IsClipper(m, o) == \E g \in Object : m.clippees[g] # <<>> /\ o \in Clippers(m, g)

(* Every object with a material is painted inside the clippers of all its  *)
(* ancestors and nowhere else, whatever other groups are drawn before it   *)
(* and in whatever order.  (A clipper that is drawn is painted where it    *)
(* clips, but not where another one of its group has marked before it.)    *)
PaintedWhereVisible ==
  AllDrawn =>
    \A l \in DOMAIN scene :
      LET m == scene[l]
          visible == Visible(m)
      IN  \A o \in Object :
            /\ painted[<<l, o>>] \subseteq visible[o]
            /\ IsDrawn(m, o) /\ ~IsClipper(m, o) => painted[<<l, o>>] = visible[o]

(* model_display_list_builder.h:44: when a top-level object is done, the   *)
(* stencil buffer is as it was before, so that the next is not clipped.    *)
StencilIsRestored ==
  (items_drawn > 0 /\ <<ListOf(items_drawn), IndexIn(items_drawn)>> \in clean)
    => \A p \in Pixel : stencil[p] = 0

(* Nested clip groups, in whatever order they are drawn, let through what  *)
(* they should and nothing else (scene/object.h:90).                       *)
ClippingIsExact == PaintedWhereVisible /\ StencilIsRestored

(* Each object's uniform data and those of the model have a place of their *)
(* own within a buffer, and each object's descriptor set is its own; only  *)
(* the two drawings of a clipper share theirs.                             *)
ItemsDoNotShareData ==
  \A i, j \in DOMAIN builder.items :
    LET x == builder.items[i]
        y == builder.items[j]
    IN  /\ x.offset + kPerObjectSize <= kBufferSize
        /\ x.buffer = 1 => x.offset >= kPerModelSize
        /\ x.object # y.object =>
             /\ x.set # y.set
             /\ \/ x.buffer # y.buffer
                \/ x.offset + kPerObjectSize <= y.offset
                \/ y.offset + kPerObjectSize <= x.offset
==============================================================================
