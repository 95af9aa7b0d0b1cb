---------------------------- MODULE Tessellation ----------------------------
(***************************************************************************)
(* The meshes of shapes: the functions of geometry/tessellation.cc, the    *)
(* rounded rectangles of shape/rounded_rect.cc with their hit test, and    *)
(* the MeshBuilder that they fill.                                         *)
(*                                                                         *)
(* Lengths are hundredths.  Sine and cosine are taken from a table, rounded*)
(* down, at the angles that occur.  Of the attributes of a vertex only the *)
(* position is kept; positions on a sphere are not normalized, their length  *)
(* being left out.  A rounded rectangle has every rounding that            *)
(* GenerateRoundedRectVertices() accepts: two corners that are next to each*)
(* other must fit, so that one of them may take more than half of a side.  *)
(***************************************************************************)
EXTENDS Integers, Sequences, SequencesExt, FiniteSets, FiniteSetsExt, Functions

CONSTANTS
    MaxSubdivisions,   \* bound: of circles, rings, rectangles and spheres
    Radii,             \* the radii that the corners of a rounded rectangle can have
    Width, Height      \* of rounded rectangles

ASSUME TessellationAssumption ==
    /\ MaxSubdivisions \in 0 .. 2
    /\ Width \in Nat \ {0} /\ Height \in Nat \ {0}
    /\ Radii \subseteq Nat

kCornerDivisions == 8

VARIABLES
    shape,    \* what was tessellated last
    mesh      \* the builder of its mesh when Build() was called

tessVars == <<shape, mesh>>

-----------------------------------------------------------------------------
(* Geometry.                                                               *)

\* The cosine of an angle of the first quadrant, in tenths of a degree.
QuarterCosine ==
    [a \in {0, 100, 200, 225, 300, 400, 450, 500, 600, 675, 700, 800, 900} |->
        CASE a = 0 -> 100  [] a = 100 -> 98 [] a = 200 -> 93 [] a = 225 -> 92 [] a = 300 -> 86
          [] a = 400 -> 76 [] a = 450 -> 70 [] a = 500 -> 64 [] a = 600 -> 50
          [] a = 675 -> 38 [] a = 700 -> 34 [] a = 800 -> 17 [] a = 900 -> 0]

Cos(a) == LET b == a % 3600 IN
    CASE b <= 900 -> QuarterCosine[b]
      [] b > 900 /\ b <= 1800 -> -QuarterCosine[1800 - b]
      [] b > 1800 /\ b <= 2700 -> -QuarterCosine[b - 1800]
      [] b > 2700 -> QuarterCosine[3600 - b]

Sin(a) == Cos(a + 2700)

Plus(p, q) == [k \in DOMAIN p |-> p[k] + q[k]]
Times(r, p) == [k \in DOMAIN p |-> r * p[k]]

\* Twice the area of a triangle, positive when it is counterclockwise as seen
\* with x to the right and y up.
Area(p, q, r) == (q[1] - p[1]) * (r[2] - p[2]) - (q[2] - p[2]) * (r[1] - p[1])

Determinant(p, q, r) ==
    p[1] * (q[2] * r[3] - q[3] * r[2]) - p[2] * (q[1] * r[3] - q[3] * r[1])
        + p[3] * (q[1] * r[2] - q[2] * r[1])

-----------------------------------------------------------------------------
(* MeshBuilder: what it was made for, and what was added to it.  Indices   *)
(* count from zero, and are kept by triangles.                             *)

Built(max_vertices, max_indices, vertices, triangles) ==
    [max_vertices |-> max_vertices, max_indices |-> max_indices,
     vertices |-> vertices, triangles |-> triangles]

\* OuterVertexCount: each subdivision doubles it.
Doubled(n, subdivisions) == n * 2^subdivisions

\* The i-th of n directions around a center, beginning at the top, clockwise.
Dir(i, n) == LET a == (i * 3600) \div n IN <<Sin(a), Cos(a)>>

\* A bug to be caught: the last triangle has the other winding.
NewCircleMeshTwisted(subdivisions, radius) ==
    LET n == Doubled(4, subdivisions)
    IN  Built(n + 1, n * 3,
              <<<<0, 0>>>> \o [i \in 1..n |-> Times(radius, Dir(i - 1, n))],
              [i \in 1 .. n - 1 |-> <<0, i + 1, i>>] \o <<<<0, n, 1>>>>)

NewCircleMesh(subdivisions, radius) ==
    LET n == Doubled(4, subdivisions)
    IN  Built(n + 1, n * 3,
              <<<<0, 0>>>> \o [i \in 1..n |-> Times(radius, Dir(i - 1, n))],
              [i \in 1 .. n - 1 |-> <<0, i + 1, i>>] \o <<<<0, 1, n>>>>)

\* The k-th pair of triangles of a strip whose vertices alternate.
StripTriangle(k) ==
    LET i == 2 * ((k + 1) \div 2)
    IN  IF k % 2 = 1 THEN <<i - 2, i - 1, i>> ELSE <<i, i - 1, i + 1>>

NewRingMesh(subdivisions, outer_radius, inner_radius) ==
    LET n == Doubled(4, subdivisions)
        vertex_count == 2 * n
        Vertex(v) == Times(IF v % 2 = 1 THEN outer_radius ELSE inner_radius,
                           Dir((v - 1) \div 2, n))
    IN  Built(vertex_count, n * 6, [v \in 1..vertex_count |-> Vertex(v)],
              [k \in 1 .. vertex_count - 2 |-> StripTriangle(k)]
                \o <<<<vertex_count - 2, vertex_count - 1, 0>>, <<0, vertex_count - 1, 1>>>>)

\* The lower vertex comes before the upper one.
NewRectangleMesh(subdivisions, width, height) ==
    LET n == Doubled(2, subdivisions)
        Vertex(v) == <<(100 * width * ((v - 1) \div 2)) \div (n - 1),
                       IF v % 2 = 1 THEN 100 * height ELSE 0>>
    IN  Built(2 * n, (n - 1) * 6, [v \in 1 .. 2 * n |-> Vertex(v)],
              [k \in 1 .. 2 * n - 2 |-> StripTriangle(k)])

NewSimpleRectangleMesh ==
    Built(4, 6, <<<<0, 0>>, <<100, 0>>, <<100, 100>>, <<0, 100>>>>, <<<<0, 1, 2>>, <<0, 2, 3>>>>)

NewFullScreenMesh ==
    Built(3, 3, <<<<-100, -100>>, <<300, -100>>, <<-100, 300>>>>, <<<<0, 1, 2>>>>)

\* A triangle is split into three around a new vertex, which replaces its last
\* one in place.
Split(builder, t) ==
    LET tri == builder.triangles[t]
        Corner(k) == builder.vertices[tri[k] + 1]
        new_ind == Len(builder.vertices)
    IN  [builder EXCEPT
          !.vertices = Append(@, Plus(Corner(1), Plus(Corner(2), Corner(3)))),
          !.triangles = [@ EXCEPT ![t] = <<tri[1], tri[2], new_ind>>]
                          \o <<<<tri[2], tri[3], new_ind>>, <<tri[3], tri[1], new_ind>>>>]

\* Each level splits the triangles that there were when it began.
SplitAll(builder) == FoldLeft(Split, builder, [t \in 1 .. Len(builder.triangles) |-> t])

\* An octahedron, whose vertex on the left is there four times because of its
\* texture coordinates.
Octahedron ==
    LET Left == <<-1, 0, 0>>
    IN  [vertices |-> <<<<1, 0, 0>>, <<0, 0, 1>>, <<0, -1, 0>>, <<0, 0, -1>>, <<0, 1, 0>>,
                        Left, Left, Left, Left>>,
         triangles |-> <<<<0, 1, 2>>, <<0, 2, 3>>, <<0, 3, 4>>, <<0, 4, 1>>,
                         <<5, 2, 1>>, <<6, 3, 2>>, <<7, 4, 3>>, <<8, 1, 4>>>>]

NewSphereMesh(subdivisions) ==
    LET Count[k \in 0..subdivisions] ==
            IF k = 0 THEN [vertices |-> 9, triangles |-> 8]
            ELSE [vertices |-> Count[k - 1].vertices + Count[k - 1].triangles,
                  triangles |-> 3 * Count[k - 1].triangles]
        Level[k \in 0..subdivisions] == IF k = 0 THEN Octahedron ELSE SplitAll(Level[k - 1])
        count == Count[subdivisions]
        built == Level[subdivisions]
    IN  Built(count.vertices, 3 * count.triangles, built.vertices, built.triangles)

-----------------------------------------------------------------------------
(* Rounded rectangles.  The corners are numbered clockwise on the screen,  *)
(* from the top left, and so are their radii.                              *)

kVertexCount == 1 + 4 + 4 * 2 + 4 * kCornerDivisions
kIndexCount == 3 * (4 + 4 * 2 + 4 * (kCornerDivisions + 1))

\* The radii of four corners that pass the checks of GenerateRoundedRectVertices().
Roundings ==
    {r \in [1..4 -> Radii] : /\ r[1] + r[2] <= Width /\ r[4] + r[3] <= Width
                             /\ r[1] + r[4] <= Height /\ r[2] + r[3] <= Height}

CornerCenter(r) ==
    <<<<r[1], r[1]>>, <<Width - r[2], r[2]>>, <<Width - r[3], Height - r[3]>>,
      <<r[4], Height - r[4]>>>>

\* Where the straight sides begin and end.
SideVertices(c) ==
    <<<<0, c[1][2]>>, <<c[1][1], 0>>, <<c[2][1], 0>>, <<Width, c[2][2]>>,
      <<Width, c[3][2]>>, <<c[3][1], Height>>, <<c[4][1], Height>>, <<0, c[4][2]>>>>

CornerArc(center, radius, angle) ==
    [i \in 1..kCornerDivisions |->
        LET a == angle + i * (900 \div (kCornerDivisions + 1))
        IN  Plus(Times(100, center), Times(radius, <<Cos(a), Sin(a)>>))]

\* The rectangle is moved so that its middle is at the origin.
GenerateRoundedRectVertices(r) ==
    LET c == CornerCenter(r)
        Middle == Times(25, Plus(Plus(c[1], c[2]), Plus(c[3], c[4])))
        Scaled(seq) == [k \in DOMAIN seq |-> Times(100, seq[k])]
        All == <<Middle>> \o Scaled(c) \o Scaled(SideVertices(c))
                 \o CornerArc(c[1], r[1], 1800) \o CornerArc(c[2], r[2], 2700)
                 \o CornerArc(c[3], r[3], 0) \o CornerArc(c[4], r[4], 900)
    IN  [k \in DOMAIN All |-> Plus(All[k], <<-50 * Width, -50 * Height>>)]

CrossTriangles ==
    <<<<0, 4, 1>>, <<0, 1, 2>>, <<0, 2, 3>>, <<0, 3, 4>>,
      <<1, 7, 2>>, <<1, 6, 7>>, <<2, 9, 3>>, <<2, 8, 9>>,
      <<3, 11, 4>>, <<3, 10, 11>>, <<4, 5, 1>>, <<4, 12, 5>>>>

\* The center of a corner, and the vertices where its arc ends and begins.
CornerTriangles == <<<<1, 6, 5>>, <<2, 8, 7>>, <<3, 10, 9>>, <<4, 12, 11>>>>

Wedges(corner) ==
    LET tri == CornerTriangles[corner]
        highest_index == 12 + kCornerDivisions * (corner - 1)
        Arc == <<tri[3]>> \o [i \in 1..kCornerDivisions |-> highest_index + i] \o <<tri[2]>>
    IN  [i \in 1 .. Len(Arc) - 1 |-> <<tri[1], Arc[i], Arc[i + 1]>>]

GenerateRoundedRectIndices ==
    CrossTriangles \o Wedges(1) \o Wedges(2) \o Wedges(3) \o Wedges(4)

NewRoundedRect(r) ==
    Built(kVertexCount, kIndexCount, GenerateRoundedRectVertices(r), GenerateRoundedRectIndices)

\* RoundedRectSpec::ContainsPoint(): the first corner whose quarter the point is
\* in decides.  Quarters are open, and arcs belong to the rectangle.
Quarter(corner, diff) ==
    /\ IF corner \in {1, 4} THEN diff[1] < 0 ELSE diff[1] > 0
    /\ IF corner \in {1, 2} THEN diff[2] < 0 ELSE diff[2] > 0


ContainsPoint(r, point) ==
    LET p == Plus(point, <<50 * Width, 50 * Height>>)
        Diff(k) == Plus(p, Times(-100, CornerCenter(r)[k]))
        In == {k \in 1..4 : Quarter(k, Diff(k))}
    IN  /\ p[1] \in 0 .. 100 * Width /\ p[2] \in 0 .. 100 * Height
        /\ In # {} => LET k == Min(In) IN
                        Diff(k)[1] * Diff(k)[1] + Diff(k)[2] * Diff(k)[2] <= 10000 * r[k] * r[k]

-----------------------------------------------------------------------------
Shapes ==
    [kind : {"circle", "ring", "rectangle", "sphere"}, subdivisions : 0..MaxSubdivisions]
      \union [kind : {"simple rectangle", "full screen"}]
      \union [kind : {"rounded"}, radii : Roundings]

NoShape == [kind |-> "none"]
OuterRadius == 3
InnerRadius == 2

MeshOf(s) ==
    CASE s.kind = "circle" -> NewCircleMesh(s.subdivisions, OuterRadius)
      [] s.kind = "ring" -> NewRingMesh(s.subdivisions, OuterRadius, InnerRadius)
      [] s.kind = "rectangle" -> NewRectangleMesh(s.subdivisions, Width, Height)
      [] s.kind = "sphere" -> NewSphereMesh(s.subdivisions)
      [] s.kind = "simple rectangle" -> NewSimpleRectangleMesh
      [] s.kind = "full screen" -> NewFullScreenMesh
      [] s.kind = "rounded" -> NewRoundedRect(s.radii)

TessInit == shape = NoShape /\ mesh = Built(0, 0, <<>>, <<>>)

Tessellate(s) ==
    /\ shape = NoShape
    /\ shape' = s
    /\ mesh' = MeshOf(s)

TessNext == \E s \in Shapes : Tessellate(s)

TessSpec == TessInit /\ [][TessNext]_tessVars

-----------------------------------------------------------------------------
(* Properties.                                                             *)

Flat == shape.kind \notin {"none", "sphere"}

Triangles == Range(mesh.triangles)
Vertex(i) == mesh.vertices[i + 1]

TriangleArea(tri) == Area(Vertex(tri[1]), Vertex(tri[2]), Vertex(tri[3]))

\* The edges of the triangles, in their direction; those of a sphere by where
\* they are, as it has vertices at the same place.
EdgeList ==
    LET Name(i) == IF Flat THEN i ELSE Vertex(i)
    IN  [k \in 1 .. 3 * Len(mesh.triangles) |->
            LET tri == mesh.triangles[(k + 2) \div 3]
                e == (k - 1) % 3
            IN  <<Name(tri[e + 1]), Name(tri[((e + 1) % 3) + 1])>>]

Edges == Range(EdgeList)
Outline == LET edges == Edges IN {e \in edges : <<e[2], e[1]>> \notin edges}

\* Twice the area of the polygon that has n of its corners on a circle.
CircleArea(n, radius) ==
    radius * radius * FoldLeft(+, 0, [i \in 1..n |->
        Dir(i, n)[1] * Dir(i - 1, n)[2] - Dir(i, n)[2] * Dir(i - 1, n)[1]])

\* The same for the shape that was asked for, as its outline has it.
ShapeArea ==
    LET RectArea == 20000 * Width * Height
        Wedge == FoldLeft(+, 0, [i \in 1 .. kCornerDivisions + 1 |->
            LET a == i * (900 \div (kCornerDivisions + 1))
                b == a - 900 \div (kCornerDivisions + 1)
            IN  Cos(b) * Sin(a) - Sin(b) * Cos(a)])
    IN  CASE shape.kind = "circle" -> CircleArea(Doubled(4, shape.subdivisions), OuterRadius)
          [] shape.kind = "ring" -> CircleArea(Doubled(4, shape.subdivisions), OuterRadius)
                                     - CircleArea(Doubled(4, shape.subdivisions), InnerRadius)
          [] shape.kind = "rectangle" -> RectArea
          [] shape.kind = "simple rectangle" -> 20000
          [] shape.kind = "full screen" -> 160000
          [] shape.kind = "rounded" -> RectArea - FoldLeft(+, 0, [k \in 1..4 |->
                shape.radii[k] * shape.radii[k] * (20000 - Wedge)])

\* The functions add exactly as many vertices and indices as they have announced
\* to NewMeshBuilder() in closed form, and every index is that of a vertex.
BuilderIsFilled ==
    /\ Len(mesh.vertices) = mesh.max_vertices
    /\ 3 * Len(mesh.triangles) = mesh.max_indices
    /\ \A tri \in Triangles : Range(tri) \subseteq 0 .. Len(mesh.vertices) - 1

\* Corners that keep to half of each side.
CornersAreApart ==
    shape.kind = "rounded" =>
        \A k \in 1..4 : 2 * shape.radii[k] <= Width /\ 2 * shape.radii[k] <= Height

\* The triangles of a flat shape meet at whole edges, have one outline or two, and
\* their areas add up to that of the shape.  They have the same winding, so that
\* they cover it once; but a corner that takes more than half of a side, which the
\* checks of GenerateRoundedRectVertices() let pass, may turn some of them over.
\* A sphere is closed, seams of its texture included, and all of its triangles
\* face outward.
MeshCoversItsShape ==
    /\ shape # NoShape => Cardinality(Edges) = Len(EdgeList)
    /\ Flat => /\ CornersAreApart => \A tri \in Triangles : TriangleArea(tri) >= 0
               /\ FoldLeft(+, 0, [k \in DOMAIN mesh.triangles |-> TriangleArea(mesh.triangles[k])])
                    = ShapeArea
               /\ LET outline == Outline
                  IN  \A e \in outline : Cardinality({f \in outline : f[1] = e[2]}) = 1
    /\ shape.kind = "sphere" =>
            /\ Outline = {}
            /\ \A tri \in Triangles :
                    Determinant(Vertex(tri[1]), Vertex(tri[2]), Vertex(tri[3])) > 0

\* Every function of tessellation.cc and rounded_rect.cc makes a mesh that is
\* complete and covers its shape, once wherever its corners allow it.
MeshIsSound == BuilderIsFilled /\ MeshCoversItsShape

\* Fine enough for points between the arcs and their chords.
GridStep == 100
Grid == {<<GridStep * x - 50 * Width, GridStep * y - 50 * Height>> :
            x \in 0 .. (100 * Width) \div GridStep, y \in 0 .. (100 * Height) \div GridStep}

InMesh(p) ==
    \E tri \in Triangles :
        /\ TriangleArea(tri) > 0
        /\ Area(Vertex(tri[1]), Vertex(tri[2]), p) >= 0
        /\ Area(Vertex(tri[2]), Vertex(tri[3]), p) >= 0
        /\ Area(Vertex(tri[3]), Vertex(tri[1]), p) >= 0

\* Where the wedges of a corner, which have their vertices on its arc, fall short
\* of the arc: a few hundredths of its radius, with sines rounded down.
BesideTheWedges(p) ==
    \E k \in 1..4 :
        LET r == shape.radii[k]
            diff == Plus(Plus(p, <<50 * Width, 50 * Height>>),
                         Times(-100, CornerCenter(shape.radii)[k]))
        IN  /\ Quarter(k, diff)
            /\ diff[1] * diff[1] + diff[2] * diff[2] >= (97 * r) * (97 * r)

=============================================================================
