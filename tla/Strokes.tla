------------------------------- MODULE Strokes -------------------------------
(***************************************************************************)
(* The sketching demo: touches that become strokes (SketchyDemo and        *)
(* StrokeFitter), the page that keeps the strokes and remembers which ones *)
(* are to be tessellated again (Page), and the path and the mesh of each   *)
(* (Stroke).                                                               *)
(*                                                                         *)
(* The touches move on a line, so that a point is a number, in quarters of *)
(* a pixel.  The least-squares fit is replaced by a choice: of the handles *)
(* of a curve, and of whether and where a range of samples is split.  The  *)
(* length of a curve is that of its control polygon.  No caller passes     *)
(* predicted points, and none cancels a stroke.                            *)
(***************************************************************************)
EXTENDS Integers, Sequences, SequencesExt, FiniteSets, FiniteSetsExt, Functions

CONSTANTS
    Points,      \* where touches can be
    Handles,     \* the factors of the tangents in a fit, in quarters
    Touches,     \* touch identifiers
    MaxPoints,   \* bound: the samples of a stroke
    MaxStrokes   \* bound: the strokes that are begun

\* Coordinates are multiples of 32, so that half of a segment has integers as
\* control points.
ASSUME StrokesAssumption ==
    /\ \A p \in Points : p \in Nat /\ p % 32 = 0
    /\ Handles \subseteq Nat \ {0}
    /\ MaxPoints \in Nat /\ MaxStrokes \in Nat

VARIABLES
    strokes,         \* strokes_ of the page: for each identifier, a stroke
    dirty_strokes,   \* the strokes with a path that was not tessellated
    fitters,         \* stroke_fitters_: for each touch, the fitter of its stroke
    next_stroke_id

strokesVars == <<strokes, dirty_strokes, fitters, next_stroke_id>>

StrokesInit ==
    /\ strokes = <<>> /\ dirty_strokes = {}
    /\ fitters = <<>>
    /\ next_stroke_id = 1

Without(f, x) == Restrict(f, DOMAIN f \ {x})
With(f, x, v) == [y \in DOMAIN f \union {x} |-> IF y = x THEN v ELSE f[y]]
Gcd(m, n) == Max({d \in 1 .. n : m % d = 0 /\ n % d = 0})
Distance(p, q) == IF p < q THEN q - p ELSE p - q

-----------------------------------------------------------------------------
(* Curves.                                                                 *)

\* Evaluate(k / d), times d * d * d.
Evaluate(pts, k, d) ==
    LET Mix(p, q) == p * (d - k) + q * k
        tmp3 == <<Mix(pts[1], pts[2]), Mix(pts[2], pts[3]), Mix(pts[3], pts[4])>>
        tmp2 == <<Mix(tmp3[1], tmp3[2]), Mix(tmp3[2], tmp3[3])>>
    IN  Mix(tmp2[1], tmp2[2])

\* CubicBezier::Split(0.5)
SplitCurve(pts) ==
    LET Mid(p, q) == (p + q) \div 2
        tmp3 == <<Mid(pts[1], pts[2]), Mid(pts[2], pts[3]), Mid(pts[3], pts[4])>>
        tmp2 == <<Mid(tmp3[1], tmp3[2]), Mid(tmp3[2], tmp3[3])>>
        split_pt == Mid(tmp2[1], tmp2[2])
    IN  <<<<pts[1], tmp3[1], tmp2[1], split_pt>>, <<split_pt, tmp2[2], tmp3[3], pts[4]>>>>

ArcLength(pts) == Distance(pts[1], pts[2]) + Distance(pts[2], pts[3]) + Distance(pts[3], pts[4])

\* ArcLengthParameterization(): the curve with which parameters are replaced
\* before a segment is evaluated.  At a third it is what the length of the
\* first third of the segment is to all of it: a quotient, of a curve that
\* does not turn.
ReparameterizedThird(pts) ==
    <<Distance(Evaluate(pts, 1, 3), 27 * pts[1]), 27 * ArcLength(pts)>>

StrokeSegment(pts) == [curve |-> pts, length |-> ArcLength(pts)]

-----------------------------------------------------------------------------
(* StrokeFitter.                                                           *)

\* Wherever a range is split, the tangents of its two sides are opposite.
LeftTangent(points, s) == points[s + 1] - points[s]
RightTangent(points, e) ==
    IF e = Len(points) THEN points[e - 1] - points[e] ELSE -LeftTangent(points, e)

CurveBetween(points, s, e, l, r) ==
    <<points[s], points[s] + (LeftTangent(points, s) * l) \div 4,
      points[e] + (RightTangent(points, e) * r) \div 4, points[e]>>

\* What FitCubicBezier() can return: it keeps the end points.
FitCubicBezier(points, s, e) ==
    {CurveBetween(points, s, e, l, r) : l \in Handles, r \in Handles}

\* The paths that FitSampleRange() can make of samples: two of them are joined
\* by a curve with short handles, more of them by one curve or, when the error
\* is too large, by two paths that meet at a sample between them.
FitSampleRange(points) ==
    LET fit[range \in (1 .. Len(points)) \X (1 .. Len(points))] ==
            LET s == range[1]
                e == range[2]
            IN  IF e - s = 1 THEN {<<CurveBetween(points, s, e, 1, 1)>>}
                ELSE {<<c>> : c \in FitCubicBezier(points, s, e)}
                       \union UNION {{f \o g : f \in fit[<<s, m>>], g \in fit[<<m, e>>]} :
                                        m \in s + 1 .. e - 1}
    IN  fit[<<1, Len(points)>>]

\* Every curve is replaced by its halves.
SplitPath(path) ==
    [k \in 1 .. 2 * Len(path) |-> StrokeSegment(SplitCurve(path[(k + 1) \div 2])[2 - (k % 2)])]

\* Stroke::SetPath(), and Finalize() if the stroke is finished.
SetPath(id, path, finished) ==
    /\ strokes' = [strokes EXCEPT ![id].path = path, ![id].finalized = finished]
    /\ dirty_strokes' = dirty_strokes \union {id}

\* The samples of a touch with another one, if it has moved.
Sampled(touch, p) ==
    LET points == fitters[touch].points IN IF p = Last(points) THEN points ELSE Append(points, p)

\* ContinueStroke(): there is no new path if the touch did not move.
ContinueStroke(touch, p, finished) ==
    LET id == fitters[touch].stroke
        points == Sampled(touch, p)
    IN  /\ Len(points) <= MaxPoints
        /\ IF points = fitters[touch].points
           THEN /\ strokes' = [strokes EXCEPT ![id].finalized = finished]
                /\ UNCHANGED dirty_strokes
           ELSE \E path \in FitSampleRange(points) : SetPath(id, SplitPath(path), finished)

-----------------------------------------------------------------------------
(* SketchyDemo: what the callbacks of the window system call, which run    *)
(* between two frames.                                                     *)

\* The mouse button is pressed: Page::NewStroke() and StartStroke().
BeginTouch(touch, p) ==
    /\ touch \notin DOMAIN fitters /\ next_stroke_id <= MaxStrokes
    /\ strokes' = With(strokes, next_stroke_id, [path |-> <<>>, mesh |-> <<>>, finalized |-> FALSE])
    /\ fitters' = With(fitters, touch, [stroke |-> next_stroke_id, points |-> <<p>>])
    /\ next_stroke_id' = next_stroke_id + 1
    /\ UNCHANGED dirty_strokes

ContinueTouch(touch, p) ==
    /\ touch \in DOMAIN fitters
    /\ ContinueStroke(touch, p, FALSE)
    /\ fitters' = [fitters EXCEPT ![touch].points = Sampled(touch, p)]
    /\ UNCHANGED next_stroke_id

\* The button is released, where the last sample was taken or elsewhere:
\* FinishStroke(), and the fitter is erased.
EndTouch(touch, p) ==
    /\ touch \in DOMAIN fitters
    /\ ContinueStroke(touch, p, TRUE)
    /\ fitters' = Without(fitters, touch)
    /\ UNCHANGED next_stroke_id

\* A bug to be caught: it also erases strokes that are being drawn.
ClearAll ==
    /\ strokes' = <<>>
    /\ dirty_strokes' = {}
    /\ UNCHANGED <<fitters, next_stroke_id>>

\* The key C: every stroke that is finished.
Clear ==
    LET Kept == {id \in DOMAIN strokes : ~strokes[id].finalized} IN
    /\ strokes' = Restrict(strokes, Kept)
    /\ dirty_strokes' = dirty_strokes \intersect Kept
    /\ UNCHANGED <<fitters, next_stroke_id>>

-----------------------------------------------------------------------------
(* Page and Stroke.                                                        *)

PixelsPerDivision == 4

\* ComputeVertexCounts(): of each segment.
ComputeVertexCounts(path) ==
    [k \in DOMAIN path |-> Max({2 * (path[k].length \div (4 * PixelsPerDivision)), 4})]

\* A bug to be caught: every segment ends where the next one begins.
RowsWithDuplicates(counts) ==
    FlattenSeq([k \in DOMAIN counts |->
        [j \in 1 .. counts[k] \div 2 |-> [segment |-> k, i |-> 2 * (j - 1), of |-> counts[k] - 2]]])

\* The pairs of vertices of a mesh, one on each side of the path: which segment
\* they are at, and at which parameter of it, a quotient.
Rows(counts) ==
    FlattenSeq([k \in DOMAIN counts |->
        [j \in 1 .. counts[k] \div 2 |->
            [segment |-> k, i |-> 2 * (j - 1),
             of |-> IF k = Len(counts) THEN counts[k] - 2 ELSE counts[k]]]])

\* The triangles between pairs, of vertices that are counted from 0.
StrokeTriangles(vertex_count) ==
    [k \in 1 .. vertex_count - 2 |->
        LET i == 2 * ((k - 1) \div 2) IN IF k % 2 = 1 THEN <<i, i + 1, i + 3>> ELSE <<i, i + 3, i + 2>>]

TessellateStroke(stroke) ==
    IF stroke.path = <<>> THEN stroke
    ELSE LET rows == Rows(ComputeVertexCounts(stroke.path)) IN
         [stroke EXCEPT !.mesh = [path |-> stroke.path, rows |-> rows,
                                  triangles |-> StrokeTriangles(2 * Len(rows))]]

\* GetModel(): the strokes that have changed are tessellated, and those that
\* have a mesh are drawn.
DrawFrame ==
    /\ strokes' = [id \in DOMAIN strokes |->
                      IF id \in dirty_strokes THEN TessellateStroke(strokes[id]) ELSE strokes[id]]
    /\ dirty_strokes' = {}
    /\ UNCHANGED <<fitters, next_stroke_id>>

StrokesNext ==
    \/ \E touch \in Touches, p \in Points :
         BeginTouch(touch, p) \/ ContinueTouch(touch, p) \/ EndTouch(touch, p)
    \/ Clear
    \/ DrawFrame

StrokesSpec == StrokesInit /\ [][StrokesNext]_strokesVars

-----------------------------------------------------------------------------
(* Properties.                                                             *)

\* The raw pointers of the page and of the fitters point to strokes: the strokes
\* that are to be tessellated, and those of touches that have not ended, exist
\* although the key C erases strokes at any time; and a stroke stays open for
\* SetPath() as long as there is a fitter for it.
StrokesInUseExist ==
    /\ dirty_strokes \subseteq DOMAIN strokes
    /\ \A touch \in DOMAIN fitters :
         /\ fitters[touch].stroke \in DOMAIN strokes
         /\ ~strokes[fitters[touch].stroke].finalized
         /\ \A other \in DOMAIN fitters \ {touch} : fitters[touch].stroke # fitters[other].stroke

\* A path goes from the first sample to the last one without a gap, whatever
\* was fitted and wherever it was split: also where StrokeFitter splits every
\* curve, whose halves are the curve again (the test that cubic_bezier.cc asks
\* for above SplitCurve).
PathIsWhole(path, points) ==
    /\ path[1].curve[1] = points[1] /\ Last(path).curve[4] = Last(points)
    /\ \A k \in 1 .. Len(path) - 1 : path[k].curve[4] = path[k + 1].curve[1]
    /\ \A k \in DOMAIN path, i \in 0 .. 4 :
         LET whole == path[IF k % 2 = 1 THEN k ELSE k - 1].curve
             other == path[IF k % 2 = 1 THEN k + 1 ELSE k].curve
             \* The control points of the curve that was split.
             joined == <<whole[1], 2 * whole[2] - whole[1], 2 * other[3] - other[4], other[4]>>
         IN  8 * Evaluate(path[k].curve, i, 4) = Evaluate(joined, IF k % 2 = 1 THEN i ELSE i + 4, 8)

\* A mesh is one strip along its path: its pairs of vertices go on without
\* standing still from the beginning of the first segment to the end of the
\* last, and its triangles cover what is between each two pairs once.
StripIsWhole(mesh) ==
    LET rows == mesh.rows IN
    /\ rows[1].segment = 1 /\ rows[1].i = 0
    /\ Last(rows).segment = Len(mesh.path) /\ Last(rows).i = Last(rows).of
    /\ \A j \in 1 .. Len(rows) - 1 :
         \/ rows[j].segment = rows[j + 1].segment
            /\ rows[j].of = rows[j + 1].of /\ rows[j].i < rows[j + 1].i
         \/ rows[j].segment + 1 = rows[j + 1].segment
            /\ rows[j].i < rows[j].of /\ rows[j + 1].i = 0
    /\ Len(mesh.triangles) = 2 * (Len(rows) - 1)
    /\ \A j \in 1 .. Len(rows) - 1 :
         {ToSet(mesh.triangles[2 * j - 1]), ToSet(mesh.triangles[2 * j])} =
           LET i == 2 * (j - 1) IN {{i, i + 1, i + 3}, {i, i + 2, i + 3}}

\* What is drawn is what was sketched: the path of a stroke that is being drawn
\* goes along all of its samples, and a stroke that no frame has to tessellate
\* has the mesh of the path it has now, although the path changes between any
\* two frames.
DrawnAsSketched ==
    /\ \A touch \in DOMAIN fitters :
         LET path == strokes[fitters[touch].stroke].path IN
         IF Len(fitters[touch].points) = 1 THEN path = <<>> ELSE PathIsWhole(path, fitters[touch].points)
    /\ \A id \in DOMAIN strokes \ dirty_strokes :
         LET stroke == strokes[id] IN
         IF stroke.path = <<>> THEN stroke.mesh = <<>>
         ELSE stroke.mesh.path = stroke.path /\ StripIsWhole(stroke.mesh)

\* The comment in StrokeFitter::ContinueStroke(): with the parameter that replaces
\* t, the point is at t times the length of the segment.  Said of a third, and
\* only that the replacement does not bring the point farther from there than it
\* was; for segments that do not turn.
ThirdIsAtThirdOfLength ==
    \A id \in DOMAIN strokes : \A k \in DOMAIN strokes[id].path :
        LET pts == strokes[id].path[k].curve
            third == ReparameterizedThird(pts)
            d == third[2] \div Gcd(third[1], third[2])
            n == third[1] \div Gcd(third[1], third[2])
            from == [j \in 1 .. 4 |-> pts[j] - pts[1]]
        IN  pts[1] < pts[2] /\ pts[2] < pts[3] /\ pts[3] < pts[4] =>
              \* |x(t') - L / 3| <= |x(1 / 3) - L / 3|
              27 * Distance(3 * Evaluate(from, n, d), from[4] * d * d * d)
                <= d * d * d * Distance(3 * Evaluate(from, 1, 3), 27 * from[4])
=============================================================================
