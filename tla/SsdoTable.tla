------------------------------ MODULE SsdoTable ------------------------------
(***************************************************************************)
(* The lookup table of SsdoAccelerator, which lets the fragment shaders of *)
(* SsdoSampler skip the pixels that nothing can cast a shadow on: the      *)
(* kernel that computes it from a depth image, its null and unpack kernels,*)
(* and the way the shaders read it.                                        *)
(*                                                                         *)
(* One invocation of the kernel, on the 8 x 8 pixels of interest and the   *)
(* margin around them.  A word of bits is the set of the positions that    *)
(* are 1.  The depth image is given; the vectors of four that the kernel   *)
(* computes with are taken apart.                                          *)
(***************************************************************************)
EXTENDS Integers, Sequences, SequencesExt, FiniteSets

CONSTANTS
    Depths   \* the depth images to look at, by rows

kRadius == 4
kEight == 8
Neighborhood == 0 .. kEight + 2 * kRadius - 1
Interest == 0 .. kEight - 1

ASSUME SsdoTableAssumption ==
    \A d \in Depths : \A y \in Neighborhood : \A x \in Neighborhood : d[y][x] \in Nat

VARIABLES
    enabled,   \* enabled_ of the accelerator
    stage,     \* how far the command buffer is
    depth,     \* the depth image around the pixels of interest
    roi,       \* the shared variable of the kernel
    packed,    \* the texels of tmp_image, by rows
    unpacked   \* the pixels that UnpackLookupTable() shows for debugging

ssdoVars == <<enabled, stage, depth, roi, packed, unpacked>>

Nothing == [r |-> {}, g |-> {}, b |-> {}, a |-> {}]

SsdoInit ==
    /\ enabled \in BOOLEAN
    /\ stage = "begin"
    /\ depth \in Depths
    /\ roi = [y \in Neighborhood |-> Nothing]
    /\ packed = <<>> /\ unpacked = <<>>

-----------------------------------------------------------------------------
(* The kernel.                                                             *)

\* Red: the cell is higher than the one above it, and so on.  What is higher has
\* the smaller depth.
ComputeNeighborRelationships ==
    /\ stage = "begin" /\ enabled
    /\ stage' = "compared"
    /\ roi' = [y \in Neighborhood |->
         [r |-> {x \in Neighborhood : y > 0 /\ depth[y][x] < depth[y - 1][x]},
          g |-> {x \in Neighborhood : y + 1 \in Neighborhood /\ depth[y][x] < depth[y + 1][x]},
          b |-> {x \in Neighborhood : x > 0 /\ depth[y][x] < depth[y][x - 1]},
          a |-> {x \in Neighborhood : x + 1 \in Neighborhood /\ depth[y][x] < depth[y][x + 1]}]]
    /\ UNCHANGED <<enabled, depth, packed, unpacked>>

LeftShift(bits) == {x + 1 : x \in bits}
RightShift(bits, n) == {x - n : x \in {z \in bits : z >= n}}

\* Downward: green, blue and alpha of the rows above.
SmearDown(rows, y) ==
    LET Near == {rows[kRadius + y - rad] : rad \in 0 .. kRadius - 1}
    IN  [rows EXCEPT ![kRadius + y] =
            [r |-> @.r, g |-> UNION {row.g : row \in Near},
             b |-> UNION {row.b : row \in Near}, a |-> UNION {row.a : row \in Near}]]

SmearUp(rows, y) ==
    LET Near == {rows[kRadius + y + rad] : rad \in 0 .. kRadius - 1}
    IN  [rows EXCEPT ![kRadius + y] =
            [r |-> UNION {row.r : row \in Near}, g |-> @.g,
             b |-> UNION {row.b : row \in Near}, a |-> UNION {row.a : row \in Near}]]

\* One step to the sides: blue to the left only, alpha to the right only.
SmearOnce(row, rad) ==
    LET Left == [r |-> row.r \union RightShift(row.r, 1), g |-> row.g \union RightShift(row.g, 1),
                 b |-> row.b \union RightShift(row.b, 1), a |-> row.a]
    IN  [r |-> Left.r \union LeftShift(Left.r), g |-> Left.g \union LeftShift(Left.g),
         b |-> Left.b, a |-> Left.a \union LeftShift(Left.a)]

SmearSideways(row) == FoldLeft(SmearOnce, row, [rad \in 1 .. kRadius - 1 |-> rad])

UpTo(n) == [k \in 1..n |-> k - 1]
DownFrom(n) == [k \in 1..n |-> n - k]

\* A bug to be caught: downward, in the order in which smeared rows are smeared on.
SmearInTheWrongOrder ==
    /\ stage = "compared"
    /\ stage' = "smeared"
    /\ LET Down == FoldLeft(SmearDown, roi, UpTo(kEight))
           Up == FoldLeft(SmearUp, Down, UpTo(kEight))
       IN  roi' = [y \in Neighborhood |-> IF y - kRadius \in Interest THEN SmearSideways(Up[y])
                                          ELSE Up[y]]
    /\ UNCHANGED <<enabled, depth, packed, unpacked>>

\* Downward from the last row to the first, so that it does not smear what has
\* been smeared; then upward, in the other order; then to the sides.
SmearNeighborRelationships ==
    /\ stage = "compared"
    /\ stage' = "smeared"
    /\ LET Down == FoldLeft(SmearDown, roi, DownFrom(kEight))
           Up == FoldLeft(SmearUp, Down, UpTo(kEight))
       IN  roi' = [y \in Neighborhood |-> IF y - kRadius \in Interest THEN SmearSideways(Up[y])
                                          ELSE Up[y]]
    /\ UNCHANGED <<enabled, depth, packed, unpacked>>

\* The rest of main(): two bits for each pixel, a row of four in a channel, four
\* rows in a texel.
UpDown(y) == RightShift(roi[y + kRadius].r \union roi[y + kRadius].g, kRadius)
LeftRight(y) == RightShift(roi[y + kRadius].b \union roi[y + kRadius].a, kRadius)

Texel(x, y) ==
    [yy \in 0..3 |->
        {2 * xx : xx \in {k \in 0..3 : 4 * x + k \in UpDown(4 * y + yy)}} \union
        {2 * xx + 1 : xx \in {k \in 0..3 : 4 * x + k \in LeftRight(4 * y + yy)}}]

Pack ==
    /\ stage = "smeared"
    /\ stage' = "packed"
    /\ packed' = [y \in 0..1 |-> [x \in 0..1 |-> Texel(x, y)]]
    /\ UNCHANGED <<enabled, depth, roi, unpacked>>

\* The null kernel, when the accelerator is not enabled: every bit is 1.
DispatchNullKernel ==
    /\ stage = "begin" /\ ~enabled
    /\ stage' = "packed"
    /\ packed' = [y \in 0..1 |-> [x \in 0..1 |-> [yy \in 0..3 |-> 0..7]]]
    /\ UNCHANGED <<enabled, depth, roi, unpacked>>

\* The unpack kernel: a pixel for every two bits.
Unpack ==
    /\ stage = "packed"
    /\ stage' = "unpacked"
    /\ unpacked' = [y \in Interest |-> [x \in Interest |->
            LET block == packed[y \div 4][x \div 4]
            IN  [r |-> 2 * (x % 4) \in block[y % 4], g |-> 2 * (x % 4) + 1 \in block[y % 4]]]]
    /\ UNCHANGED <<enabled, depth, roi, packed>>

SsdoNext ==
    \/ ComputeNeighborRelationships \/ SmearNeighborRelationships \/ Pack
    \/ DispatchNullKernel
    \/ Unpack

SsdoSpec == SsdoInit /\ [][SsdoNext]_ssdoVars

-----------------------------------------------------------------------------
(* The fragment shaders.                                                   *)

kSsdoAccelDownsampleFactor == 8
kSampleRadius == 16

\* Whether main() of the sampler and of the filter leave at once at a fragment,
\* which they do when both bits of its cell are 0.
LeavesAtOnce(fx, fy) ==
    LET Packed == kSsdoAccelDownsampleFactor * 4
        cell_x == ((fx % Packed) * 4) \div Packed
        cell_y == ((fy % Packed) * 4) \div Packed
    IN  packed[fy \div Packed][fx \div Packed][cell_y] \intersect {2 * cell_x, 2 * cell_x + 1} = {}

-----------------------------------------------------------------------------
(* Properties.                                                             *)

Higher(p, q) == depth[p[2] + kRadius][p[1] + kRadius] < depth[q[2] + kRadius][q[1] + kRadius]

Within(p, n) == (p[1] - n .. p[1] + n) \X (p[2] - n .. p[2] + n)

\* A fragment for each corner of each cell.
Fragments ==
    LET Ends == {kSsdoAccelDownsampleFactor * k : k \in Interest}
                  \union {kSsdoAccelDownsampleFactor * (k + 1) - 1 : k \in Interest}
    IN  Ends \X Ends

CellOf(f) == <<f[1] \div kSsdoAccelDownsampleFactor, f[2] \div kSsdoAccelDownsampleFactor>>

\* The cells that a tap can fall into, at less than the sample radius.
Taps(f) ==
    {p \in Within(CellOf(f), 3) :
        /\ p[1] * kSsdoAccelDownsampleFactor < f[1] + kSampleRadius
        /\ (p[1] + 1) * kSsdoAccelDownsampleFactor > f[1] - kSampleRadius
        /\ p[2] * kSsdoAccelDownsampleFactor < f[2] + kSampleRadius
        /\ (p[2] + 1) * kSsdoAccelDownsampleFactor > f[2] - kSampleRadius}

\* "Exit early if no shadow is possible": where the shaders leave at once,
\* nothing that they would have sampled is higher than the fragment.
NoShadowIsMissed ==
    packed # <<>> =>
        \A f \in Fragments : LeavesAtOnce(f[1], f[2]) =>
            \A p \in Taps(f) : ~Higher(p, CellOf(f))

\* The kernel saves what it can: in front of a pixel that it marks, something
\* really is higher than what is next to it, and is within its radius.
MarksAreLocal ==
    packed # <<>> /\ enabled =>
        \A x \in Interest : \A y \in Interest :
            ~LeavesAtOnce(kSsdoAccelDownsampleFactor * x, kSsdoAccelDownsampleFactor * y) =>
                \E p \in Within(<<x, y>>, kRadius - 1), q \in Within(<<x, y>>, kRadius) : Higher(p, q)

\* The debug view shows what the shaders read.
UnpackedIsWhatShadersRead ==
    unpacked # <<>> =>
        \A x \in Interest : \A y \in Interest :
            (unpacked[y][x].r \/ unpacked[y][x].g)
                <=> ~LeavesAtOnce(kSsdoAccelDownsampleFactor * x, kSsdoAccelDownsampleFactor * y)

\* The lookup table is neither wrong nor wasteful, however the bits are smeared,
\* packed into texels and taken apart again by three shaders.
LookupTableIsExact == NoShadowIsMissed /\ MarksAreLocal /\ UnpackedIsWhatShadersRead
=============================================================================
