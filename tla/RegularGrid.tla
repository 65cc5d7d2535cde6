----------------------------- MODULE RegularGrid -----------------------------
(***************************************************************************)
(* The plane map of a session in module dagaz: RegularGrid                 *)
(* (modules/dagaz/grid_spatial_partition.go), the geometry it uses         *)
(* (math.go) and the module operations that drive it (dagaz.go).           *)
(*                                                                         *)
(* A coordinate is an integer, a number of units of 1/Meter metres; adding *)
(* a fifth of a difference (float32 arithmetic in the code) rounds to the  *)
(* nearest unit.  Planes are horizontal: their extents have no height.     *)
(* A plane is named by the order in which it was added to the grid (its    *)
(* identity, *Quad in the code).  One connection sends the samples, the    *)
(* others of the session may join meanwhile: the grid has no lock, and two *)
(* connections that insert at once are a data race, which is not modelled. *)
(***************************************************************************)
EXTENDS Integers, Sequences, FiniteSetsExt

CONSTANTS Meter,      \* units in a metre
          Samples,    \* the quads the client may send
          MaxSamples  \* bound: samples inserted into one grid

ASSUME RegularGridAssumption ==
    /\ Meter \in Nat \ {0} /\ Meter % 5 = 0 /\ MaxSamples \in Nat
    /\ Samples \subseteq [x : Int, y : Int, z : Int, ex : Nat, ez : Nat]

Resolution == 2                  \* metres along a cell: NewRegularGrid(1, 1, 2)
Size == Resolution * Meter       \* units along a cell
MergeEpsilon == (6 * Meter) \div 10
RayReach == MergeEpsilon + Meter \* how far InsertQuad looks up and down
NoQuad == 0                      \* the nil quad; as quadToMerge, the sample
NoSample == [x |-> 0, y |-> 0, z |-> 0, ex |-> 0, ez |-> 0]

VARIABLES
    grid,        \* RegularGrid.Min, Max and Grid: see NewRegularGrid
    quads,       \* the quads the grid points to, by name
    planeCount,  \* RegularGrid.PlaneCount
    mergeCount,  \* RegularGrid.MergeCount
    pc,          \* "idle", or "merging": in the loop of InsertQuad
    sample,      \* the local variable q of InsertQuad
    quadToMerge, \* the quad it points to, NoQuad for the sample itself
    rounds,      \* how often the loop of the insertion under way has merged
    samples      \* how many samples this grid was given

vars == <<grid, quads, planeCount, mergeCount, pc, sample, quadToMerge, rounds, samples>>

Planes == 1 .. Len(quads)

\* Grid[row][column] of a grid with the given numbers of rows and columns.
Cells(rows, cols) == (0 .. rows - 1) \X (0 .. cols - 1)

NewRegularGrid(rows, cols) ==
    [minX |-> 0, minZ |-> 0, maxX |-> Size, maxZ |-> Size,
     rows |-> rows, cols |-> cols, cell |-> [rc \in Cells(rows, cols) |-> <<>>]]

Init ==
    /\ grid = NewRegularGrid(1, 1)
    /\ quads = <<>>
    /\ planeCount = 0 /\ mergeCount = 0
    /\ pc = "idle"
    /\ sample = NoSample
    /\ quadToMerge = NoQuad
    /\ rounds = 0 /\ samples = 0

-----------------------------------------------------------------------------
(* Geometry.                                                               *)

Abs(n) == IF n < 0 THEN -n ELSE n
CeilDiv(n, d) == -((-n) \div d)

\* The row, or column, of a coordinate that is d units from the grid's edge.
CellIndex(d) == d \div Size

\* The first and last row and column a quad lies in.
Bounds(g, q) ==
    [minX |-> CellIndex(q.x - q.ex - g.minX), maxX |-> CellIndex(q.x + q.ex - g.minX),
     minY |-> CellIndex(q.z - q.ez - g.minZ), maxY |-> CellIndex(q.z + q.ez - g.minZ)]

\* The cells a quad lies in.
Covered(g, q) ==
    LET b == Bounds(g, q) IN (b.minY .. b.maxY) \X (b.minX .. b.maxX)

DoHorizontalPlanesOverlap(a, b) ==
    /\ a.x - a.ex < b.x + b.ex /\ a.x + a.ex > b.x - b.ex
    /\ a.z - a.ez < b.z + b.ez /\ a.z + a.ez > b.z - b.ez

SameCenter(a, b) == a.x = b.x /\ a.y = b.y /\ a.z = b.z

\* IntersectQuad(ray, quad) for a vertical ray that starts at p and goes
\* RayReach units up (dir = 1) or down (dir = -1).  A quad without an area
\* has a zero normal and is never hit.
VerticalHit(p, dir, q) ==
    /\ q.flat
    /\ dir * (q.y - p.y) \in 0 .. RayReach
    /\ Abs(q.x - p.x) <= q.ex /\ Abs(q.z - p.z) <= q.ez

\* Mutant: the first quad that is hit, not the nearest.
FirstHit(list, quad, p, dir) ==
    LET hits == {i \in DOMAIN list : VerticalHit(p, dir, quad[list[i]])}
    IN  IF hits = {} THEN NoQuad ELSE list[Min(hits)]

\* The first of the nearest quads of the list that the ray hits.
NearestHit(list, quad, p, dir) ==
    LET hits == {i \in DOMAIN list : VerticalHit(p, dir, quad[list[i]])}
        dist(i) == Abs(quad[list[i]].y - p.y)
    IN  IF hits = {} THEN NoQuad
        ELSE list[CHOOSE i \in hits : \A j \in hits :
                     dist(i) < dist(j) \/ (dist(i) = dist(j) /\ i <= j)]

\* RegularGrid.IntersectQuad for a vertical ray, which stays in one cell.
VerticalRay(g, quad, p, dir) ==
    LET rc == <<CellIndex(p.z - g.minZ), CellIndex(p.x - g.minX)>>
    IN  IF rc \in DOMAIN g.cell THEN NearestHit(g.cell[rc], quad, p, dir) ELSE NoQuad

-----------------------------------------------------------------------------
(* ExpandToFitPoint.                                                       *)

\* Mutant: a point on the far edge is taken to be inside the last cell.
MissingMetersPastEdge(p, min, max) ==
    IF p < min THEN - ((p - min) \div Meter)
    ELSE IF p > max THEN (p - max) \div Meter + 1
    ELSE 0

\* Metres missing below min or from max on, and the cells they need.
MissingMeters(p, min, max) ==
    IF p < min THEN - ((p - min) \div Meter)
    ELSE IF p >= max THEN (p - max) \div Meter + 1
    ELSE 0

MissingCells(p, min, max) == CeilDiv(MissingMeters(p, min, max), Resolution)

\* Columns are added on the left or on the right, rows at the top or at the
\* bottom; what was in a cell moves with it.
ExpandToFitPoint(g, x, z) ==
    LET newCols == MissingCells(x, g.minX, g.maxX)
        newRows == MissingCells(z, g.minZ, g.maxZ)
        left == IF x < g.minX THEN newCols ELSE 0
        top  == IF z < g.minZ THEN newRows ELSE 0
    IN  [minX |-> g.minX - left * Size, maxX |-> g.maxX + (newCols - left) * Size,
         minZ |-> g.minZ - top * Size,  maxZ |-> g.maxZ + (newRows - top) * Size,
         rows |-> g.rows + newRows, cols |-> g.cols + newCols,
         cell |-> [rc \in Cells(g.rows + newRows, g.cols + newCols) |->
                      LET old == <<rc[1] - top, rc[2] - left>>
                      IN  IF old \in DOMAIN g.cell THEN g.cell[old] ELSE <<>>]]

-----------------------------------------------------------------------------
(* mergeQuads.                                                             *)

\* The existing quad goes a fifth of the way to the new one.
Toward(a, b) == a + (b - a + 2) \div 5

Merged(old, new) ==
    [old EXCEPT !.x = Toward(@, new.x), !.y = Toward(@, new.y), !.z = Toward(@, new.z),
                !.ex = Toward(@, new.ex), !.ez = Toward(@, new.ez)]

\* removeQuadFromCell: the last quad of the cell takes the place of the first
\* entry of q.
RemoveQuad(list, q) ==
    IF \A i \in DOMAIN list : list[i] # q THEN list
    ELSE LET i == CHOOSE i \in DOMAIN list : list[i] = q /\ \A j \in 1 .. i - 1 : list[j] # q
         IN  SubSeq([list EXCEPT ![i] = list[Len(list)]], 1, Len(list) - 1)

\* What one of the four loops does to a cell of its edge.
UpdateCell(list, onEdge, expand, q) ==
    IF ~ onEdge THEN list ELSE IF expand THEN Append(list, q) ELSE RemoveQuad(list, q)

\* Mutant: the left and right edges are followed along the common rows only.
MoveQuadInCommonRows(cell, q, a, b) ==
    LET minX == {a.minX, b.minX}  maxX == {a.maxX, b.maxX}
        minY == {a.minY, b.minY}  maxY == {a.maxY, b.maxY}
        rows == Max(minY) .. Min(maxY)
        cols == Max(minX) .. Min(maxX)
    IN  [rc \in DOMAIN cell |->
            LET onLeft   == rc[1] \in rows /\ rc[2] \in Min(minX) .. Max(minX) - 1
                onRight  == rc[1] \in rows /\ rc[2] \in Min(maxX) + 1 .. Max(maxX)
                onTop    == rc[1] \in Min(minY) .. Max(minY) - 1 /\ rc[2] \in cols
                onBottom == rc[1] \in Min(maxY) + 1 .. Max(maxY) /\ rc[2] \in cols
                left     == UpdateCell(cell[rc], onLeft, b.minX < a.minX, q)
                right    == UpdateCell(left, onRight, b.maxX >= a.maxX, q)
                top      == UpdateCell(right, onTop, b.minY < a.minY, q)
            IN  UpdateCell(top, onBottom, b.maxY >= a.maxY, q)]

\* The cells after quad q went from bounds a to bounds b: the loops over the
\* left, right, top and bottom edge.
MoveQuad(cell, q, a, b) ==
    LET minX == {a.minX, b.minX}  maxX == {a.maxX, b.maxX}
        minY == {a.minY, b.minY}  maxY == {a.maxY, b.maxY}
        rows == Min(minY) .. Max(maxY)
        cols == Max(minX) .. Min(maxX)
    IN  [rc \in DOMAIN cell |->
            LET onLeft   == rc[1] \in rows /\ rc[2] \in Min(minX) .. Max(minX) - 1
                onRight  == rc[1] \in rows /\ rc[2] \in Min(maxX) + 1 .. Max(maxX)
                onTop    == rc[1] \in Min(minY) .. Max(minY) - 1 /\ rc[2] \in cols
                onBottom == rc[1] \in Min(maxY) + 1 .. Max(maxY) /\ rc[2] \in cols
                left     == UpdateCell(cell[rc], onLeft, b.minX < a.minX, q)
                right    == UpdateCell(left, onRight, b.maxX >= a.maxX, q)
                top      == UpdateCell(right, onTop, b.minY < a.minY, q)
            IN  UpdateCell(top, onBottom, b.maxY >= a.maxY, q)]

-----------------------------------------------------------------------------
(* InsertQuad, for one of the samples of a HandleDagazQuadSample message.  *)

\* The grid grows to hold both corners of the sample.
InsertQuad(s) ==
    LET g == ExpandToFitPoint(grid, s.x - s.ex, s.z - s.ez) IN
    /\ pc = "idle"
    /\ samples < MaxSamples
    /\ grid' = ExpandToFitPoint(g, s.x + s.ex, s.z + s.ez)
    /\ sample' = s
    /\ quadToMerge' = NoQuad
    /\ pc' = "merging"
    /\ samples' = samples + 1
    /\ UNCHANGED <<quads, planeCount, mergeCount, rounds>>

\* A sample as a quad of its own; calculateNormal gives it a normal unless
\* its extents have no area.
NewQuad(s) == [x |-> s.x, y |-> s.y, z |-> s.z, ex |-> s.ex, ez |-> s.ez,
               flat |-> s.ex > 0 /\ s.ez > 0]

\* What the loop compares with the planes of the grid.
Merging == IF quadToMerge = NoQuad THEN NewQuad(sample) ELSE quads[quadToMerge]

\* The nearest plane above or below; above when both are as near.
ClosestPlane ==
    LET up == VerticalRay(grid, quads, Merging, 1)
        down == VerticalRay(grid, quads, Merging, -1)
        dist(q) == Abs(quads[q].y - Merging.y)
    IN  IF up = NoQuad \/ (down # NoQuad /\ dist(down) < dist(up)) THEN down ELSE up

\* Whether that plane and the quad at hand become one.
NeedsMerging ==
    /\ ClosestPlane # NoQuad
    /\ Abs(quads[ClosestPlane].y - Merging.y) <= MergeEpsilon
    /\ DoHorizontalPlanesOverlap(quads[ClosestPlane], Merging)

\* InsertQuad returns.
Return ==
    /\ pc' = "idle"
    /\ quadToMerge' = NoQuad
    /\ sample' = NoSample
    /\ rounds' = 0

\* Mutant: the loop goes on with a plane that was merged with itself.
MergeQuadsAgain(hit) ==
    /\ pc = "merging"
    /\ hit = ClosestPlane
    /\ NeedsMerging
    /\ quads' = [quads EXCEPT ![hit] = Merged(@, Merging)]
    /\ grid' = [grid EXCEPT !.cell =
                   MoveQuad(@, hit, Bounds(grid, quads[hit]), Bounds(grid, quads'[hit]))]
    /\ mergeCount' = mergeCount + 1
    /\ quadToMerge' = hit /\ rounds' = rounds + 1
    /\ UNCHANGED <<planeCount, samples, pc, sample>>

\* One round of the loop that merges.  The plane that was hit is the next
\* one to be merged, unless both had the same center; it then hits itself.
MergeQuads(hit) ==
    /\ pc = "merging"
    /\ hit = ClosestPlane
    /\ NeedsMerging
    /\ quads' = [quads EXCEPT ![hit] = Merged(@, Merging)]
    /\ grid' = [grid EXCEPT !.cell =
                   MoveQuad(@, hit, Bounds(grid, quads[hit]), Bounds(grid, quads'[hit]))]
    /\ mergeCount' = mergeCount + 1
    /\ IF hit = quadToMerge \/ SameCenter(quads'[hit], Merging)
       THEN Return
       ELSE quadToMerge' = hit /\ rounds' = rounds + 1 /\ UNCHANGED <<pc, sample>>
    /\ UNCHANGED <<planeCount, samples>>

\* The loop ends.  A sample that was merged into nothing becomes a plane.
EndInsert ==
    LET q == Len(quads) + 1 IN
    /\ pc = "merging"
    /\ ~ NeedsMerging
    /\ IF quadToMerge = NoQuad
       THEN /\ quads' = Append(quads, NewQuad(sample))
            /\ grid' = [grid EXCEPT !.cell = [rc \in DOMAIN @ |->
                           IF rc \in Covered(grid, NewQuad(sample)) THEN Append(@[rc], q) ELSE @[rc]]]
            /\ planeCount' = planeCount + 1
       ELSE UNCHANGED <<quads, grid, planeCount>>
    /\ Return
    /\ UNCHANGED <<mergeCount, samples>>

\* Module.Init of another connection that joins the session puts a new grid
\* in the place of the one everybody uses.  An insertion that is under way
\* goes on in the old grid, which nobody sees any more.
ModuleInit ==
    /\ grid' = NewRegularGrid(1, 1)
    /\ quads' = <<>>
    /\ planeCount' = 0 /\ mergeCount' = 0
    /\ samples' = 0
    /\ Return

Next ==
    \/ \E s \in Samples : InsertQuad(s)
    \/ \E hit \in Planes : MergeQuads(hit)
    \/ EndInsert
    \/ ModuleInit

Spec == Init /\ [][Next]_vars

-----------------------------------------------------------------------------
(* What the module answers.                                                *)

\* Mutant: the far corner is not clamped to the grid but to its last cell.
GetRegionOneShort(g, minX, minZ, maxX, maxZ) ==
    LET firstCol == CellIndex(Max({minX, g.minX}) - g.minX)
        firstRow == CellIndex(Max({minZ, g.minZ}) - g.minZ)
        lastCol  == CellIndex(Min({maxX, g.maxX - 1}) - g.minX) - 1
        lastRow  == CellIndex(Min({maxZ, g.maxZ - 1}) - g.minZ) - 1
    IN  UNION {{g.cell[rc][i] : i \in DOMAIN g.cell[rc]} :
                  rc \in (firstRow .. lastRow) \X (firstCol .. lastCol)}

\* GetRegion, from corner (minX, minZ) to corner (maxX, maxZ).  It is not
\* defined for a far corner left of or below the grid: the code converts the
\* negative coordinate to an unsigned one, and its loops leave the grid.
GetRegion(g, minX, minZ, maxX, maxZ) == CASE maxX >= g.minX /\ maxZ >= g.minZ ->
    LET firstCol == CellIndex(Max({minX, g.minX}) - g.minX)
        firstRow == CellIndex(Max({minZ, g.minZ}) - g.minZ)
        lastCol  == CellIndex(Min({maxX, g.maxX}) - g.minX) - 1
        lastRow  == CellIndex(Min({maxZ, g.maxZ}) - g.minZ) - 1
    IN  UNION {{g.cell[rc][i] : i \in DOMAIN g.cell[rc]} :
                  rc \in (firstRow .. lastRow) \X (firstCol .. lastCol)}

\* The share of the way from p to p + d, in 1/scale, that a ray has to go to
\* be between min and max; -1 when it does not get there.
Entry(p, d, min, max, scale) ==
    IF p < min THEN IF min - p > d THEN -1 ELSE ((min - p) * scale) \div d
    ELSE IF p > max THEN IF max - p < d THEN -1 ELSE ((max - p) * scale) \div d
    ELSE 0

\* The cells <<row, column>> RegularGrid.IntersectQuad looks into, one after
\* the other, for a ray from (x, z) to (x + dx, z + dz) that hits nothing.
\* Distances along the ray are counted in 1/scale of its length.  The column
\* is clamped twice, the second time to the row, and the row is not.
RayCells(g, x, z, dx, dz) ==
    LET scale == Max({1, Abs(dx)}) * Max({1, Abs(dz)})
        xt == Entry(x, dx, g.minX, g.maxX, scale)
        zt == Entry(z, dz, g.minZ, g.maxZ, scale)
        step == (Size * scale) \div Max({Abs(dx), Abs(dz)})
        onEdge == dz = 0 /\ z \in {g.minZ, g.maxZ}
        start == Max({xt, zt})
        row(t) == ((z - g.minZ) * scale + dz * t) \div (Size * scale)
    IN  IF xt < 0 \/ zt < 0 THEN {}
        ELSE {<<row(t), IF row(t) < 0 THEN g.rows - 1 ELSE Min({row(t), g.rows - 1})>> :
                 t \in IF onEdge THEN {start}
                       ELSE {start + k * step : k \in 0 .. (scale - start) \div step}}

-----------------------------------------------------------------------------
(* Properties.                                                             *)

FarAway == grid.maxX + grid.maxZ + Size

\* The grid has the cells its corners say it has, they list planes of this
\* grid, also after another Init, and every plane, however often it was moved
\* by merging, lies inside: the edge loops of mergeQuads never index a cell
\* that is not there.
PlanesAreInGrid ==
    /\ DOMAIN grid.cell = Cells(grid.rows, grid.cols)
    /\ \A rc \in DOMAIN grid.cell : grid.cell[rc] \in Seq(Planes)
    /\ grid.maxX - grid.minX = grid.cols * Size
    /\ grid.maxZ - grid.minZ = grid.rows * Size
    /\ \A q \in Planes : Covered(grid, quads[q]) \subseteq DOMAIN grid.cell

\* A plane is listed in every cell it lies in, after any sequence of
\* expansions of the grid and of merges that grow, shrink and shift planes.
CellsCoverPlanes ==
    \A q \in Planes : \A rc \in Covered(grid, quads[q]) :
        \E i \in DOMAIN grid.cell[rc] : grid.cell[rc][i] = q

\* A vertical ray, which InsertQuad uses to find what to merge with and a
\* client to find the ground, gets the nearest of all planes it meets.
GroundIsNearest ==
    \A p \in Samples, dir \in {1, -1} :
        LET hit == VerticalRay(grid, quads, p, dir)
            all == {q \in Planes : VerticalHit(p, dir, quads[q])}
        IN  /\ hit = NoQuad <=> all = {}
            /\ \A q \in all : /\ hit \in all
                              /\ Abs(quads[hit].y - p.y) <= Abs(quads[q].y - p.y)

\* GetRegion from a point of the grid to its far corner, or beyond, returns
\* every plane that lies partly in that region.
RegionIsComplete ==
    \A p \in Samples : p.x >= grid.minX /\ p.z >= grid.minZ =>
        {q \in Planes : quads[q].x + quads[q].ex >= p.x /\ quads[q].z + quads[q].ez >= p.z}
            \subseteq GetRegion(grid, p.x, p.z, FarAway, FarAway)

\* The loop of InsertQuad, which has no bound of its own, goes on after its
\* first merge only from one plane to another of exactly its height whose
\* center it lies over: planes at different heights, however near, never keep
\* it going, and only the first merge moves a plane up or down.  (Two planes
\* of one height can take turns more often than there are planes.)
LoopStaysLevel ==
    rounds > 1 => \E p \in Planes \ {quadToMerge} :
        /\ quads[p].y = quads[quadToMerge].y
        /\ VerticalHit(quads[p], 1, quads[quadToMerge])

-----------------------------------------------------------------------------
(* What a comment says and the code does not do.                           *)

\* The cells a ray goes through are clamped to bounds
\* (grid_spatial_partition.go): a ray from one point of the grid to another,
\* above all planes, only looks into cells of the grid.  Rays that end beyond
\* the grid are left out: they leave it for a reason of their own, the row
\* that is not clamped at all.
RaysStayInGrid ==
    LET inGrid(p) == p.x \in grid.minX .. grid.maxX - 1 /\ p.z \in grid.minZ .. grid.maxZ - 1 IN
    \A p, q \in Samples : inGrid(p) /\ inGrid(q) /\ <<p.x, p.z>> # <<q.x, q.z>> =>
        RayCells(grid, p.x, p.z, q.x - p.x, q.z - p.z) \subseteq DOMAIN grid.cell

=============================================================================
