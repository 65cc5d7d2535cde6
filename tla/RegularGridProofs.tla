------------------------- MODULE RegularGridProofs -------------------------
(***************************************************************************)
(* Proofs about RegularGrid, for any samples, any number of them and any   *)
(* fineness of the coordinates.                                            *)
(***************************************************************************)
EXTENDS RegularGrid, WellFoundedInduction, TLAPS

-----------------------------------------------------------------------------
(* Arithmetic.                                                             *)

LEMMA SizeType == Size \in Nat \ {0} /\ Meter \in Nat \ {0} /\ Size = 2 * Meter
BY RegularGridAssumption DEF Size, Resolution

LEMMA Division ==
    ASSUME NEW a \in Int, NEW d \in Nat \ {0}
    PROVE  /\ a \div d \in Int
           /\ (a \div d) * d <= a /\ a < (a \div d) * d + d
OBVIOUS

LEMMA DivisionUnique ==
    ASSUME NEW a \in Int, NEW d \in Nat \ {0}, NEW k \in Int, k * d <= a, a < k * d + d
    PROVE  a \div d = k
BY Division

\* Products with a positive factor are ordered as their other factors.
LEMMA ProductOrder ==
    ASSUME NEW a \in Int, NEW b \in Int, NEW d \in Nat \ {0}
    PROVE  a * d \in Int /\ (a <= b => a * d <= b * d) /\ (a < b => a * d + d <= b * d)
<1>1. a < b => a * d + d <= b * d
  <2> SUFFICES ASSUME a < b PROVE a * d + d <= b * d
    OBVIOUS
  <2>1. (b - a) * d >= d
    OBVIOUS
  <2>. QED  BY <2>1
<1>. QED  BY <1>1

\* A set of natural numbers has a least one.
LEMMA LeastNumber ==
    ASSUME NEW T \in SUBSET Nat, T # {}
    PROVE  \E m \in T : \A k \in T : m <= k
<1>1. PICK R : R = OpToRel(<, Nat)
  OBVIOUS
<1>2. PICK m \in T : \A k \in T : <<k, m>> \notin R
  BY <1>1, NatLessThanWellFounded, WFMin
<1>3. \A k \in Nat : k < m => <<k, m>> \in R
  BY <1>1 DEF OpToRel
<1>4. ASSUME NEW k \in T
      PROVE  m <= k
  <2>1. k \in Nat /\ m \in Nat
    OBVIOUS
  <2>2. k < m => <<k, m>> \in R
    BY ONLY <1>3, <2>1, Zenon
  <2>3. <<k, m>> \notin R
    BY <1>2
  <2>. QED  BY ONLY <2>1, <2>2, <2>3
<1>. QED  BY <1>4

\* The length of k cells, in units.
Span(k) == k * Size

LEMMA SpanType ==
    ASSUME NEW k \in Int, NEW i \in Int
    PROVE  /\ Span(k) \in Int /\ (k >= 0 => Span(k) >= 0) /\ Span(0) = 0
           /\ Span(i + k) = Span(i) + Span(k)
           /\ (k < i => Span(k) + Size <= Span(i)) /\ (k <= i => Span(k) <= Span(i))
<1>1. Size \in Nat \ {0}
  BY SizeType
<1>2. /\ k * Size \in Int /\ (i + k) * Size = i * Size + k * Size /\ 0 * Size = 0
      /\ (k < i => k * Size + Size <= i * Size) /\ (k <= i => k * Size <= i * Size)
  BY <1>1, ProductOrder
<1>3. 0 <= k => 0 * Size <= k * Size
  BY <1>1, ProductOrder
<1>. QED  BY <1>2, <1>3 DEF Span

LEMMA CellIndexSpan ==
    ASSUME NEW a \in Int
    PROVE  /\ CellIndex(a) \in Int
           /\ Span(CellIndex(a)) <= a /\ a < Span(CellIndex(a)) + Size
           /\ \A k \in Int : Span(k) <= a /\ a < Span(k) + Size => CellIndex(a) = k
<1>1. Size \in Nat \ {0}
  BY SizeType
<1>. QED  BY <1>1, Division, DivisionUnique DEF CellIndex, Span

\* Cells are numbered along a coordinate, without a gap.
LEMMA CellIndexOrder ==
    ASSUME NEW a \in Int, NEW b \in Int, a <= b
    PROVE  CellIndex(a) \in Int /\ CellIndex(a) <= CellIndex(b)
<1>1. PICK i \in Int, j \in Int : /\ i = CellIndex(a) /\ Span(i) <= a /\ a < Span(i) + Size
                                  /\ j = CellIndex(b) /\ Span(j) <= b /\ b < Span(j) + Size
  BY CellIndexSpan
<1>2. Span(i) \in Int /\ Span(j) \in Int /\ (j < i => Span(j) + Size <= Span(i)) /\ Size \in Nat
  BY SpanType, SizeType
<1>. QED  BY <1>1, <1>2

LEMMA CellIndexBounds ==
    ASSUME NEW a \in Int, NEW n \in Int
    PROVE  /\ a >= 0 => CellIndex(a) >= 0
           /\ a < Span(n) => CellIndex(a) <= n - 1
           /\ CellIndex(Span(n)) = n
<1>1. PICK i \in Int : i = CellIndex(a) /\ Span(i) <= a /\ a < Span(i) + Size
  BY CellIndexSpan
<1>2. /\ Span(i) \in Int /\ Span(n) \in Int /\ Span(0) = 0 /\ Size \in Nat \ {0}
      /\ (i < 0 => Span(i) + Size <= Span(0)) /\ (n <= i => Span(n) <= Span(i))
  BY SpanType, SizeType
<1>3. CellIndex(Span(n)) = n
  BY <1>2, CellIndexSpan
<1>. QED  BY <1>1, <1>2, <1>3

\* Whole cells that are added in front shift the numbers.
LEMMA CellIndexShift ==
    ASSUME NEW a \in Int, NEW k \in Int
    PROVE  CellIndex(a + Span(k)) = CellIndex(a) + k
<1>1. PICK i \in Int : i = CellIndex(a) /\ Span(i) <= a /\ a < Span(i) + Size
  BY CellIndexSpan
<1>2. Span(i) \in Int /\ Span(k) \in Int /\ Span(i + k) = Span(i) + Span(k) /\ Size \in Nat
  BY SpanType, SizeType
<1>3. Span(i + k) <= a + Span(k) /\ a + Span(k) < Span(i + k) + Size
  BY <1>1, <1>2
<1>. QED  BY <1>1, <1>2, <1>3, CellIndexSpan

\* Enough cells are added for a point to be inside, and none when it was.
LEMMA EnoughCells ==
    ASSUME NEW p \in Int, NEW min \in Int, NEW max \in Int, min <= max
    PROVE  /\ MissingCells(p, min, max) \in Nat
           /\ p < min => min - Span(MissingCells(p, min, max)) <= p
           /\ p >= max => p < max + Span(MissingCells(p, min, max))
           /\ min <= p /\ p < max => MissingCells(p, min, max) = 0
<1> DEFINE m == MissingMeters(p, min, max)
           n == MissingCells(p, min, max)
<1>1. Meter \in Nat \ {0} /\ Size = 2 * Meter
  BY SizeType
<1>2. n \in Int /\ 2 * n >= m /\ (m >= 0 => n >= 0) /\ (m = 0 => n = 0)
  <2>1. m \in Int
    BY <1>1, Division DEF MissingMeters
  <2>2. n = -((-m) \div 2)
    BY DEF MissingCells, CeilDiv, Resolution
  <2>. QED  BY <2>1, <2>2
<1>3. n * Size = (2 * n) * Meter
  BY <1>1, <1>2
<1>4. CASE p < min
  <2>1. PICK k \in Int : k = (p - min) \div Meter /\ k * Meter <= p - min /\ p - min < k * Meter + Meter
    BY <1>1, Division
  <2>2. m = -k
    BY <1>4, <2>1 DEF MissingMeters
  <2>3. k < 0
    <3>1. 0 <= k => 0 * Meter <= k * Meter
      BY <1>1, ProductOrder
    <3>. QED  BY <1>1, <1>4, <2>1, <3>1
  <2>4. (-k) * Meter <= (2 * n) * Meter
    BY <1>1, <1>2, <2>2, ProductOrder
  <2>5. (-k) * Meter = -(k * Meter) /\ k * Meter \in Int /\ (2 * n) * Meter \in Int
    BY <1>1, <1>2
  <2>6. n \in Nat /\ min - n * Size <= p
    <3>1. PICK u \in Int, v \in Int : u = k * Meter /\ v = n * Size
      BY <1>3, <2>5
    <3>2. -u <= v /\ u <= p - min
      BY <1>3, <2>1, <2>4, <2>5, <3>1
    <3>. QED  BY <1>2, <2>2, <2>3, <3>1, <3>2
  <2>. QED  BY <1>4, <2>6 DEF Span
<1>5. CASE p >= max
  <2>1. PICK k \in Int : k = (p - max) \div Meter /\ k * Meter <= p - max /\ p - max < k * Meter + Meter
    BY <1>1, Division
  <2>2. m = k + 1
    BY <1>5, <2>1 DEF MissingMeters
  <2>3. k >= 0
    <3>1. k < 0 => k * Meter + Meter <= 0 * Meter
      BY <1>1, ProductOrder
    <3>. QED  BY <1>1, <1>5, <2>1, <3>1
  <2>4. (k + 1) * Meter <= (2 * n) * Meter
    BY <1>1, <1>2, <2>2, ProductOrder
  <2>5. (k + 1) * Meter = k * Meter + Meter /\ k * Meter \in Int /\ (2 * n) * Meter \in Int
    BY <1>1, <1>2
  <2>6. n \in Nat /\ p < max + n * Size
    <3>1. PICK u \in Int, v \in Int : u = k * Meter /\ v = n * Size
      BY <1>3, <2>5
    <3>2. u + Meter <= v /\ p - max < u + Meter
      BY <1>3, <2>1, <2>4, <2>5, <3>1
    <3>. QED  BY <1>1, <1>2, <2>2, <2>3, <3>1, <3>2
  <2>. QED  BY <1>5, <2>6 DEF Span
<1>6. CASE min <= p /\ p < max
  BY <1>2, <1>6 DEF MissingMeters
<1>. QED  BY <1>4, <1>5, <1>6 DEF Span

\* A merge keeps the corners between those of the two quads, rounding
\* included.
LEMMA MergedCorners ==
    ASSUME NEW a \in Int, NEW b \in Int, NEW c \in Nat, NEW d \in Nat,
           NEW low \in Int, NEW high \in Int,
           low <= a - c, low <= b - d, a + c < high, b + d < high
    PROVE  /\ Toward(a, b) \in Int /\ Toward(c, d) \in Nat
           /\ low <= Toward(a, b) - Toward(c, d) /\ Toward(a, b) + Toward(c, d) < high
BY DEF Toward

-----------------------------------------------------------------------------
(* The grid.                                                               *)

\* A grid whose cells list planes up to n.
WellFormed(g, n) ==
    /\ g \in [minX : Int, minZ : Int, maxX : Int, maxZ : Int, rows : Nat, cols : Nat, cell : {g.cell}]
    /\ g.cell \in [Cells(g.rows, g.cols) -> Seq(1 .. n)]
    /\ g.maxX - g.minX = Span(g.cols) /\ g.maxZ - g.minZ = Span(g.rows)
    /\ g.maxX >= Size /\ g.maxZ >= Size
    /\ g.minX <= 0 /\ g.minZ <= 0

\* A quad, or a sample, that lies inside.
Inside(g, q) ==
    /\ q.x \in Int /\ q.y \in Int /\ q.z \in Int /\ q.ex \in Nat /\ q.ez \in Nat
    /\ g.minX <= q.x - q.ex /\ q.x + q.ex < g.maxX
    /\ g.minZ <= q.z - q.ez /\ q.z + q.ez < g.maxZ

\* The rows and columns b are some of those of the grid.
BoundsIn(g, b) ==
    /\ b.minX \in Nat /\ b.maxX \in Nat /\ b.minY \in Nat /\ b.maxY \in Nat
    /\ b.minX <= b.maxX /\ b.maxX <= g.cols - 1
    /\ b.minY <= b.maxY /\ b.maxY <= g.rows - 1

LEMMA CellsMember ==
    ASSUME NEW rows \in Nat, NEW cols \in Nat, NEW r, NEW c
    PROVE  <<r, c>> \in Cells(rows, cols) <=> r \in 0 .. rows - 1 /\ c \in 0 .. cols - 1
BY DEF Cells

\* Along one coordinate.
LEMMA IndexInGrid ==
    ASSUME NEW a \in Int, NEW e \in Nat, NEW min \in Int, NEW max \in Int, NEW n \in Nat,
           max - min = Span(n), min <= a - e, a + e < max
    PROVE  /\ CellIndex(a - e - min) \in Nat /\ CellIndex(a + e - min) \in Nat
           /\ CellIndex(a - e - min) <= CellIndex(a + e - min) /\ CellIndex(a + e - min) <= n - 1
<1>1. PICK d1 \in Int, d2 \in Int : d1 = a - e - min /\ d2 = a + e - min
  OBVIOUS
<1>2. d1 >= 0 /\ d1 <= d2 /\ d2 < Span(n)
  BY <1>1
<1>3. CellIndex(d1) \in Int /\ CellIndex(d2) \in Int /\ CellIndex(d1) <= CellIndex(d2)
  BY <1>2, CellIndexOrder
<1>4. CellIndex(d1) >= 0 /\ CellIndex(d2) <= n - 1
  BY <1>2, CellIndexBounds
<1>. QED  BY <1>1, <1>3, <1>4

\* The edge loops of mergeQuads index rows and columns the grid has.
LEMMA InsideBounds ==
    ASSUME NEW n, NEW g, WellFormed(g, n), NEW q, Inside(g, q)
    PROVE  BoundsIn(g, Bounds(g, q)) /\ Covered(g, q) \subseteq Cells(g.rows, g.cols)
<1>1. /\ g.minX \in Int /\ g.maxX \in Int /\ g.minZ \in Int /\ g.maxZ \in Int
      /\ g.rows \in Nat /\ g.cols \in Nat
      /\ g.maxX - g.minX = Span(g.cols) /\ g.maxZ - g.minZ = Span(g.rows)
  BY DEF WellFormed
<1>2. /\ CellIndex(q.x - q.ex - g.minX) \in Nat /\ CellIndex(q.x + q.ex - g.minX) \in Nat
      /\ CellIndex(q.x - q.ex - g.minX) <= CellIndex(q.x + q.ex - g.minX)
      /\ CellIndex(q.x + q.ex - g.minX) <= g.cols - 1
  BY <1>1, IndexInGrid DEF Inside
<1>3. /\ CellIndex(q.z - q.ez - g.minZ) \in Nat /\ CellIndex(q.z + q.ez - g.minZ) \in Nat
      /\ CellIndex(q.z - q.ez - g.minZ) <= CellIndex(q.z + q.ez - g.minZ)
      /\ CellIndex(q.z + q.ez - g.minZ) <= g.rows - 1
  BY <1>1, IndexInGrid DEF Inside
<1>4. BoundsIn(g, Bounds(g, q))
  BY <1>2, <1>3 DEF BoundsIn, Bounds
<1>5. Covered(g, q) \subseteq Cells(g.rows, g.cols)
  BY <1>1, <1>4 DEF Covered, Cells, BoundsIn
<1>. QED  BY <1>4, <1>5

\* q is in the list of a cell.
Listed(list, q) == \E i \in DOMAIN list : list[i] = q

\* Grid h is g with rows and columns added around it.
Grown(g, h) ==
    /\ h.minX <= g.minX /\ h.minZ <= g.minZ /\ g.maxX <= h.maxX /\ g.maxZ <= h.maxZ
    /\ \E left, top \in Nat :
          /\ g.minX = h.minX + Span(left) /\ g.minZ = h.minZ + Span(top)
          /\ \A r \in 0 .. g.rows - 1, c \in 0 .. g.cols - 1 :
                h.cell[<<r + top, c + left>>] = g.cell[<<r, c>>]

\* Along one coordinate: new cells, the first so many of them in front.
Along(p, min, max, n, new, first) ==
    /\ new \in Nat /\ first \in Nat /\ new - first \in Nat
    /\ Span(first) \in Nat /\ Span(new - first) \in Nat
    /\ min - Span(first) <= p /\ p < max + Span(new - first)
    /\ (max + Span(new - first)) - (min - Span(first)) = Span(n + new)

LEMMA GrowAlong ==
    ASSUME NEW p \in Int, NEW min \in Int, NEW max \in Int, NEW n \in Nat, max - min = Span(n)
    PROVE  Along(p, min, max, n, MissingCells(p, min, max),
                 IF p < min THEN MissingCells(p, min, max) ELSE 0)
<1> DEFINE new == MissingCells(p, min, max)
<1> USE DEF Along
<1>1. Span(n) \in Nat /\ min <= max
  BY SpanType
<1>2. PICK k \in Nat : /\ k = new
                       /\ p < min => min - Span(k) <= p
                       /\ p >= max => p < max + Span(k)
  BY <1>1, EnoughCells
<1>3. Span(k) \in Nat /\ Span(0) = 0 /\ Span(n + k) = Span(n) + Span(k)
  <2>1. n \in Int /\ k \in Int /\ k >= 0
    OBVIOUS
  <2>2. Span(n + k) = Span(n) + Span(k)
    BY ONLY <2>1, SpanType
  <2>3. Span(k) \in Int /\ Span(k) >= 0 /\ Span(0) = 0
    BY ONLY <2>1, SpanType
  <2>. QED  BY <2>2, <2>3
<1>4. Along(p, min, max, n, k, IF p < min THEN k ELSE 0)
  <2>1. CASE p < min
    BY <1>1, <1>2, <1>3, <2>1
  <2>2. CASE p >= min
    BY <1>1, <1>2, <1>3, <2>2
  <2>. QED  BY <2>1, <2>2
<1>. QED  BY <1>2, <1>4

\* ExpandToFitPoint makes room for the point and moves what it had along.
LEMMA Expansion ==
    ASSUME NEW n \in Nat, NEW g, WellFormed(g, n), NEW x \in Int, NEW z \in Int,
           NEW h, h = ExpandToFitPoint(g, x, z)
    PROVE  /\ WellFormed(h, n) /\ Grown(g, h)
           /\ h.minX <= x /\ x < h.maxX /\ h.minZ <= z /\ z < h.maxZ
<1>1. PICK minX \in Int, maxX \in Int, minZ \in Int, maxZ \in Int, rows \in Nat, cols \in Nat, old \in {g.cell} :
          /\ minX = g.minX /\ maxX = g.maxX /\ minZ = g.minZ /\ maxZ = g.maxZ
          /\ rows = g.rows /\ cols = g.cols /\ old = g.cell
  BY DEF WellFormed
<1>2. /\ maxX - minX = Span(cols) /\ maxZ - minZ = Span(rows)
      /\ maxX >= Size /\ maxZ >= Size /\ minX <= 0 /\ minZ <= 0
      /\ old \in [Cells(rows, cols) -> Seq(1 .. n)]
  BY <1>1 DEF WellFormed
<1>3. PICK newCols, newRows, left, top :
          /\ newCols = MissingCells(x, minX, maxX) /\ left = IF x < minX THEN newCols ELSE 0
          /\ newRows = MissingCells(z, minZ, maxZ) /\ top = IF z < minZ THEN newRows ELSE 0
  OBVIOUS
<1>4. /\ newCols \in Nat /\ left \in Nat /\ newCols - left \in Nat
      /\ Span(left) \in Nat /\ Span(newCols - left) \in Nat
      /\ minX - Span(left) <= x /\ x < maxX + Span(newCols - left)
      /\ (maxX + Span(newCols - left)) - (minX - Span(left)) = Span(cols + newCols)
  <2>1. Along(x, minX, maxX, cols, newCols, left)
    BY <1>2, <1>3, GrowAlong, Zenon
  <2>. QED  BY <2>1 DEF Along
<1>5. /\ newRows \in Nat /\ top \in Nat /\ newRows - top \in Nat
      /\ Span(top) \in Nat /\ Span(newRows - top) \in Nat
      /\ minZ - Span(top) <= z /\ z < maxZ + Span(newRows - top)
      /\ (maxZ + Span(newRows - top)) - (minZ - Span(top)) = Span(rows + newRows)
  <2>1. Along(z, minZ, maxZ, rows, newRows, top)
    BY <1>2, <1>3, GrowAlong, Zenon
  <2>. QED  BY <2>1 DEF Along
<1>6. PICK minX1 \in Int, maxX1 \in Int, minZ1 \in Int, maxZ1 \in Int, rows1 \in Nat, cols1 \in Nat :
          /\ minX1 = minX - Span(left) /\ maxX1 = maxX + Span(newCols - left)
          /\ minZ1 = minZ - Span(top) /\ maxZ1 = maxZ + Span(newRows - top)
          /\ rows1 = rows + newRows /\ cols1 = cols + newCols
  <2>1. /\ minX - Span(left) \in Int /\ maxX + Span(newCols - left) \in Int
        /\ minZ - Span(top) \in Int /\ maxZ + Span(newRows - top) \in Int
        /\ rows + newRows \in Nat /\ cols + newCols \in Nat
    BY <1>4, <1>5
  <2>. QED  BY ONLY <2>1
<1>7. PICK cell : cell = [rc \in Cells(rows + newRows, cols + newCols) |->
                             LET before == <<rc[1] - top, rc[2] - left>>
                             IN  IF before \in DOMAIN old THEN old[before] ELSE <<>>]
  OBVIOUS
<1>8. h = [minX |-> minX1, maxX |-> maxX1, minZ |-> minZ1, maxZ |-> maxZ1,
           rows |-> rows1, cols |-> cols1, cell |-> cell]
  BY ONLY <1>1, <1>3, <1>6, <1>7, h = ExpandToFitPoint(g, x, z) DEF ExpandToFitPoint, Span
<1>9. cell \in [Cells(rows1, cols1) -> Seq(1 .. n)]
  <2>1. \A rc : (IF rc \in DOMAIN old THEN old[rc] ELSE <<>>) \in Seq(1 .. n)
    <3>1. <<>> \in Seq(1 .. n)
      OBVIOUS
    <3>. QED  BY <1>2, <3>1
  <2>. QED  BY <1>6, <1>7, <2>1
<1>10. /\ maxX1 - minX1 = Span(cols1) /\ maxZ1 - minZ1 = Span(rows1)
       /\ minX1 <= minX /\ maxX <= maxX1 /\ minZ1 <= minZ /\ maxZ <= maxZ1
       /\ minX = minX1 + Span(left) /\ minZ = minZ1 + Span(top)
       /\ minX1 <= x /\ x < maxX1 /\ minZ1 <= z /\ z < maxZ1
  <2>1. /\ minX1 = minX - Span(left) /\ maxX1 = maxX + Span(newCols - left)
        /\ minZ1 = minZ - Span(top) /\ maxZ1 = maxZ + Span(newRows - top)
        /\ rows1 = rows + newRows /\ cols1 = cols + newCols
    BY <1>6
  <2>2. /\ maxX1 - minX1 = Span(cols1) /\ minX1 <= minX /\ maxX <= maxX1
        /\ minX = minX1 + Span(left) /\ minX1 <= x /\ x < maxX1
    BY <1>4, <2>1
  <2>3. /\ maxZ1 - minZ1 = Span(rows1) /\ minZ1 <= minZ /\ maxZ <= maxZ1
        /\ minZ = minZ1 + Span(top) /\ minZ1 <= z /\ z < maxZ1
    BY <1>5, <2>1
  <2>. QED  BY <2>2, <2>3
<1>11. WellFormed(h, n)
  <2>1. maxX1 >= Size /\ maxZ1 >= Size /\ minX1 <= 0 /\ minZ1 <= 0
    BY <1>2, <1>10, SizeType
  <2>2. h \in [minX : Int, minZ : Int, maxX : Int, maxZ : Int, rows : Nat, cols : Nat, cell : {h.cell}]
    BY <1>8
  <2>. QED  BY <1>8, <1>9, <1>10, <2>1, <2>2 DEF WellFormed
<1>12. Grown(g, h)
  <2>1. ASSUME NEW r \in 0 .. rows - 1, NEW c \in 0 .. cols - 1
        PROVE  cell[<<r + top, c + left>>] = old[<<r, c>>]
    <3>1. <<r + top, c + left>> \in Cells(rows + newRows, cols + newCols)
      <4>1. r + top \in 0 .. (rows + newRows) - 1 /\ c + left \in 0 .. (cols + newCols) - 1
        BY <1>4, <1>5
      <4>. QED  BY ONLY <4>1 DEF Cells
    <3>2. <<r, c>> \in DOMAIN old
      BY <1>2 DEF Cells
    <3>3. PICK rc : rc = <<r + top, c + left>>
      OBVIOUS
    <3>4. rc[1] - top = r /\ rc[2] - left = c
      BY <1>4, <1>5, <3>3
    <3>5. cell[rc] = old[<<r, c>>]
      BY ONLY <1>7, <3>1, <3>2, <3>3, <3>4
    <3>. QED  BY ONLY <3>3, <3>5
  <2>. QED  BY <1>1, <1>4, <1>5, <1>8, <1>10, <2>1 DEF Grown
<1>. QED  BY <1>8, <1>10, <1>11, <1>12

\* A plane that is listed where it lies stays so when the grid grows.
LEMMA GrownCovers ==
    ASSUME NEW n, NEW g, WellFormed(g, n), NEW h, WellFormed(h, n), Grown(g, h),
           NEW q, Inside(g, q)
    PROVE  /\ Inside(h, q)
           /\ \A p : (\A rc \in Covered(g, q) : Listed(g.cell[rc], p))
                        => \A rc \in Covered(h, q) : Listed(h.cell[rc], p)
<1>1. /\ g.minX \in Int /\ g.maxX \in Int /\ g.minZ \in Int /\ g.maxZ \in Int
      /\ g.rows \in Nat /\ g.cols \in Nat
      /\ h.minX \in Int /\ h.maxX \in Int /\ h.minZ \in Int /\ h.maxZ \in Int
  BY DEF WellFormed
<1>2. Inside(h, q)
  BY <1>1 DEF Inside, Grown
<1>3. PICK left \in Nat, top \in Nat :
          /\ g.minX = h.minX + Span(left) /\ g.minZ = h.minZ + Span(top)
          /\ \A r \in 0 .. g.rows - 1, c \in 0 .. g.cols - 1 :
                h.cell[<<r + top, c + left>>] = g.cell[<<r, c>>]
  BY DEF Grown
<1>4. Span(left) \in Int /\ Span(top) \in Int
  BY SpanType
<1>5. PICK a \in Int, b \in Int, c \in Int, d \in Int :
          /\ a = q.x - q.ex - g.minX /\ b = q.x + q.ex - g.minX
          /\ c = q.z - q.ez - g.minZ /\ d = q.z + q.ez - g.minZ
          /\ q.x - q.ex - h.minX = a + Span(left) /\ q.x + q.ex - h.minX = b + Span(left)
          /\ q.z - q.ez - h.minZ = c + Span(top) /\ q.z + q.ez - h.minZ = d + Span(top)
  <2>1. PICK x \in Int, z \in Int, ex \in Nat, ez \in Nat, gx \in Int, gz \in Int, hx \in Int, hz \in Int :
            /\ x = q.x /\ z = q.z /\ ex = q.ex /\ ez = q.ez
            /\ gx = g.minX /\ gz = g.minZ /\ hx = h.minX /\ hz = h.minZ
    BY <1>1 DEF Inside
  <2>2. gx = hx + Span(left) /\ gz = hz + Span(top)
    BY <1>3, <2>1
  <2>3. /\ x - ex - gx \in Int /\ x + ex - gx \in Int /\ z - ez - gz \in Int /\ z + ez - gz \in Int
        /\ x - ex - hx = (x - ex - gx) + Span(left) /\ x + ex - hx = (x + ex - gx) + Span(left)
        /\ z - ez - hz = (z - ez - gz) + Span(top) /\ z + ez - hz = (z + ez - gz) + Span(top)
    BY <1>4, <2>2
  <2>. QED  BY <2>1, <2>3
<1>7. /\ CellIndex(a + Span(left)) = CellIndex(a) + left
      /\ CellIndex(b + Span(left)) = CellIndex(b) + left
      /\ CellIndex(c + Span(top)) = CellIndex(c) + top
      /\ CellIndex(d + Span(top)) = CellIndex(d) + top
  BY CellIndexShift
<1>8. /\ Covered(g, q) = (CellIndex(c) .. CellIndex(d)) \X (CellIndex(a) .. CellIndex(b))
      /\ Covered(h, q) = (CellIndex(c) + top .. CellIndex(d) + top) \X (CellIndex(a) + left .. CellIndex(b) + left)
  BY <1>5, <1>7 DEF Covered, Bounds
<1>9. CellIndex(a) \in Int /\ CellIndex(b) \in Int /\ CellIndex(c) \in Int /\ CellIndex(d) \in Int
  BY CellIndexOrder
<1>10. Covered(g, q) \subseteq Cells(g.rows, g.cols)
  BY InsideBounds
<1>11. ASSUME NEW p, \A rc \in Covered(g, q) : Listed(g.cell[rc], p), NEW rc \in Covered(h, q)
       PROVE  Listed(h.cell[rc], p)
  <2>1. PICK r \in CellIndex(c) .. CellIndex(d), k \in CellIndex(a) .. CellIndex(b) : rc = <<r + top, k + left>>
    <3>1. PICK i \in CellIndex(c) + top .. CellIndex(d) + top, j \in CellIndex(a) + left .. CellIndex(b) + left : rc = <<i, j>>
      BY <1>8
    <3>2. i - top \in CellIndex(c) .. CellIndex(d) /\ j - left \in CellIndex(a) .. CellIndex(b)
      BY <1>9
    <3>3. i = (i - top) + top /\ j = (j - left) + left
      BY <1>9
    <3>. QED  BY <3>1, <3>2, <3>3
  <2>2. <<r, k>> \in Covered(g, q) /\ r \in 0 .. g.rows - 1 /\ k \in 0 .. g.cols - 1
    <3>1. <<r, k>> \in Covered(g, q)
      BY <1>8
    <3>2. <<r, k>> \in Cells(g.rows, g.cols)
      BY <1>10, <3>1
    <3>. QED  BY <1>1, <3>1, <3>2, CellsMember
  <2>. QED  BY <1>3, <1>11, <2>1, <2>2
<1>. QED  BY <1>2, <1>11

-----------------------------------------------------------------------------
(* The lists of the cells.                                                 *)

\* Nothing but q gets off the list.
Keeps(old, new, q) == \A p : p # q /\ Listed(old, p) => Listed(new, p)

LEMMA AppendLists ==
    ASSUME NEW S, NEW list \in Seq(S), NEW q \in S
    PROVE  /\ Append(list, q) \in Seq(S) /\ Listed(Append(list, q), q)
           /\ Keeps(list, Append(list, q), q)
<1>1. Append(list, q) \in Seq(S)
  OBVIOUS
<1>2. Len(list) + 1 \in DOMAIN Append(list, q) /\ Append(list, q)[Len(list) + 1] = q
  OBVIOUS
<1>3. \A i \in DOMAIN list : i \in DOMAIN Append(list, q) /\ Append(list, q)[i] = list[i]
  OBVIOUS
<1>. QED  BY <1>1, <1>2, <1>3 DEF Listed, Keeps

\* removeQuadFromCell takes one entry of q off the list and keeps the others.
LEMMA RemoveLists ==
    ASSUME NEW S, NEW list \in Seq(S), NEW q
    PROVE  RemoveQuad(list, q) \in Seq(S) /\ Keeps(list, RemoveQuad(list, q), q)
<1>1. CASE \A i \in DOMAIN list : list[i] # q
  BY <1>1 DEF RemoveQuad, Keeps
<1>2. CASE \E i \in DOMAIN list : list[i] = q
  <2>1. \E i \in DOMAIN list : list[i] = q /\ \A j \in 1 .. i - 1 : list[j] # q
    <3>1. PICK I : I = {i \in DOMAIN list : list[i] = q}
      OBVIOUS
    <3>2. I \in SUBSET Nat /\ I # {}
      BY <1>2, <3>1
    <3>3. PICK i \in I : \A j \in I : i <= j
      BY <3>2, LeastNumber
    <3>4. \A j \in 1 .. i - 1 : j \in DOMAIN list /\ ~ (i <= j)
      BY <3>1
    <3>. QED  BY <3>1, <3>3, <3>4
  <2>2. PICK i : i = CHOOSE k \in DOMAIN list : list[k] = q /\ \A j \in 1 .. k - 1 : list[j] # q
    OBVIOUS
  <2>3. i \in DOMAIN list /\ list[i] = q
    BY <2>1, <2>2
  <2>4. PICK new : new = SubSeq([list EXCEPT ![i] = list[Len(list)]], 1, Len(list) - 1)
    OBVIOUS
  <2>5. RemoveQuad(list, q) = new
    BY <1>2, <2>2, <2>4 DEF RemoveQuad
  <2>6. i \in 1 .. Len(list) /\ Len(list) \in Nat \ {0}
    BY <2>3
  <2>7. /\ new \in Seq(S) /\ DOMAIN new = 1 .. Len(list) - 1
        /\ \A k \in 1 .. Len(list) - 1 : new[k] = IF k = i THEN list[Len(list)] ELSE list[k]
    <3>1. PICK swapped : swapped = [list EXCEPT ![i] = list[Len(list)]]
      OBVIOUS
    <3>2. /\ swapped \in Seq(S) /\ Len(swapped) = Len(list)
          /\ \A k \in 1 .. Len(list) : swapped[k] = IF k = i THEN list[Len(list)] ELSE list[k]
      BY <2>6, <3>1
    <3>. QED  BY <2>4, <2>6, <3>1, <3>2
  <2>8. ASSUME NEW p, p # q, Listed(list, p)
        PROVE  Listed(new, p)
    <3>1. PICK k \in 1 .. Len(list) : list[k] = p
      BY <2>8 DEF Listed
    <3>2. CASE k = Len(list)
      <4>1. i \in DOMAIN new /\ new[i] = p
        BY <2>3, <2>6, <2>7, <2>8, <3>1, <3>2
      <4>. QED  BY <4>1 DEF Listed
    <3>3. CASE k # Len(list)
      <4>1. k \in DOMAIN new /\ new[k] = p
        BY <2>3, <2>6, <2>7, <2>8, <3>1, <3>3
      <4>. QED  BY <4>1 DEF Listed
    <3>. QED  BY <3>2, <3>3
  <2>. QED  BY <2>5, <2>7, <2>8 DEF Keeps
<1>. QED  BY <1>1, <1>2

\* The smaller and the larger of two.
LEMMA MinMax ==
    ASSUME NEW a \in Int, NEW b \in Int
    PROVE  /\ Max({a, b}) = IF a <= b THEN b ELSE a
           /\ Min({a, b}) = IF a <= b THEN a ELSE b
BY DEF Max, Min

\* What a loop over an edge does to a list, put as what it keeps: it loses q
\* at most, and not when it only adds.
Updated(S, list, new, onEdge, expand, q) ==
    /\ new \in Seq(S)
    /\ Keeps(list, new, q)
    /\ (onEdge => expand) /\ Listed(list, q) => Listed(new, q)
    /\ onEdge /\ expand => Listed(new, q)

LEMMA UpdateLists ==
    ASSUME NEW S, NEW list \in Seq(S), NEW q \in S, NEW onEdge, NEW expand
    PROVE  Updated(S, list, UpdateCell(list, onEdge, expand, q), onEdge, expand, q)
<1>1. CASE ~ onEdge
  BY <1>1 DEF UpdateCell, Updated, Keeps
<1>2. CASE onEdge /\ expand
  <2>1. UpdateCell(list, onEdge, expand, q) = Append(list, q)
    BY <1>2 DEF UpdateCell
  <2>2. PICK new : /\ new = Append(list, q)
                   /\ new \in Seq(S) /\ Listed(new, q) /\ Keeps(list, new, q)
    BY AppendLists
  <2>. QED  BY ONLY <2>1, <2>2 DEF Updated
<1>3. CASE onEdge /\ ~ expand
  <2>1. UpdateCell(list, onEdge, expand, q) = RemoveQuad(list, q)
    BY <1>3 DEF UpdateCell
  <2>2. PICK new : new = RemoveQuad(list, q) /\ new \in Seq(S) /\ Keeps(list, new, q)
    BY RemoveLists
  <2>. QED  BY ONLY <1>3, <2>1, <2>2 DEF Updated
<1>. QED  BY <1>1, <1>2, <1>3

\* Row r and column c are among those of bounds b.
Within(b, r, c) == r \in b.minY .. b.maxY /\ c \in b.minX .. b.maxX

\* What following a plane from bounds a to bounds b does to the cell at r, c.
Moved(S, list, new, q, a, b, r, c) ==
    /\ new \in Seq(S)
    /\ Keeps(list, new, q)
    /\ Within(b, r, c) /\ (Within(a, r, c) => Listed(list, q)) => Listed(new, q)

\* Whatever the bounds, mergeQuads leaves the plane listed in all its cells
\* and every other plane where it was.
LEMMA MoveLists ==
    ASSUME NEW S, NEW rows \in Nat, NEW cols \in Nat, NEW cell \in [Cells(rows, cols) -> Seq(S)],
           NEW q \in S, NEW a, NEW b,
           a.minX \in Int, a.maxX \in Int, a.minY \in Int, a.maxY \in Int,
           b.minX \in Int, b.maxX \in Int, b.minY \in Int, b.maxY \in Int
    PROVE  /\ MoveQuad(cell, q, a, b) \in [Cells(rows, cols) -> Seq(S)]
           /\ \A rc \in Cells(rows, cols) :
                 Moved(S, cell[rc], MoveQuad(cell, q, a, b)[rc], q, a, b, rc[1], rc[2])
<1> DEFINE
      left1   == Min({a.minX, b.minX})   left2   == Max({a.minX, b.minX})
      right1  == Min({a.maxX, b.maxX})   right2  == Max({a.maxX, b.maxX})
      top1    == Min({a.minY, b.minY})   top2    == Max({a.minY, b.minY})
      bottom1 == Min({a.maxY, b.maxY})   bottom2 == Max({a.maxY, b.maxY})
      onLeft(r, c)   == r \in top1 .. bottom2 /\ c \in left1 .. left2 - 1
      onRight(r, c)  == r \in top1 .. bottom2 /\ c \in right1 + 1 .. right2
      onTop(r, c)    == r \in top1 .. top2 - 1 /\ c \in left2 .. right1
      onBottom(r, c) == r \in bottom1 + 1 .. bottom2 /\ c \in left2 .. right1
      left(rc)   == UpdateCell(cell[rc], onLeft(rc[1], rc[2]), b.minX < a.minX, q)
      right(rc)  == UpdateCell(left(rc), onRight(rc[1], rc[2]), b.maxX >= a.maxX, q)
      top(rc)    == UpdateCell(right(rc), onTop(rc[1], rc[2]), b.minY < a.minY, q)
      bottom(rc) == UpdateCell(top(rc), onBottom(rc[1], rc[2]), b.maxY >= a.maxY, q)
<1>1. MoveQuad(cell, q, a, b) = [rc \in Cells(rows, cols) |-> bottom(rc)]
  BY DEF MoveQuad
<1>2. /\ left1 = (IF a.minX <= b.minX THEN a.minX ELSE b.minX)
      /\ left2 = (IF a.minX <= b.minX THEN b.minX ELSE a.minX)
      /\ right1 = (IF a.maxX <= b.maxX THEN a.maxX ELSE b.maxX)
      /\ right2 = (IF a.maxX <= b.maxX THEN b.maxX ELSE a.maxX)
      /\ top1 = (IF a.minY <= b.minY THEN a.minY ELSE b.minY)
      /\ top2 = (IF a.minY <= b.minY THEN b.minY ELSE a.minY)
      /\ bottom1 = (IF a.maxY <= b.maxY THEN a.maxY ELSE b.maxY)
      /\ bottom2 = (IF a.maxY <= b.maxY THEN b.maxY ELSE a.maxY)
  BY MinMax
<1> HIDE DEF left1, left2, right1, right2, top1, top2, bottom1, bottom2
<1>3. ASSUME NEW rc \in Cells(rows, cols)
      PROVE  bottom(rc) \in Seq(S) /\ Moved(S, cell[rc], bottom(rc), q, a, b, rc[1], rc[2])
  <2> DEFINE wide == b.maxX >= a.maxX
             high == b.minY < a.minY
             low  == b.maxY >= a.maxY
             far  == b.minX < a.minX
  <2>1. cell[rc] \in Seq(S)
    OBVIOUS
  <2>2. PICK l1 : l1 = left(rc) /\ Updated(S, cell[rc], l1, onLeft(rc[1], rc[2]), far, q)
    BY ONLY <2>1, q \in S, UpdateLists
  <2>3. l1 \in Seq(S)
    BY ONLY <2>2 DEF Updated
  <2>4. PICK l2 : l2 = right(rc) /\ Updated(S, l1, l2, onRight(rc[1], rc[2]), wide, q)
    BY ONLY <2>2, <2>3, q \in S, UpdateLists
  <2>5. l2 \in Seq(S)
    BY ONLY <2>4 DEF Updated
  <2>6. PICK l3 : l3 = top(rc) /\ Updated(S, l2, l3, onTop(rc[1], rc[2]), high, q)
    BY ONLY <2>4, <2>5, q \in S, UpdateLists
  <2>7. l3 \in Seq(S)
    BY ONLY <2>6 DEF Updated
  <2>8. PICK l4 : l4 = bottom(rc) /\ Updated(S, l3, l4, onBottom(rc[1], rc[2]), low, q)
    BY ONLY <2>6, <2>7, q \in S, UpdateLists
  <2>9. l4 \in Seq(S)
    BY ONLY <2>8 DEF Updated
  <2>10. Keeps(cell[rc], l4, q)
    <3>1. Keeps(cell[rc], l1, q) /\ Keeps(l1, l2, q) /\ Keeps(l2, l3, q) /\ Keeps(l3, l4, q)
      BY ONLY <2>2, <2>4, <2>6, <2>8 DEF Updated
    <3>. QED  BY ONLY <3>1, Zenon DEF Keeps
  <2>11. ASSUME Within(b, rc[1], rc[2]), Within(a, rc[1], rc[2]) => Listed(cell[rc], q)
         PROVE  Listed(l4, q)
    <3>1. rc[1] \in b.minY .. b.maxY /\ rc[2] \in b.minX .. b.maxX
      BY <2>11 DEF Within
    <3>2. /\ onLeft(rc[1], rc[2]) => far
          /\ onRight(rc[1], rc[2]) => wide
          /\ onTop(rc[1], rc[2]) => high
          /\ onBottom(rc[1], rc[2]) => low
          /\ \/ onLeft(rc[1], rc[2]) \/ onRight(rc[1], rc[2])
             \/ onTop(rc[1], rc[2]) \/ onBottom(rc[1], rc[2])
             \/ Within(a, rc[1], rc[2])
      <4>1. /\ a.minX \in Int /\ a.maxX \in Int /\ a.minY \in Int /\ a.maxY \in Int
            /\ b.minX \in Int /\ b.maxX \in Int /\ b.minY \in Int /\ b.maxY \in Int
            /\ rc[1] \in Int /\ rc[2] \in Int
        BY <3>1
      <4>2. PICK aMinX \in Int, aMaxX \in Int, aMinY \in Int, aMaxY \in Int,
                 bMinX \in Int, bMaxX \in Int, bMinY \in Int, bMaxY \in Int, r \in Int, c \in Int :
                /\ aMinX = a.minX /\ aMaxX = a.maxX /\ aMinY = a.minY /\ aMaxY = a.maxY
                /\ bMinX = b.minX /\ bMaxX = b.maxX /\ bMinY = b.minY /\ bMaxY = b.maxY
                /\ r = rc[1] /\ c = rc[2]
        BY ONLY <4>1
      <4>3. /\ aMinX \in Int /\ aMaxX \in Int /\ aMinY \in Int /\ aMaxY \in Int
            /\ bMinX \in Int /\ bMaxX \in Int /\ bMinY \in Int /\ bMaxY \in Int
            /\ r \in Int /\ c \in Int
        OBVIOUS
      <4>4. r \in bMinY .. bMaxY /\ c \in bMinX .. bMaxX
        BY ONLY <3>1, <4>2
      <4>5. /\ left1 = (IF aMinX <= bMinX THEN aMinX ELSE bMinX)
            /\ left2 = (IF aMinX <= bMinX THEN bMinX ELSE aMinX)
            /\ right1 = (IF aMaxX <= bMaxX THEN aMaxX ELSE bMaxX)
            /\ right2 = (IF aMaxX <= bMaxX THEN bMaxX ELSE aMaxX)
            /\ top1 = (IF aMinY <= bMinY THEN aMinY ELSE bMinY)
            /\ top2 = (IF aMinY <= bMinY THEN bMinY ELSE aMinY)
            /\ bottom1 = (IF aMaxY <= bMaxY THEN aMaxY ELSE bMaxY)
            /\ bottom2 = (IF aMaxY <= bMaxY THEN bMaxY ELSE aMaxY)
        BY ONLY <1>2, <4>2
      <4>6. /\ left1 \in Int /\ left2 \in Int /\ right1 \in Int /\ right2 \in Int
            /\ top1 \in Int /\ top2 \in Int /\ bottom1 \in Int /\ bottom2 \in Int
        BY ONLY <4>3, <4>5
      <4>7. /\ onLeft(r, c) <=> top1 <= r /\ r <= bottom2 /\ left1 <= c /\ c < left2
            /\ onRight(r, c) <=> top1 <= r /\ r <= bottom2 /\ right1 < c /\ c <= right2
            /\ onTop(r, c) <=> top1 <= r /\ r < top2 /\ left2 <= c /\ c <= right1
            /\ onBottom(r, c) <=> bottom1 < r /\ r <= bottom2 /\ left2 <= c /\ c <= right1
        BY ONLY <4>3, <4>6
      <4>8. /\ far <=> bMinX < aMinX
            /\ wide <=> bMaxX >= aMaxX
            /\ high <=> bMinY < aMinY
            /\ low <=> bMaxY >= aMaxY
            /\ Within(a, r, c) <=> r \in aMinY .. aMaxY /\ c \in aMinX .. aMaxX
        BY ONLY <4>2, <4>3 DEF Within
      <4> HIDE DEF onLeft, onRight, onTop, onBottom, far, wide, high, low
      <4>9. /\ onLeft(r, c) => far
            /\ onRight(r, c) => wide
            /\ onTop(r, c) => high
            /\ onBottom(r, c) => low
            /\ onLeft(r, c) \/ onRight(r, c) \/ onTop(r, c) \/ onBottom(r, c) \/ Within(a, r, c)
        BY ONLY <4>3, <4>4, <4>5, <4>6, <4>7, <4>8
      <4>. QED  BY ONLY <4>2, <4>9
    <3> HIDE DEF onLeft, onRight, onTop, onBottom, far, wide, high, low
    <3>3. Listed(cell[rc], q) \/ onLeft(rc[1], rc[2]) => Listed(l1, q)
      BY ONLY <2>2, <3>2 DEF Updated
    <3>4. Listed(l1, q) \/ onRight(rc[1], rc[2]) => Listed(l2, q)
      BY ONLY <2>4, <3>2 DEF Updated
    <3>5. Listed(l2, q) \/ onTop(rc[1], rc[2]) => Listed(l3, q)
      BY ONLY <2>6, <3>2 DEF Updated
    <3>6. Listed(l3, q) \/ onBottom(rc[1], rc[2]) => Listed(l4, q)
      BY ONLY <2>8, <3>2 DEF Updated
    <3>. QED  BY ONLY <2>11, <3>2, <3>3, <3>4, <3>5, <3>6
  <2>12. Moved(S, cell[rc], l4, q, a, b, rc[1], rc[2])
    BY ONLY <2>9, <2>10, <2>11 DEF Moved
  <2>. QED  BY ONLY <2>8, <2>9, <2>12
<1> HIDE DEF bottom
<1>. QED  BY <1>1, <1>3

-----------------------------------------------------------------------------
(* The invariant.                                                          *)

Quad == [x : Int, y : Int, z : Int, ex : Nat, ez : Nat, flat : BOOLEAN]

\* Plane p, which is quad q, is listed in every cell it lies in.
ListedWhereItLies(g, p, q) == \A rc \in Covered(g, q) : Listed(g.cell[rc], p)

\* An insertion under way has a sample, for which the grid has room, and
\* perhaps a plane of this grid it was merged into.
InsertionInv ==
    pc = "merging" => /\ sample \in Samples /\ Inside(grid, sample)
                      /\ quadToMerge \in 0 .. Len(quads)

GridInv ==
    /\ quads \in Seq(Quad)
    /\ WellFormed(grid, Len(quads))
    /\ \A p \in Planes : Inside(grid, quads[p]) /\ ListedWhereItLies(grid, p, quads[p])
    /\ InsertionInv

\* The first grid.
LEMMA EmptyGrid == WellFormed(NewRegularGrid(1, 1), 0)
<1>1. Size \in Nat /\ Span(1) = Size
  BY SizeType DEF Span
<1>2. PICK c : c = [rc \in Cells(1, 1) |-> <<>>]
  OBVIOUS
<1>3. c \in [Cells(1, 1) -> Seq(1 .. 0)]
  <2>1. <<>> \in Seq(1 .. 0)
    OBVIOUS
  <2>. QED  BY <1>2, <2>1
<1>4. NewRegularGrid(1, 1) = [minX |-> 0, minZ |-> 0, maxX |-> Size, maxZ |-> Size,
                              rows |-> 1, cols |-> 1, cell |-> c]
  BY <1>2 DEF NewRegularGrid
<1>. QED  BY <1>1, <1>3, <1>4 DEF WellFormed

LEMMA InitInv == Init => GridInv
<1> SUFFICES ASSUME Init PROVE GridInv
  OBVIOUS
<1>1. quads \in Seq(Quad) /\ Len(quads) = 0 /\ Planes = {}
  BY DEF Init, Planes
<1>2. WellFormed(grid, Len(quads))
  BY <1>1, EmptyGrid DEF Init
<1>. QED  BY <1>1, <1>2 DEF Init, GridInv, InsertionInv

\* A grid that grows keeps its planes.
LEMMA InsertQuadStep ==
    ASSUME GridInv, NEW s \in Samples, InsertQuad(s)
    PROVE  GridInv'
<1>1. PICK n \in Nat, x1 \in Int, z1 \in Int, x2 \in Int, z2 \in Int :
          /\ n = Len(quads)
          /\ x1 = s.x - s.ex /\ z1 = s.z - s.ez /\ x2 = s.x + s.ex /\ z2 = s.z + s.ez
  <2>1. Len(quads) \in Nat
    BY DEF GridInv
  <2>2. s.x \in Int /\ s.z \in Int /\ s.ex \in Nat /\ s.ez \in Nat
    BY RegularGridAssumption
  <2>3. s.x - s.ex \in Int /\ s.z - s.ez \in Int /\ s.x + s.ex \in Int /\ s.z + s.ez \in Int
    BY <2>2
  <2>. QED  BY ONLY <2>1, <2>3
<1>2. WellFormed(grid, n)
  BY <1>1 DEF GridInv
<1>3. PICK g : g = ExpandToFitPoint(grid, x1, z1)
  OBVIOUS
<1>4. grid' = ExpandToFitPoint(g, x2, z2)
  BY <1>1, <1>3 DEF InsertQuad
<1>5. /\ WellFormed(g, n) /\ Grown(grid, g)
      /\ g.minX <= x1 /\ x1 < g.maxX /\ g.minZ <= z1 /\ z1 < g.maxZ
  BY <1>2, <1>3, Expansion
<1>6. /\ WellFormed(grid', n) /\ Grown(g, grid')
      /\ grid'.minX <= x2 /\ x2 < grid'.maxX /\ grid'.minZ <= z2 /\ z2 < grid'.maxZ
  BY <1>4, <1>5, Expansion
<1>7. quads' = quads /\ Planes' = Planes
  BY DEF InsertQuad, Planes
<1>8. ASSUME NEW p \in Planes
      PROVE  Inside(grid', quads[p]) /\ ListedWhereItLies(grid', p, quads[p])
  <2>1. Inside(grid, quads[p]) /\ ListedWhereItLies(grid, p, quads[p])
    BY DEF GridInv
  <2>2. Inside(g, quads[p]) /\ ListedWhereItLies(g, p, quads[p])
    BY <1>2, <1>5, <2>1, GrownCovers DEF ListedWhereItLies
  <2>. QED  BY <1>5, <1>6, <2>2, GrownCovers DEF ListedWhereItLies
<1>9. Inside(grid', s)
  <2>1. s.x \in Int /\ s.y \in Int /\ s.z \in Int /\ s.ex \in Nat /\ s.ez \in Nat
    BY RegularGridAssumption
  <2>2. /\ g.minX \in Int /\ g.minZ \in Int /\ grid'.minX \in Int /\ grid'.minZ \in Int
        /\ grid'.minX <= g.minX /\ grid'.minZ <= g.minZ
    BY <1>5, <1>6 DEF WellFormed, Grown
  <2>3. grid'.minX <= x1 /\ grid'.minZ <= z1
    BY <1>5, <2>2
  <2>. QED  BY <1>1, <1>6, <2>1, <2>3 DEF Inside
<1>10. InsertionInv'
  BY <1>1, <1>7, <1>9 DEF InsertQuad, InsertionInv, NoQuad
<1>11. quads' \in Seq(Quad) /\ WellFormed(grid', Len(quads'))
  BY <1>1, <1>6, <1>7 DEF GridInv
<1>. QED  BY <1>7, <1>8, <1>10, <1>11 DEF GridInv

LEMMA ModuleInitStep ==
    ASSUME ModuleInit
    PROVE  GridInv'
<1>1. quads' \in Seq(Quad) /\ Len(quads') = 0 /\ Planes' = {}
  BY DEF ModuleInit, Planes
<1>2. WellFormed(grid', Len(quads'))
  BY <1>1, EmptyGrid DEF ModuleInit
<1>. QED  BY <1>1, <1>2 DEF ModuleInit, Return, GridInv, InsertionInv

\* Merging leaves a plane inside the grid.
LEMMA MergedInside ==
    ASSUME NEW n, NEW g, WellFormed(g, n), NEW old \in Quad, Inside(g, old), NEW new, Inside(g, new)
    PROVE  Merged(old, new) \in Quad /\ Inside(g, Merged(old, new))
<1>1. PICK m : m = Merged(old, new)
  OBVIOUS
<1>2. PICK x \in Int, y \in Int, z \in Int, ex \in Nat, ez \in Nat,
           x1 \in Int, y1 \in Int, z1 \in Int, ex1 \in Nat, ez1 \in Nat,
           minX \in Int, maxX \in Int, minZ \in Int, maxZ \in Int :
          /\ x = old.x /\ y = old.y /\ z = old.z /\ ex = old.ex /\ ez = old.ez
          /\ x1 = new.x /\ y1 = new.y /\ z1 = new.z /\ ex1 = new.ex /\ ez1 = new.ez
          /\ minX = g.minX /\ maxX = g.maxX /\ minZ = g.minZ /\ maxZ = g.maxZ
  BY DEF WellFormed, Inside
<1>3. /\ minX <= x - ex /\ x + ex < maxX /\ minZ <= z - ez /\ z + ez < maxZ
      /\ minX <= x1 - ex1 /\ x1 + ex1 < maxX /\ minZ <= z1 - ez1 /\ z1 + ez1 < maxZ
  BY <1>2 DEF Inside
<1>4. /\ Toward(x, x1) \in Int /\ Toward(ex, ex1) \in Nat
      /\ minX <= Toward(x, x1) - Toward(ex, ex1) /\ Toward(x, x1) + Toward(ex, ex1) < maxX
  BY <1>3, MergedCorners
<1>5. /\ Toward(z, z1) \in Int /\ Toward(ez, ez1) \in Nat
      /\ minZ <= Toward(z, z1) - Toward(ez, ez1) /\ Toward(z, z1) + Toward(ez, ez1) < maxZ
  BY <1>3, MergedCorners
<1>6. Toward(y, y1) \in Int
  BY DEF Toward
<1>7. /\ m \in Quad
      /\ m.x = Toward(x, x1) /\ m.y = Toward(y, y1) /\ m.z = Toward(z, z1)
      /\ m.ex = Toward(ex, ex1) /\ m.ez = Toward(ez, ez1)
  BY <1>1, <1>2, <1>4, <1>5, <1>6 DEF Merged, Quad
<1>8. Inside(g, m)
  BY <1>2, <1>4, <1>5, <1>6, <1>7 DEF Inside
<1>. QED  BY <1>1, <1>7, <1>8

\* What the loop of InsertQuad compares is in the grid.
LEMMA MergingInside ==
    ASSUME GridInv, pc = "merging"
    PROVE  Inside(grid, Merging)
<1>1. sample \in Samples /\ Inside(grid, sample) /\ quadToMerge \in 0 .. Len(quads)
  BY DEF GridInv, InsertionInv
<1>2. CASE quadToMerge = NoQuad
  BY <1>1, <1>2 DEF Merging, NewQuad, Inside
<1>3. CASE quadToMerge # NoQuad
  <2>1. quadToMerge \in Planes
    BY <1>1, <1>3 DEF Planes, NoQuad, GridInv
  <2>. QED  BY <1>3, <2>1 DEF Merging, GridInv
<1>. QED  BY <1>2, <1>3

\* Bounds and cells depend on the near corner of the grid only.
LEMMA SameCorner ==
    ASSUME NEW g, NEW h, h.minX = g.minX, h.minZ = g.minZ, NEW q
    PROVE  Bounds(h, q) = Bounds(g, q) /\ Covered(h, q) = Covered(g, q)
BY DEF Bounds, Covered

\* Only the lists of the cells change.
SameShape(g, h) ==
    /\ h.minX = g.minX /\ h.minZ = g.minZ /\ h.maxX = g.maxX /\ h.maxZ = g.maxZ
    /\ h.rows = g.rows /\ h.cols = g.cols

LEMMA NewCells ==
    ASSUME NEW n \in Nat, NEW g, WellFormed(g, n), NEW m \in Nat,
           NEW cell \in [Cells(g.rows, g.cols) -> Seq(1 .. m)],
           NEW h, h = [g EXCEPT !.cell = cell]
    PROVE  WellFormed(h, m) /\ SameShape(g, h) /\ h.cell = cell
BY DEF WellFormed, SameShape

\* A round of the loop moves one plane, which stays inside and listed.
LEMMA MergeQuadsStep ==
    ASSUME GridInv, NEW hit \in Planes, MergeQuads(hit)
    PROVE  GridInv'
<1>1. PICK n \in Nat : n = Len(quads) /\ Planes = 1 .. n
  BY DEF GridInv, Planes
<1>2. WellFormed(grid, n) /\ quads \in Seq(Quad) /\ hit \in 1 .. n
  BY <1>1 DEF GridInv
<1>3. PICK old, new : old = quads[hit] /\ new = Merged(quads[hit], Merging)
  OBVIOUS
<1>4. old \in Quad /\ Inside(grid, old) /\ ListedWhereItLies(grid, hit, old)
  BY <1>1, <1>2, <1>3 DEF GridInv
<1>5. new \in Quad /\ Inside(grid, new)
  <2>1. Inside(grid, Merging)
    BY MergingInside DEF MergeQuads
  <2>. QED  BY <1>2, <1>3, <1>4, <2>1, MergedInside
<1>6. /\ quads' \in Seq(Quad) /\ Len(quads') = n /\ Planes' = 1 .. n
      /\ \A p \in 1 .. n : quads'[p] = IF p = hit THEN new ELSE quads[p]
  BY <1>1, <1>2, <1>3, <1>5 DEF MergeQuads, Planes
<1>7. PICK a, b : a = Bounds(grid, old) /\ b = Bounds(grid, new)
  OBVIOUS
<1>8. /\ a.minX \in Int /\ a.maxX \in Int /\ a.minY \in Int /\ a.maxY \in Int
      /\ b.minX \in Int /\ b.maxX \in Int /\ b.minY \in Int /\ b.maxY \in Int
      /\ Covered(grid, new) \subseteq Cells(grid.rows, grid.cols)
  <2>1. BoundsIn(grid, a)
    BY <1>2, <1>4, <1>7, InsideBounds
  <2>2. BoundsIn(grid, b) /\ Covered(grid, new) \subseteq Cells(grid.rows, grid.cols)
    BY <1>2, <1>5, <1>7, InsideBounds
  <2>. QED  BY <2>1, <2>2 DEF BoundsIn
<1>9. PICK rows \in Nat, cols \in Nat, cell \in {grid.cell}, cell1 \in {MoveQuad(grid.cell, hit, a, b)} :
          /\ rows = grid.rows /\ cols = grid.cols /\ cell = grid.cell
          /\ cell \in [Cells(rows, cols) -> Seq(1 .. n)]
          /\ cell1 = MoveQuad(cell, hit, a, b)
  BY <1>2 DEF WellFormed
<1>10. /\ cell1 \in [Cells(rows, cols) -> Seq(1 .. n)]
       /\ \A rc \in Cells(rows, cols) : Moved(1 .. n, cell[rc], cell1[rc], hit, a, b, rc[1], rc[2])
  BY <1>2, <1>8, <1>9, MoveLists
<1>11. grid' = [grid EXCEPT !.cell = cell1]
  BY <1>3, <1>6, <1>7, <1>9 DEF MergeQuads
<1>12. WellFormed(grid', n) /\ SameShape(grid, grid') /\ grid'.cell = cell1
  BY <1>2, <1>9, <1>10, <1>11, NewCells
<1>13. ASSUME NEW p \in 1 .. n
       PROVE  Inside(grid', quads'[p]) /\ ListedWhereItLies(grid', p, quads'[p])
  <2>1. Inside(grid, quads[p]) /\ ListedWhereItLies(grid, p, quads[p])
    BY <1>1 DEF GridInv
  <2>2. Inside(grid', quads'[p])
    BY <1>5, <1>6, <1>12, <2>1 DEF Inside, SameShape
  <2>3. CASE p = hit
    <3>1. quads'[p] = new /\ Covered(grid', new) = Covered(grid, new)
      BY <1>6, <1>12, <2>3, SameCorner DEF SameShape
    <3>2. ASSUME NEW rc \in Covered(grid, new)
          PROVE  Listed(cell1[rc], hit)
      <4>1. rc \in Cells(rows, cols)
        BY <1>8, <1>9
      <4>2. Moved(1 .. n, cell[rc], cell1[rc], hit, a, b, rc[1], rc[2])
        BY <1>10, <4>1
      <4>3. Within(b, rc[1], rc[2])
        BY <1>7 DEF Covered, Within
      <4>4. Within(a, rc[1], rc[2]) => rc \in Covered(grid, old)
        BY <1>7, <4>1 DEF Covered, Within, Cells
      <4>5. rc \in Covered(grid, old) => Listed(cell[rc], hit)
        BY <1>4, <1>9 DEF ListedWhereItLies
      <4>. QED  BY <4>2, <4>3, <4>4, <4>5 DEF Moved
    <3>. QED  BY <1>12, <2>2, <2>3, <3>1, <3>2 DEF ListedWhereItLies
  <2>4. CASE p # hit
    <3>1. quads'[p] = quads[p] /\ Covered(grid', quads[p]) = Covered(grid, quads[p])
      BY <1>6, <1>12, <2>4, SameCorner DEF SameShape
    <3>2. ASSUME NEW rc \in Covered(grid, quads[p])
          PROVE  Listed(cell1[rc], p)
      <4>1. rc \in Cells(rows, cols)
        BY <1>2, <1>9, <2>1, InsideBounds
      <4>2. Keeps(cell[rc], cell1[rc], hit)
        BY <1>10, <4>1 DEF Moved
      <4>3. Listed(cell[rc], p)
        BY <1>9, <2>1 DEF ListedWhereItLies
      <4>. QED  BY <2>4, <4>2, <4>3 DEF Keeps
    <3>. QED  BY <1>12, <2>2, <3>1, <3>2 DEF ListedWhereItLies
  <2>. QED  BY <2>3, <2>4
<1>14. InsertionInv'
  <2>1. sample \in Samples /\ Inside(grid, sample)
    BY DEF GridInv, InsertionInv, MergeQuads
  <2>2. Inside(grid', sample)
    BY <1>12, <2>1 DEF Inside, SameShape
  <2>3. CASE hit = quadToMerge \/ SameCenter(quads'[hit], Merging)
    BY <2>3 DEF MergeQuads, Return, InsertionInv
  <2>4. CASE ~ (hit = quadToMerge \/ SameCenter(quads'[hit], Merging))
    <3>1. sample' = sample /\ quadToMerge' = hit
      BY <2>4 DEF MergeQuads
    <3>. QED  BY <1>2, <1>6, <2>1, <2>2, <3>1 DEF InsertionInv
  <2>. QED  BY <2>3, <2>4
<1>. QED  BY <1>6, <1>12, <1>13, <1>14 DEF GridInv

\* A sample that becomes a plane is listed in all its cells.
LEMMA EndInsertStep ==
    ASSUME GridInv, EndInsert
    PROVE  GridInv'
<1>1. InsertionInv'
  BY DEF EndInsert, Return, InsertionInv
<1>2. CASE quadToMerge # NoQuad
  BY <1>1, <1>2 DEF EndInsert, GridInv, Planes, WellFormed, Inside, ListedWhereItLies
<1>3. CASE quadToMerge = NoQuad
  <2>1. PICK n \in Nat, q \in Nat, new \in {NewQuad(sample)} :
            n = Len(quads) /\ Planes = 1 .. n /\ q = n + 1 /\ new = NewQuad(sample)
    BY DEF GridInv, Planes
  <2>2. WellFormed(grid, n) /\ quads \in Seq(Quad)
    BY <2>1 DEF GridInv
  <2>3. new \in Quad /\ Inside(grid, new)
    <3>1. sample \in Samples /\ Inside(grid, sample)
      BY DEF GridInv, InsertionInv, EndInsert
    <3>2. new \in Quad
      BY <2>1, <3>1 DEF NewQuad, Quad, Inside
    <3>3. Inside(grid, new)
      BY <2>1, <3>1 DEF NewQuad, Inside
    <3>. QED  BY <3>2, <3>3
  <2>4. /\ quads' \in Seq(Quad) /\ Len(quads') = q /\ Planes' = 1 .. q
        /\ \A p \in 1 .. q : quads'[p] = IF p = q THEN new ELSE quads[p]
    BY <1>3, <2>1, <2>2, <2>3 DEF EndInsert, Planes
  <2>5. PICK rows \in Nat, cols \in Nat, cell \in {grid.cell} :
            /\ rows = grid.rows /\ cols = grid.cols /\ cell = grid.cell
            /\ cell \in [Cells(rows, cols) -> Seq(1 .. n)]
    BY <2>2 DEF WellFormed
  <2>6. PICK cell1 : cell1 = [rc \in Cells(rows, cols) |->
                                 IF rc \in Covered(grid, new) THEN Append(cell[rc], q) ELSE cell[rc]]
    OBVIOUS
  <2>7. grid' = [grid EXCEPT !.cell = cell1]
    BY <1>3, <2>1, <2>5, <2>6 DEF EndInsert
  <2>8. ASSUME NEW rc \in Cells(rows, cols)
        PROVE  /\ cell1[rc] \in Seq(1 .. q)
               /\ rc \in Covered(grid, new) => Listed(cell1[rc], q)
               /\ Keeps(cell[rc], cell1[rc], q)
    <3>1. cell[rc] \in Seq(1 .. q) /\ q \in 1 .. q
      BY <2>1, <2>5
    <3>2. CASE rc \in Covered(grid, new)
      BY <2>6, <3>1, <3>2, AppendLists
    <3>3. CASE rc \notin Covered(grid, new)
      BY <2>6, <3>1, <3>3 DEF Keeps
    <3>. QED  BY <3>2, <3>3
  <2>9. WellFormed(grid', q) /\ SameShape(grid, grid') /\ grid'.cell = cell1
    <3>1. cell1 \in [Cells(rows, cols) -> Seq(1 .. q)]
      BY <2>6, <2>8
    <3>. QED  BY <2>2, <2>5, <2>7, <3>1, NewCells
  <2>10. ASSUME NEW p \in 1 .. q
         PROVE  Inside(grid', quads'[p]) /\ ListedWhereItLies(grid', p, quads'[p])
    <3>1. CASE p = q
      <4>1. quads'[p] = new /\ Covered(grid', new) = Covered(grid, new)
        BY <2>4, <2>9, <3>1, SameCorner DEF SameShape
      <4>2. Inside(grid', new)
        BY <2>3, <2>9 DEF Inside, SameShape
      <4>3. Covered(grid, new) \subseteq Cells(rows, cols)
        BY <2>2, <2>3, <2>5, InsideBounds
      <4>. QED  BY <2>8, <2>9, <3>1, <4>1, <4>2, <4>3 DEF ListedWhereItLies
    <3>2. CASE p # q
      <4>1. p \in 1 .. n
        BY <2>1, <3>2
      <4>2. Inside(grid, quads[p]) /\ ListedWhereItLies(grid, p, quads[p])
        BY <2>1, <4>1 DEF GridInv
      <4>3. quads'[p] = quads[p] /\ Covered(grid', quads[p]) = Covered(grid, quads[p])
        BY <2>4, <2>9, <3>2, SameCorner DEF SameShape
      <4>4. Inside(grid', quads[p])
        BY <2>9, <4>2 DEF Inside, SameShape
      <4>5. Covered(grid, quads[p]) \subseteq Cells(rows, cols)
        BY <2>2, <2>5, <4>2, InsideBounds
      <4>6. ASSUME NEW rc \in Covered(grid, quads[p])
            PROVE  Listed(cell1[rc], p)
        <5>1. Keeps(cell[rc], cell1[rc], q)
          BY <2>8, <4>5
        <5>2. Listed(cell[rc], p)
          BY <2>5, <4>2 DEF ListedWhereItLies
        <5>. QED  BY <3>2, <5>1, <5>2 DEF Keeps
      <4>. QED  BY <2>9, <4>3, <4>4, <4>6 DEF ListedWhereItLies
    <3>. QED  BY <3>1, <3>2
  <2>. QED  BY <1>1, <2>4, <2>9, <2>10 DEF GridInv
<1>. QED  BY <1>2, <1>3

LEMMA GridInvInductive == Spec => []GridInv
<1>1. Init => GridInv
  BY InitInv
<1>2. GridInv /\ [Next]_vars => GridInv'
  <2> SUFFICES ASSUME GridInv, [Next]_vars PROVE GridInv'
    OBVIOUS
  <2>1. ASSUME NEW s \in Samples, InsertQuad(s) PROVE GridInv'
    BY <2>1, InsertQuadStep
  <2>2. ASSUME NEW hit \in Planes, MergeQuads(hit) PROVE GridInv'
    BY <2>2, MergeQuadsStep
  <2>3. CASE EndInsert
    BY <2>3, EndInsertStep
  <2>4. CASE ModuleInit
    BY <2>4, ModuleInitStep
  <2>5. CASE UNCHANGED vars
    <3>1. grid' = grid /\ quads' = quads /\ pc' = pc /\ sample' = sample /\ quadToMerge' = quadToMerge
      BY <2>5 DEF vars
    <3>. QED  BY <3>1 DEF GridInv, InsertionInv, Planes, WellFormed, Inside, ListedWhereItLies
  <2>. QED  BY <2>1, <2>2, <2>3, <2>4, <2>5 DEF Next
<1>. QED  BY <1>1, <1>2, PTL DEF Spec

-----------------------------------------------------------------------------
(* What follows for the answers of the grid.                               *)

LEMMA PlanesInside == GridInv => PlanesAreInGrid
<1> SUFFICES ASSUME GridInv PROVE PlanesAreInGrid
  OBVIOUS
<1>1. WellFormed(grid, Len(quads)) /\ Planes = 1 .. Len(quads)
  BY DEF GridInv, Planes
<1>2. /\ grid.cell \in [Cells(grid.rows, grid.cols) -> Seq(Planes)]
      /\ grid.maxX - grid.minX = grid.cols * Size /\ grid.maxZ - grid.minZ = grid.rows * Size
  BY <1>1 DEF WellFormed, Span
<1>3. \A q \in Planes : Covered(grid, quads[q]) \subseteq Cells(grid.rows, grid.cols)
  BY <1>1, InsideBounds DEF GridInv
<1>. QED  BY <1>2, <1>3 DEF PlanesAreInGrid

LEMMA PlanesCovered == GridInv => CellsCoverPlanes
BY DEF GridInv, ListedWhereItLies, Listed, CellsCoverPlanes

\* A point of a plane, seen from above, lies in a cell that lists the plane.
LEMMA PointListed ==
    ASSUME GridInv, NEW q \in Planes, NEW x \in Int, NEW z \in Int,
           quads[q].x - quads[q].ex <= x, x <= quads[q].x + quads[q].ex,
           quads[q].z - quads[q].ez <= z, z <= quads[q].z + quads[q].ez
    PROVE  LET rc == <<CellIndex(z - grid.minZ), CellIndex(x - grid.minX)>>
           IN  rc \in Covered(grid, quads[q]) /\ rc \in DOMAIN grid.cell /\ Listed(grid.cell[rc], q)
<1>1. PICK k : k = quads[q] /\ Inside(grid, k) /\ ListedWhereItLies(grid, q, k)
  BY DEF GridInv
<1>2. PICK n : n = Len(quads) /\ WellFormed(grid, n)
  BY DEF GridInv
<1>3. PICK x1 \in Int, x2 \in Int, z1 \in Int, z2 \in Int, dx \in Int, dz \in Int :
          /\ x1 = k.x - k.ex - grid.minX /\ x2 = k.x + k.ex - grid.minX
          /\ z1 = k.z - k.ez - grid.minZ /\ z2 = k.z + k.ez - grid.minZ
          /\ dx = x - grid.minX /\ dz = z - grid.minZ
          /\ x1 <= dx /\ dx <= x2 /\ z1 <= dz /\ dz <= z2
  <2>1. PICK cx \in Int, cz \in Int, ex \in Nat, ez \in Nat, minX \in Int, minZ \in Int :
            cx = k.x /\ cz = k.z /\ ex = k.ex /\ ez = k.ez /\ minX = grid.minX /\ minZ = grid.minZ
    BY <1>1, <1>2 DEF Inside, WellFormed
  <2>2. cx - ex <= x /\ x <= cx + ex /\ cz - ez <= z /\ z <= cz + ez
    BY <1>1, <2>1
  <2>3. /\ cx - ex - minX \in Int /\ cx + ex - minX \in Int /\ cz - ez - minZ \in Int /\ cz + ez - minZ \in Int
        /\ x - minX \in Int /\ z - minZ \in Int
        /\ cx - ex - minX <= x - minX /\ x - minX <= cx + ex - minX
        /\ cz - ez - minZ <= z - minZ /\ z - minZ <= cz + ez - minZ
    BY <2>2
  <2>. QED  BY <2>1, <2>3
<1>4. /\ CellIndex(x1) \in Int /\ CellIndex(dx) \in Int /\ CellIndex(x2) \in Int
      /\ CellIndex(x1) <= CellIndex(dx) /\ CellIndex(dx) <= CellIndex(x2)
  BY <1>3, CellIndexOrder
<1>5. /\ CellIndex(z1) \in Int /\ CellIndex(dz) \in Int /\ CellIndex(z2) \in Int
      /\ CellIndex(z1) <= CellIndex(dz) /\ CellIndex(dz) <= CellIndex(z2)
  BY <1>3, CellIndexOrder
<1>6. Covered(grid, k) = (CellIndex(z1) .. CellIndex(z2)) \X (CellIndex(x1) .. CellIndex(x2))
  BY <1>3 DEF Covered, Bounds
<1>7. PICK rc : rc = <<CellIndex(dz), CellIndex(dx)>> /\ rc \in Covered(grid, k)
  <2>1. CellIndex(dz) \in CellIndex(z1) .. CellIndex(z2) /\ CellIndex(dx) \in CellIndex(x1) .. CellIndex(x2)
    BY <1>4, <1>5
  <2>. QED  BY ONLY <1>6, <2>1
<1>8. rc \in DOMAIN grid.cell
  BY <1>1, <1>2, <1>7, InsideBounds DEF WellFormed
<1>9. Listed(grid.cell[rc], q)
  BY <1>1, <1>7 DEF ListedWhereItLies
<1>. QED  BY <1>1, <1>3, <1>7, <1>8, <1>9

\* What a list gives is a plane.
LEMMA ListsPlanes ==
    ASSUME GridInv, NEW rc \in DOMAIN grid.cell
    PROVE  \A i \in DOMAIN grid.cell[rc] : grid.cell[rc][i] \in Planes
BY ONLY GridInv, rc \in DOMAIN grid.cell, SMTT(30) DEF GridInv, WellFormed, Planes

LEMMA AbsType ==
    ASSUME NEW a \in Int, NEW b \in Int
    PROVE  Abs(a - b) \in Nat /\ \A e \in Int : Abs(a - b) <= e => a - e <= b /\ b <= a + e
BY DEF Abs

\* NearestHit returns a quad of the list that the ray hits, and none that is
\* hit is nearer.
LEMMA NearestHitIsNearest ==
    ASSUME NEW n \in Nat, NEW list \in Seq(1 .. n), NEW quad, NEW p, NEW dir, p.y \in Int,
           \A q \in 1 .. n : quad[q].y \in Int
    PROVE  LET hits == {i \in DOMAIN list : VerticalHit(p, dir, quad[list[i]])}
               hit == NearestHit(list, quad, p, dir)
           IN  /\ hits = {} => hit = NoQuad
               /\ hits # {} => /\ hit \in 1 .. n /\ VerticalHit(p, dir, quad[hit])
                               /\ \A j \in hits : Abs(quad[hit].y - p.y) <= Abs(quad[list[j]].y - p.y)
<1> DEFINE hits == {i \in DOMAIN list : VerticalHit(p, dir, quad[list[i]])}
           hit == NearestHit(list, quad, p, dir)
           dist(i) == Abs(quad[list[i]].y - p.y)
           nearest(i) == \A j \in hits : dist(i) < dist(j) \/ (dist(i) = dist(j) /\ i <= j)
<1>1. CASE hits = {}
  BY <1>1 DEF NearestHit
<1>2. CASE hits # {}
  <2>1. \A i \in hits : i \in Nat /\ list[i] \in 1 .. n /\ dist(i) \in Nat
    <3> SUFFICES ASSUME NEW i \in hits PROVE i \in Nat /\ list[i] \in 1 .. n /\ dist(i) \in Nat
      OBVIOUS
    <3>1. i \in Nat /\ list[i] \in 1 .. n
      OBVIOUS
    <3>2. quad[list[i]].y \in Int
      BY <3>1
    <3>. QED  BY <3>1, <3>2, AbsType
  <2>2. hit = list[CHOOSE i \in hits : nearest(i)]
    BY <1>2 DEF NearestHit
  <2>3. \A i \in hits : VerticalHit(p, dir, quad[list[i]])
    OBVIOUS
  <2> HIDE DEF hits, hit, dist
  <2>4. PICK D : D = {dist(i) : i \in hits}
    OBVIOUS
  <2>5. PICK d \in D : \A k \in D : d <= k
    <3>1. D \in SUBSET Nat /\ D # {}
      BY <1>2, <2>1, <2>4
    <3>. QED  BY ONLY <3>1, LeastNumber
  <2>6. PICK N : N = {i \in hits : dist(i) = d}
    OBVIOUS
  <2>7. PICK m \in N : \A k \in N : m <= k
    <3>1. N \in SUBSET Nat /\ N # {}
      BY <2>1, <2>4, <2>6
    <3>. QED  BY ONLY <3>1, LeastNumber
  <2>8. m \in hits /\ nearest(m)
    <3>1. m \in hits /\ dist(m) = d /\ d \in Nat
      BY <2>1, <2>6
    <3>2. ASSUME NEW j \in hits
          PROVE  dist(m) < dist(j) \/ (dist(m) = dist(j) /\ m <= j)
      <4>1. d <= dist(j) /\ dist(j) \in Nat
        BY <2>1, <2>4, <2>5
      <4>2. dist(j) = d => m <= j
        BY <2>6, <2>7
      <4>. QED  BY ONLY <3>1, <4>1, <4>2
    <3>. QED  BY <3>1, <3>2
  <2>9. PICK c : c = CHOOSE i \in hits : nearest(i)
    OBVIOUS
  <2>10. c \in hits /\ nearest(c)
    BY <2>8, <2>9
  <2>11. hit = list[c]
    BY <2>2, <2>9
  <2>12. \A j \in hits : dist(c) <= dist(j)
    BY <2>1, <2>10
  <2>13. \A j \in hits : Abs(quad[hit].y - p.y) <= Abs(quad[list[j]].y - p.y)
    BY <2>11, <2>12 DEF dist
  <2>14. hit \in 1 .. n /\ VerticalHit(p, dir, quad[hit])
    BY <2>1, <2>3, <2>10, <2>11
  <2>. QED  BY <1>2, <2>13, <2>14 DEF hits, hit
<1>. QED  BY <1>1, <1>2

\* A vertical ray from any point looks into one cell and finds the nearest
\* of all planes.
LEMMA RayNearest ==
    ASSUME GridInv, NEW p, p.x \in Int, p.y \in Int, p.z \in Int, NEW dir \in {1, -1}
    PROVE  LET hit == VerticalRay(grid, quads, p, dir)
               all == {q \in Planes : VerticalHit(p, dir, quads[q])}
           IN  /\ hit = NoQuad <=> all = {}
               /\ \A q \in all : /\ hit \in all
                                 /\ Abs(quads[hit].y - p.y) <= Abs(quads[q].y - p.y)
<1> DEFINE hit == VerticalRay(grid, quads, p, dir)
           all == {q \in Planes : VerticalHit(p, dir, quads[q])}
           rc == <<CellIndex(p.z - grid.minZ), CellIndex(p.x - grid.minX)>>
           list == grid.cell[rc]
           hits == {i \in DOMAIN list : VerticalHit(p, dir, quads[list[i]])}
<1>1. p.x \in Int /\ p.y \in Int /\ p.z \in Int
  OBVIOUS
<1>2. PICK n \in Nat : n = Len(quads) /\ Planes = 1 .. n
  BY DEF GridInv, Planes
<1>3. ASSUME NEW q \in Planes
      PROVE  /\ quads[q].x \in Int /\ quads[q].y \in Int /\ quads[q].z \in Int
             /\ quads[q].ex \in Int /\ quads[q].ez \in Int
  BY DEF GridInv, Inside
<1>4. ASSUME NEW q \in all
      PROVE  rc \in DOMAIN grid.cell /\ Listed(list, q)
  <2>1. Abs(quads[q].x - p.x) <= quads[q].ex /\ Abs(quads[q].z - p.z) <= quads[q].ez
    BY DEF VerticalHit
  <2>2. /\ quads[q].x - quads[q].ex <= p.x /\ p.x <= quads[q].x + quads[q].ex
        /\ quads[q].z - quads[q].ez <= p.z /\ p.z <= quads[q].z + quads[q].ez
    BY <1>1, <1>3, <2>1, AbsType
  <2>. QED  BY <1>1, <2>2, PointListed
<1>5. CASE rc \notin DOMAIN grid.cell
  <2>1. hit = NoQuad
    BY <1>5 DEF VerticalRay
  <2>2. all = {}
    BY <1>4, <1>5
  <2>. QED  BY <2>1, <2>2
<1>6. CASE rc \in DOMAIN grid.cell
  <2>1. hit = NearestHit(list, quads, p, dir)
    BY <1>6 DEF VerticalRay
  <2>2. list \in Seq(1 .. n)
    BY <1>2, <1>6 DEF GridInv, WellFormed
  <2>3. /\ hits = {} => hit = NoQuad
        /\ hits # {} => /\ hit \in 1 .. n /\ VerticalHit(p, dir, quads[hit])
                        /\ \A j \in hits : Abs(quads[hit].y - p.y) <= Abs(quads[list[j]].y - p.y)
    <3>1. \A q \in 1 .. n : quads[q].y \in Int
      BY <1>2, <1>3
    <3>2. p.y \in Int
      BY <1>1
    <3> HIDE DEF list
    <3>. QED  BY ONLY <2>1, <2>2, <3>1, <3>2, n \in Nat, NearestHitIsNearest
  <2>4. \A q \in all : \E i \in hits : list[i] = q
    BY <1>4 DEF Listed
  <2> HIDE DEF hit, list, hits
  <2>5. hits # {} => hit \in all
    BY <1>2, <2>3
  <2>6. hits # {} => hit # NoQuad
    BY <2>3 DEF NoQuad
  <2>7. ASSUME NEW q \in all
        PROVE  hit \in all /\ Abs(quads[hit].y - p.y) <= Abs(quads[q].y - p.y)
    BY <2>3, <2>4, <2>5
  <2>8. hit = NoQuad <=> all = {}
    BY <2>3, <2>4, <2>5, <2>6
  <2>. QED  BY <2>7, <2>8 DEF hit
<1>. QED  BY <1>5, <1>6

LEMMA GroundNearest == GridInv => GroundIsNearest
<1>1. \A p \in Samples : p.x \in Int /\ p.y \in Int /\ p.z \in Int
  BY RegularGridAssumption
<1>. QED  BY <1>1, RayNearest DEF GroundIsNearest

LEMMA RegionComplete == GridInv => RegionIsComplete
<1> SUFFICES ASSUME GridInv, NEW p \in Samples, p.x >= grid.minX, p.z >= grid.minZ,
                    NEW q \in Planes,
                    quads[q].x + quads[q].ex >= p.x, quads[q].z + quads[q].ez >= p.z
             PROVE  q \in GetRegion(grid, p.x, p.z, FarAway, FarAway)
  BY DEF RegionIsComplete
<1>1. PICK k : k = quads[q] /\ Inside(grid, k)
  BY DEF GridInv
<1>2. PICK minX \in Int, maxX \in Int, minZ \in Int, maxZ \in Int, rows \in Nat, cols \in Nat,
           px \in Int, pz \in Int, x \in Int, z \in Int :
          /\ minX = grid.minX /\ maxX = grid.maxX /\ minZ = grid.minZ /\ maxZ = grid.maxZ
          /\ rows = grid.rows /\ cols = grid.cols /\ px = p.x /\ pz = p.z
          /\ x = k.x + k.ex /\ z = k.z + k.ez
  <2>1. /\ grid.minX \in Int /\ grid.maxX \in Int /\ grid.minZ \in Int /\ grid.maxZ \in Int
        /\ grid.rows \in Nat /\ grid.cols \in Nat
    BY DEF GridInv, WellFormed
  <2>2. p.x \in Int /\ p.z \in Int
    BY RegularGridAssumption
  <2>3. k.x + k.ex \in Int /\ k.z + k.ez \in Int
    BY <1>1 DEF Inside
  <2>. QED  BY ONLY <2>1, <2>2, <2>3
<1>3. /\ maxX - minX = Span(cols) /\ maxZ - minZ = Span(rows) /\ maxX >= Size /\ maxZ >= Size
      /\ Size \in Nat
      /\ minX <= px /\ px <= x /\ x < maxX /\ minZ <= pz /\ pz <= z /\ z < maxZ
  <2>1. /\ grid.maxX - grid.minX = Span(grid.cols) /\ grid.maxZ - grid.minZ = Span(grid.rows)
        /\ grid.maxX >= Size /\ grid.maxZ >= Size
    BY DEF GridInv, WellFormed
  <2>2. x < maxX /\ z < maxZ
    BY <1>1, <1>2 DEF Inside
  <2>3. minX <= px /\ px <= x /\ minZ <= pz /\ pz <= z
    BY <1>1, <1>2
  <2>. QED  BY <1>2, <2>1, <2>2, <2>3, SizeType
<1>4. PICK far \in Int : far = FarAway /\ maxX <= far /\ maxZ <= far
  BY <1>2, <1>3 DEF FarAway
<1>5. /\ Max({px, minX}) = px /\ Max({pz, minZ}) = pz
      /\ Min({far, maxX}) = maxX /\ Min({far, maxZ}) = maxZ
  <2>1. /\ Max({px, minX}) = IF px <= minX THEN minX ELSE px
        /\ Max({pz, minZ}) = IF pz <= minZ THEN minZ ELSE pz
    BY MinMax
  <2>2. /\ Min({far, maxX}) = IF far <= maxX THEN far ELSE maxX
        /\ Min({far, maxZ}) = IF far <= maxZ THEN far ELSE maxZ
    BY MinMax
  <2>. QED  BY <1>3, <1>4, <2>1, <2>2
<1>6. CellIndex(maxX - minX) - 1 = cols - 1 /\ CellIndex(maxZ - minZ) - 1 = rows - 1
  BY <1>3, CellIndexBounds
<1>7. PICK r, c : r = CellIndex(z - minZ) /\ c = CellIndex(x - minX)
  OBVIOUS
<1>8. /\ <<r, c>> \in DOMAIN grid.cell /\ Listed(grid.cell[<<r, c>>], q)
  <2>1. /\ k.x - k.ex <= x /\ x <= k.x + k.ex
        /\ k.z - k.ez <= z /\ z <= k.z + k.ez
    BY <1>1, <1>2 DEF Inside
  <2>. QED  BY <1>1, <1>2, <1>7, <2>1, PointListed
<1>9. /\ r \in CellIndex(pz - minZ) .. rows - 1
      /\ c \in CellIndex(px - minX) .. cols - 1
  <2>1. r \in 0 .. rows - 1 /\ c \in 0 .. cols - 1
    BY <1>2, <1>8, CellsMember DEF GridInv, WellFormed
  <2>2. CellIndex(pz - minZ) \in Int /\ CellIndex(pz - minZ) <= r
    BY <1>3, <1>7, CellIndexOrder
  <2>3. CellIndex(px - minX) \in Int /\ CellIndex(px - minX) <= c
    BY <1>3, <1>7, CellIndexOrder
  <2>. QED  BY <2>1, <2>2, <2>3
<1>10. GetRegion(grid, p.x, p.z, FarAway, FarAway) =
          UNION {{grid.cell[rc][i] : i \in DOMAIN grid.cell[rc]} :
                    rc \in (CellIndex(pz - minZ) .. rows - 1) \X (CellIndex(px - minX) .. cols - 1)}
  <2>1. FarAway >= grid.minX /\ FarAway >= grid.minZ
    BY <1>2, <1>3, <1>4
  <2>. QED  BY <1>2, <1>4, <1>5, <1>6, <2>1 DEF GetRegion
<1>. QED  BY <1>8, <1>9, <1>10 DEF Listed

-----------------------------------------------------------------------------
(* How the loop of InsertQuad goes on.                                     *)

\* The plane at hand has an area; from the second round on, it lies over the
\* center of another one at its height.
LevelInv ==
    /\ rounds \in Nat
    /\ pc = "idle" => quadToMerge = NoQuad
    /\ quadToMerge = NoQuad => rounds = 0
    /\ quadToMerge # NoQuad => quadToMerge \in Planes /\ quads[quadToMerge].flat
    /\ LoopStaysLevel

\* A plane that covers the center of another one still does after it went a
\* fifth of the way to it, whatever the extents and the rounding.
LEMMA MergedCovers ==
    ASSUME NEW a \in Int, NEW b \in Int, NEW c \in Nat, NEW d \in Nat, Abs(a - b) <= c
    PROVE  Abs(Toward(a, b) - b) <= Toward(c, d)
BY DEF Abs, Toward

LEMMA MergedHit ==
    ASSUME NEW old \in Quad, NEW new \in Quad, old.flat, old.y = new.y,
           Abs(old.x - new.x) <= old.ex, Abs(old.z - new.z) <= old.ez
    PROVE  Merged(old, new).y = new.y /\ VerticalHit(new, 1, Merged(old, new))
<1>1. PICK x \in Int, y \in Int, z \in Int, ex \in Nat, ez \in Nat,
           x1 \in Int, z1 \in Int, ex1 \in Nat, ez1 \in Nat :
          /\ x = old.x /\ y = old.y /\ z = old.z /\ ex = old.ex /\ ez = old.ez
          /\ x1 = new.x /\ y = new.y /\ z1 = new.z /\ ex1 = new.ex /\ ez1 = new.ez
  BY DEF Quad
<1>2. Abs(Toward(x, x1) - x1) <= Toward(ex, ex1) /\ Abs(Toward(z, z1) - z1) <= Toward(ez, ez1)
  BY <1>1, MergedCovers
<1>3. Toward(y, y) = y /\ 1 * (y - y) \in 0 .. RayReach
  BY RegularGridAssumption DEF Toward, RayReach, MergeEpsilon
<1>4. PICK m : m = Merged(old, new)
  OBVIOUS
<1>5. /\ m.x = Toward(x, x1) /\ m.y = Toward(y, y) /\ m.z = Toward(z, z1)
      /\ m.ex = Toward(ex, ex1) /\ m.ez = Toward(ez, ez1) /\ m.flat
  BY <1>1, <1>4 DEF Merged, Quad
<1>. QED  BY <1>1, <1>2, <1>3, <1>4, <1>5 DEF VerticalHit

\* What the loop merges with is a plane its rays hit; when it goes on with a
\* plane, which its own rays meet, one of exactly the same height.
LEMMA ClosestIsHit ==
    ASSUME GridInv, pc = "merging", ClosestPlane # NoQuad
    PROVE  /\ ClosestPlane \in Planes
           /\ \E dir \in {1, -1} : VerticalHit(Merging, dir, quads[ClosestPlane])
           /\ quadToMerge \in Planes /\ quads[quadToMerge].flat
              => quads[ClosestPlane].y = Merging.y
<1> DEFINE up == VerticalRay(grid, quads, Merging, 1)
           down == VerticalRay(grid, quads, Merging, -1)
           hits(dir) == {q \in Planes : VerticalHit(Merging, dir, quads[q])}
<1>1. /\ Merging.x \in Int /\ Merging.y \in Int /\ Merging.z \in Int
      /\ Merging.ex \in Nat /\ Merging.ez \in Nat
  BY MergingInside DEF Inside
<1>2. \A q \in Planes : quads[q].y \in Int
  BY DEF GridInv, Inside
<1>3. /\ up = NoQuad <=> hits(1) = {}
      /\ \A q \in hits(1) : up \in hits(1) /\ Abs(quads[up].y - Merging.y) <= Abs(quads[q].y - Merging.y)
  BY <1>1, RayNearest
<1>4. /\ down = NoQuad <=> hits(-1) = {}
      /\ \A q \in hits(-1) : down \in hits(-1)
  BY <1>1, RayNearest
<1>5. ClosestPlane = IF up = NoQuad \/ (down # NoQuad /\ Abs(quads[down].y - Merging.y) < Abs(quads[up].y - Merging.y))
                     THEN down ELSE up
  BY DEF ClosestPlane
<1>6. /\ up # NoQuad => up \in hits(1)
      /\ down # NoQuad => down \in hits(-1)
  BY <1>3, <1>4
<1>7. ClosestPlane \in Planes /\ \E dir \in {1, -1} : VerticalHit(Merging, dir, quads[ClosestPlane])
  <2> HIDE DEF up, down
  <2>1. ClosestPlane = up \/ ClosestPlane = down
    BY <1>5
  <2>. QED  BY <1>6, <2>1
<1>8. ASSUME quadToMerge \in Planes, quads[quadToMerge].flat
      PROVE  quads[ClosestPlane].y = Merging.y
  <2>1. Merging = quads[quadToMerge]
    BY <1>8 DEF Merging, Planes, NoQuad, GridInv
  <2>2. Merging.flat /\ 1 * (Merging.y - Merging.y) \in 0 .. RayReach
    BY <1>1, <1>8, <2>1, RegularGridAssumption DEF RayReach, MergeEpsilon
  <2>3. VerticalHit(Merging, 1, Merging)
    BY <1>1, <2>2 DEF VerticalHit, Abs
  <2>4. quadToMerge \in hits(1)
    BY <1>8, <2>1, <2>3
  <2>5. up \in hits(1) /\ Abs(quads[up].y - Merging.y) <= Abs(Merging.y - Merging.y)
    BY <1>3, <2>1, <2>4
  <2> HIDE DEF up, down, hits
  <2>6. up # NoQuad /\ up \in Planes /\ quads[up].y \in Int
    BY <1>2, <1>3, <2>5 DEF hits
  <2>7. quads[up].y = Merging.y
    BY <1>1, <2>5, <2>6 DEF Abs
  <2>8. down # NoQuad => quads[down].y \in Int
    BY <1>2, <1>6 DEF hits
  <2>9. ~ (down # NoQuad /\ Abs(quads[down].y - Merging.y) < Abs(quads[up].y - Merging.y))
    BY <1>1, <2>7, <2>8 DEF Abs
  <2>. QED  BY <1>5, <2>6, <2>7, <2>9
<1>. QED  BY <1>7, <1>8

LEMMA LevelMerge ==
    ASSUME GridInv, LevelInv, NEW hit \in Planes, MergeQuads(hit)
    PROVE  LevelInv'
<1>1. CASE hit = quadToMerge \/ SameCenter(quads'[hit], Merging)
  BY <1>1 DEF MergeQuads, Return, LevelInv, LoopStaysLevel
<1>2. CASE ~ (hit = quadToMerge \/ SameCenter(quads'[hit], Merging))
  <2>1. /\ pc = "merging" /\ hit = ClosestPlane /\ ClosestPlane # NoQuad
        /\ pc' = pc /\ quadToMerge' = hit /\ rounds' = rounds + 1
        /\ quads' = [quads EXCEPT ![hit] = Merged(quads[hit], Merging)]
    BY <1>2 DEF MergeQuads, NeedsMerging
  <2>2. PICK n \in Nat : n = Len(quads) /\ Planes = 1 .. n /\ quads \in Seq(Quad)
    BY DEF GridInv, Planes
  <2>3. /\ quads[hit] \in Quad /\ Planes' = Planes
        /\ quads'[hit] = Merged(quads[hit], Merging)
        /\ \A p \in Planes \ {hit} : quads'[p] = quads[p]
    BY <2>1, <2>2 DEF Planes
  <2>4. PICK dir \in {1, -1} : VerticalHit(Merging, dir, quads[hit])
    BY <2>1, ClosestIsHit
  <2>5. /\ quads[hit].flat
        /\ Abs(quads[hit].x - Merging.x) <= quads[hit].ex /\ Abs(quads[hit].z - Merging.z) <= quads[hit].ez
    BY <2>4 DEF VerticalHit
  <2>6. quads'[hit].flat
    BY <2>3, <2>5 DEF Merged, Quad
  <2>7. hit # NoQuad /\ rounds \in Nat
    BY <2>2 DEF NoQuad, LevelInv
  <2>8. LoopStaysLevel'
    <3>1. CASE quadToMerge = NoQuad
      BY <2>1, <3>1 DEF LevelInv, LoopStaysLevel
    <3>2. CASE quadToMerge # NoQuad
      <4>1. quadToMerge \in Planes \ {hit} /\ quads[quadToMerge].flat /\ Merging = quads[quadToMerge]
        BY <1>2, <3>2 DEF LevelInv, Merging
      <4>2. quads[hit].y = Merging.y /\ Merging \in Quad
        BY <2>1, <2>2, <4>1, ClosestIsHit
      <4>3. /\ Merged(quads[hit], Merging).y = Merging.y
            /\ VerticalHit(Merging, 1, Merged(quads[hit], Merging))
        BY <2>3, <2>5, <4>2, MergedHit
      <4>4. quads'[quadToMerge] = Merging
        BY <2>3, <4>1
      <4>. QED  BY <2>1, <2>3, <4>1, <4>3, <4>4 DEF LoopStaysLevel
    <3>. QED  BY <3>1, <3>2
  <2>. QED  BY <2>1, <2>3, <2>6, <2>7, <2>8 DEF LevelInv
<1>. QED  BY <1>1, <1>2

LEMMA LevelInvInductive == Spec => []LevelInv
<1>1. Init => LevelInv
  BY DEF Init, LevelInv, LoopStaysLevel
<1>2. GridInv /\ LevelInv /\ [Next]_vars => LevelInv'
  <2> SUFFICES ASSUME GridInv, LevelInv, [Next]_vars PROVE LevelInv'
    OBVIOUS
  <2>1. ASSUME NEW s \in Samples, InsertQuad(s) PROVE LevelInv'
    BY <2>1 DEF InsertQuad, LevelInv, LoopStaysLevel
  <2>2. ASSUME NEW hit \in Planes, MergeQuads(hit) PROVE LevelInv'
    BY <2>2, LevelMerge
  <2>3. CASE EndInsert
    BY <2>3 DEF EndInsert, Return, LevelInv, LoopStaysLevel
  <2>4. CASE ModuleInit
    BY <2>4 DEF ModuleInit, Return, LevelInv, LoopStaysLevel
  <2>5. CASE UNCHANGED vars
    BY <2>5 DEF vars, LevelInv, LoopStaysLevel, Planes
  <2>. QED  BY <2>1, <2>2, <2>3, <2>4, <2>5 DEF Next
<1>. QED  BY <1>1, <1>2, GridInvInductive, PTL DEF Spec

-----------------------------------------------------------------------------
(* Rays that are not vertical.                                             *)

\* Between a and b, t parts of s on the way.
LEMMA OnTheWay ==
    ASSUME NEW a \in Nat, NEW b \in Nat, NEW top \in Nat, a <= top, b <= top,
           NEW s \in Nat \ {0}, NEW t \in Nat, t <= s
    PROVE  a * s + (b - a) * t \in Nat /\ a * s + (b - a) * t <= top * s
<1>1. PICK u \in Nat : u = s - t
  OBVIOUS
<1>2. a * s + (b - a) * t = a * u + b * t /\ top * s = top * u + top * t
  BY <1>1
<1>3. /\ a * u \in Nat /\ b * t \in Nat /\ top * u \in Nat /\ top * t \in Nat
      /\ a * u <= top * u /\ b * t <= top * t
  <2>1. \A m, n, k \in Nat : m <= n => m * k \in Nat /\ n * k \in Nat /\ m * k <= n * k
    OBVIOUS
  <2>. QED  BY <2>1
<1>. QED  BY <1>2, <1>3

\* A point of the grid lies in one of its n rows, whatever the scale.
LEMMA ScaledIndex ==
    ASSUME NEW n \in Nat, NEW s \in Nat \ {0}, NEW d \in Nat, d <= (Span(n) - 1) * s
    PROVE  d \div (Size * s) \in 0 .. n - 1
<1>1. PICK w : w = Size * s
  OBVIOUS
<1>2. w \in Nat \ {0} /\ Span(n) \in Int
  BY <1>1, SizeType, SpanType
<1>3. n * w = Span(n) * s /\ (Span(n) - 1) * s = Span(n) * s - s
  <2>1. PICK z \in Nat \ {0} : z = Size
    BY SizeType
  <2>2. n * (z * s) = (n * z) * s /\ (n * z - 1) * s = (n * z) * s - s
    OBVIOUS
  <2>. QED  BY <1>1, <2>1, <2>2 DEF Span
<1>4. PICK q \in Int : q = d \div w /\ q * w <= d /\ d < q * w + w
  <2>1. d \div w \in Int /\ (d \div w) * w <= d /\ d < (d \div w) * w + w
    BY <1>2, Division, d \in Int
  <2>. QED  BY <2>1
<1>5. n * w \in Int /\ d < n * w
  BY <1>2, <1>3
<1>6. q * w \in Int /\ (n <= q => n * w <= q * w)
  BY <1>2, ProductOrder
<1>7. q < n
  BY <1>4, <1>5, <1>6
<1>8. q < 0 => q * w + w <= 0 * w
  BY <1>2, ProductOrder
<1>9. q >= 0
  BY <1>2, <1>4, <1>6, <1>8
<1>. QED  BY <1>1, <1>4, <1>7, <1>9

\* The points of a ray at which RegularGrid.IntersectQuad looks.
LEMMA StepsOnTheWay ==
    ASSUME NEW scale \in Nat \ {0}, NEW step \in Nat \ {0}, NEW k \in 0 .. (scale - 0) \div step
    PROVE  0 + k * step \in Nat /\ 0 + k * step <= scale
<1>1. PICK m \in Int : m = (scale - 0) \div step /\ m * step <= scale
  <2>1. scale \in Int /\ scale - 0 = scale
    OBVIOUS
  <2>. QED  BY <2>1, Division
<1>2. k \in Nat /\ k <= m
  BY <1>1
<1>3. k * step \in Nat /\ k * step <= m * step /\ m * step \in Int
  BY <1>2, ProductOrder
<1>. QED  BY <1>1, <1>3

\* Where a ray from one point of a grid to another looks: in rows the grid
\* has, and in the column that has the number of the row.
LEMMA RayRows ==
    ASSUME NEW n, NEW g, WellFormed(g, n), NEW x \in Int, NEW z \in Int, NEW dx \in Int, NEW dz \in Int,
           g.minX <= x, x < g.maxX, g.minZ <= z, z < g.maxZ,
           g.minZ <= z + dz, z + dz < g.maxZ, dx # 0 \/ dz # 0,
           NEW rc \in RayCells(g, x, z, dx, dz)
    PROVE  \E r \in 0 .. g.rows - 1 : rc = <<r, r>>
<1>1. PICK minX \in Int, maxX \in Int, minZ \in Int, maxZ \in Int, rows \in Nat :
          /\ minX = g.minX /\ maxX = g.maxX /\ minZ = g.minZ /\ maxZ = g.maxZ /\ rows = g.rows
          /\ maxZ - minZ = Span(rows) /\ Span(rows) \in Int
  BY SpanType DEF WellFormed
<1>2. PICK ax \in Nat, az \in Nat : ax = Abs(dx) /\ az = Abs(dz) /\ (ax > 0 \/ az > 0)
  BY DEF Abs
<1>3. PICK sx \in Nat \ {0}, sz \in Nat \ {0}, big \in Nat \ {0} :
          /\ sx = Max({1, ax}) /\ sz = Max({1, az}) /\ big = Max({ax, az})
          /\ big <= sx \/ big <= sz
  <2>1. /\ Max({1, ax}) = IF 1 <= ax THEN ax ELSE 1
        /\ Max({1, az}) = IF 1 <= az THEN az ELSE 1
        /\ Max({ax, az}) = IF ax <= az THEN az ELSE ax
    BY MinMax
  <2>. QED  BY <1>2, <2>1
<1>4. PICK scale \in Nat \ {0} : scale = sx * sz /\ big <= scale
  <2>1. sx * sz \in Nat /\ sx <= sx * sz /\ sz <= sx * sz
    OBVIOUS
  <2>. QED  BY <1>3, <2>1
<1>5. PICK step \in Nat \ {0} : step = (Size * scale) \div big
  <2>1. PICK w \in Nat : w = Size * scale /\ scale <= w
    <3>1. PICK y \in Nat \ {0} : y = Size
      BY SizeType
    <3>2. y * scale \in Nat /\ scale <= y * scale
      OBVIOUS
    <3>. QED  BY <3>1, <3>2
  <2>2. big <= w
    BY <1>4, <2>1
  <2>3. w \div big \in Nat \ {0}
    <3>1. w \div big \in Int /\ (w \div big) * big <= w /\ w < (w \div big) * big + big
      BY Division
    <3>2. (w \div big) <= 0 => (w \div big) * big <= 0 * big
      BY <3>1, ProductOrder
    <3>. QED  BY <2>2, <3>1, <3>2
  <2>. QED  BY <2>1, <2>3
<1>6. Entry(x, dx, minX, maxX, scale) = 0 /\ Entry(z, dz, minZ, maxZ, scale) = 0
  BY <1>1 DEF Entry
<1>7. Max({0, 0}) = 0
  BY MinMax
<1> DEFINE row(t) == ((z - minZ) * scale + dz * t) \div (Size * scale)
           cell(t) == <<row(t), IF row(t) < 0 THEN rows - 1 ELSE Min({row(t), rows - 1})>>
<1>8. PICK t \in Nat : t <= scale /\ rc = cell(t)
  <2>1. rc \in {cell(t) : t \in IF dz = 0 /\ z \in {minZ, maxZ} THEN {0}
                                ELSE {0 + k * step : k \in 0 .. (scale - 0) \div step}}
    <3>1. Max({1, Abs(dx)}) * Max({1, Abs(dz)}) = scale /\ Max({Abs(dx), Abs(dz)}) = big
      BY <1>2, <1>3, <1>4
    <3>2. Entry(x, dx, g.minX, g.maxX, scale) = 0 /\ Entry(z, dz, g.minZ, g.maxZ, scale) = 0
      BY <1>1, <1>6
    <3>3. /\ g.minZ = minZ /\ g.maxZ = maxZ /\ g.rows = rows /\ (Size * scale) \div big = step
          /\ ~ (0 < 0) /\ rc \in RayCells(g, x, z, dx, dz)
      BY <1>1, <1>5
    <3>. QED  BY ONLY <1>7, <3>1, <3>2, <3>3 DEF RayCells
  <2> HIDE DEF cell
  <2>2. PICK t \in IF dz = 0 /\ z \in {minZ, maxZ} THEN {0}
                   ELSE {0 + k * step : k \in 0 .. (scale - 0) \div step} : rc = cell(t)
    BY ONLY <2>1
  <2>3. t = 0 \/ \E k \in 0 .. (scale - 0) \div step : t = 0 + k * step
    BY ONLY <2>2
  <2>4. t \in Nat /\ t <= scale
    BY <2>3, StepsOnTheWay
  <2>. QED  BY <2>2, <2>4
<1>9. row(t) \in 0 .. rows - 1
  <2>1. PICK a \in Nat, b \in Nat, top \in Nat :
            a = z - minZ /\ b = z + dz - minZ /\ top = Span(rows) - 1 /\ a <= top /\ b <= top
    BY <1>1
  <2>2. dz = b - a
    BY <2>1
  <2>3. PICK d \in Nat : d = (z - minZ) * scale + dz * t /\ d <= (Span(rows) - 1) * scale
    <3>1. a * scale + (b - a) * t \in Nat /\ a * scale + (b - a) * t <= top * scale
      BY <1>8, <2>1, OnTheWay
    <3>. QED  BY <2>1, <2>2, <3>1
  <2>. QED  BY <2>3, ScaledIndex
<1>10. Min({row(t), rows - 1}) = row(t) /\ ~ (row(t) < 0)
  <2>1. PICK r \in Int, m \in Int : r = row(t) /\ m = rows - 1 /\ r <= m /\ r >= 0
    BY <1>9
  <2>2. Min({r, m}) = r
    BY <2>1, MinMax
  <2>. QED  BY <2>1, <2>2
<1>. QED  BY <1>1, <1>8, <1>9, <1>10

LEMMA RaysInside == GridInv /\ grid.rows <= grid.cols => RaysStayInGrid
<1> SUFFICES ASSUME GridInv, grid.rows <= grid.cols, NEW p \in Samples, NEW q \in Samples,
                    p.x \in grid.minX .. grid.maxX - 1, p.z \in grid.minZ .. grid.maxZ - 1,
                    q.x \in grid.minX .. grid.maxX - 1, q.z \in grid.minZ .. grid.maxZ - 1,
                    <<p.x, p.z>> # <<q.x, q.z>>,
                    NEW rc \in RayCells(grid, p.x, p.z, q.x - p.x, q.z - p.z)
             PROVE  rc \in DOMAIN grid.cell
  BY DEF RaysStayInGrid
<1>1. /\ WellFormed(grid, Len(quads)) /\ grid.rows \in Nat /\ grid.cols \in Nat
      /\ DOMAIN grid.cell = Cells(grid.rows, grid.cols)
      /\ grid.minX \in Int /\ grid.maxX \in Int /\ grid.minZ \in Int /\ grid.maxZ \in Int
  BY DEF GridInv, WellFormed
<1>2. PICK x \in Int, z \in Int, x1 \in Int, z1 \in Int, dx \in Int, dz \in Int :
          /\ x = p.x /\ z = p.z /\ x1 = q.x /\ z1 = q.z /\ dx = q.x - p.x /\ dz = q.z - p.z
          /\ dx = x1 - x /\ dz = z1 - z
  <2>1. p.x \in Int /\ p.z \in Int /\ q.x \in Int /\ q.z \in Int
    BY <1>1
  <2>2. q.x - p.x \in Int /\ q.z - p.z \in Int
    BY <2>1
  <2>. QED  BY <2>1, <2>2
<1>3. /\ grid.minX <= x /\ x < grid.maxX /\ grid.minZ <= z /\ z < grid.maxZ
      /\ grid.minZ <= z + dz /\ z + dz < grid.maxZ /\ (dx # 0 \/ dz # 0)
  <2>1. PICK minX \in Int, maxX \in Int, minZ \in Int, maxZ \in Int :
            minX = grid.minX /\ maxX = grid.maxX /\ minZ = grid.minZ /\ maxZ = grid.maxZ
    BY <1>1
  <2>2. x \in minX .. maxX - 1 /\ z \in minZ .. maxZ - 1 /\ z1 \in minZ .. maxZ - 1 /\ z + dz = z1
    BY <1>2, <2>1
  <2>3. /\ minX <= x /\ x < maxX /\ minZ <= z /\ z < maxZ /\ minZ <= z1 /\ z1 < maxZ
    BY <2>2
  <2>4. dx # 0 \/ dz # 0
    BY <1>2
  <2>. QED  BY <2>1, <2>2, <2>3, <2>4
<1>4. PICK r \in 0 .. grid.rows - 1 : rc = <<r, r>>
  <2>1. rc \in RayCells(grid, x, z, dx, dz)
    BY <1>2
  <2>. QED  BY ONLY <1>1, <1>3, <2>1, x \in Int, z \in Int, dx \in Int, dz \in Int, RayRows, SMTT(30)
<1>5. r \in 0 .. grid.cols - 1
  BY <1>1
<1>. QED  BY <1>1, <1>4, <1>5, CellsMember

-----------------------------------------------------------------------------
(* Theorems.                                                               *)

\* However planes are inserted, merged and moved (InsertQuad, mergeQuads),
\* and the grid is grown or replaced, it has the cells its corners promise
\* and every plane lies inside: the edge loops never leave the grid.
THEOREM PlanesStayInGrid == Spec => []PlanesAreInGrid
BY GridInvInductive, PlanesInside, PTL

\* The four edge loops of mergeQuads leave every plane listed in all the
\* cells it lies in, for any movement of the plane.
THEOREM CellsStayCovered == Spec => []CellsCoverPlanes
BY GridInvInductive, PlanesCovered, PTL

\* A vertical ray (RegularGrid.IntersectQuad) looks into one cell only and
\* still finds the nearest of all planes.
THEOREM GroundStaysNearest == Spec => []GroundIsNearest
BY GridInvInductive, GroundNearest, PTL

\* GetRegion up to the far corner returns every plane of the region.
THEOREM RegionStaysComplete == Spec => []RegionIsComplete
BY GridInvInductive, RegionComplete, PTL

\* The merging loop of InsertQuad goes on after its first merge only between
\* planes of exactly one height that lie over each other's centers, for any
\* sequence of samples and rounding included: a plane that is at hand finds
\* itself with its own ray, so nothing at another height comes closer.
THEOREM LoopStaysAtOneHeight == Spec => []LoopStaysLevel
<1>1. LevelInv => LoopStaysLevel
  BY DEF LevelInv
<1>. QED  BY <1>1, LevelInvInductive, PTL

\* Only the first merge of a sample (mergeQuads) moves a plane up or down: in
\* the later rounds of the loop planes slide and resize at their height.
LaterMergesKeepHeight ==
    rounds > 0 => \A hit \in Planes : MergeQuads(hit) => quads'[hit].y = quads[hit].y

\* Every step of the specification is such a step: once mergeQuads has moved a
\* plane toward the sample, the plane it goes on with is at the height of those
\* it meets.
THEOREM HeightMovesOnce == Spec => [][LaterMergesKeepHeight]_vars
<1>1. ASSUME GridInv, LevelInv, rounds > 0, NEW hit \in Planes, MergeQuads(hit)
      PROVE  quads'[hit].y = quads[hit].y
  <2>1. quadToMerge \in Planes /\ quads[quadToMerge].flat /\ Merging = quads[quadToMerge]
    BY <1>1 DEF LevelInv, Merging
  <2>2. /\ pc = "merging" /\ hit = ClosestPlane /\ ClosestPlane # NoQuad
        /\ quads' = [quads EXCEPT ![hit] = Merged(quads[hit], Merging)]
    BY <1>1 DEF MergeQuads, NeedsMerging
  <2>3. quads \in Seq(Quad) /\ quads[hit] \in Quad /\ quads'[hit] = Merged(quads[hit], Merging)
    BY <1>1, <2>2 DEF GridInv, Planes
  <2>4. quads[hit].y = Merging.y /\ quads[hit].y \in Int
    BY <1>1, <2>1, <2>2, <2>3, ClosestIsHit DEF Quad
  <2>5. Merged(quads[hit], Merging).y = Toward(quads[hit].y, Merging.y)
    BY <2>3 DEF Merged, Quad
  <2>6. Toward(quads[hit].y, quads[hit].y) = quads[hit].y
    BY <2>4 DEF Toward
  <2>. QED  BY <2>3, <2>4, <2>5, <2>6
<1>2. GridInv /\ LevelInv /\ [Next]_vars => [LaterMergesKeepHeight]_vars
  BY <1>1 DEF LaterMergesKeepHeight
<1>. QED  BY <1>2, GridInvInductive, LevelInvInductive, PTL DEF Spec

\* A ray from a point of the grid to another only looks into cells of the
\* grid (RegularGrid.IntersectQuad) as long as the grid has no more rows than
\* columns; with more rows a run finds one that does not, because the column
\* is clamped to the number of rows.  Nothing is said of a ray that ends
\* beyond the grid, whose row is not clamped.
THEOREM InnerRaysStayInWideGrids == Spec => [](grid.rows <= grid.cols => RaysStayInGrid)
BY GridInvInductive, RaysInside, PTL

=============================================================================
