----------------------------- MODULE GridLayout -----------------------------
(***************************************************************************)
(* Which LED of a strip a coordinate of the grid stands for:               *)
(* L/include/loopp/led/GridLayout.hpp, for every grid that a strip can     *)
(* have, whose LEDs a uint16_t counts.  A layout is a record of the        *)
(* members of GridLayout; all arithmetic is cut to 16 bits.                *)
(***************************************************************************)
EXTENDS Integers, TLAPS

U16(n) == n % 65536

Layout(g) ==
  /\ g.width \in Nat /\ 0 < g.width /\ g.width < 65536
  /\ g.height \in Nat /\ 0 < g.height /\ g.height < 65536
  /\ g.origin \in {"TopLeft", "BottomLeft", "TopRight", "BottomRight"}
  /\ g.direction \in {"Horizontal", "Vertical"}
  /\ g.sequence \in {"Progressive", "ZigZag"}

(* The stride that the constructors choose. *)
DefaultStride(g) == g.stride = IF g.direction = "Horizontal" THEN g.width ELSE g.height

-----------------------------------------------------------------------------
(* convert_xy. *)

Accepts(g, x, y) == x <= g.width /\ y <= g.height

Mirrored(n, size) == U16(size - n - 1)

FromLeft(g, x) == IF g.origin \in {"TopRight", "BottomRight"} THEN Mirrored(x, g.width) ELSE x
FromTop(g, y) == IF g.origin \in {"BottomLeft", "BottomRight"} THEN Mirrored(y, g.height) ELSE y

(* Every other row, or column, of a zigzag runs back. *)
Column(g, x, y) ==
  IF g.sequence = "ZigZag" /\ g.direction = "Horizontal" /\ y % 2 = 1 THEN Mirrored(x, g.width) ELSE x
Row(g, x, y) ==
  IF g.sequence = "ZigZag" /\ g.direction = "Vertical" /\ x % 2 = 1 THEN Mirrored(y, g.height) ELSE y

Along(g, x, y) ==
  IF g.direction = "Vertical" THEN U16(Column(g, x, y) * g.stride + Row(g, x, y))
  ELSE U16(Row(g, x, y) * g.stride + Column(g, x, y))

convert_xy(g, x, y) == Along(g, FromLeft(g, x), FromTop(g, y))

-----------------------------------------------------------------------------
(* Lines of n cells each. *)

LEMMA LineBound ==
  ASSUME NEW n \in Nat, NEW lines \in Nat, NEW l \in 0..lines - 1, NEW c \in 0..n - 1
  PROVE  /\ l * n \in Nat /\ lines * n \in Nat
         /\ l * n + c < lines * n
<1>1. \A a, b \in Nat : a <= b => a * n <= b * n /\ a * n \in Nat /\ b * n \in Nat
  BY SMT
<1>2. l \in Nat /\ l + 1 \in Nat /\ l + 1 <= lines
  OBVIOUS
<1>3. (l + 1) * n = l * n + n
  BY <1>2, SMT
<1>4. (l + 1) * n <= lines * n
  BY <1>1, <1>2
<1>5. l * n \in Nat /\ lines * n \in Nat
  BY <1>1, <1>2
<1> DEFINE a == l * n
           b == lines * n
<1> HIDE DEF a, b
<1>6. QED
  BY <1>3, <1>4, <1>5 DEF a, b

LEMMA LineUnique ==
  ASSUME NEW n \in Nat, NEW l \in Nat, NEW m \in Nat, NEW c \in 0..n - 1, NEW d \in 0..n - 1,
         l * n + c = m * n + d
  PROVE  l = m /\ c = d
<1>1. l * n \in Nat /\ m * n \in Nat
  BY SMT
<1>2. ASSUME l < m PROVE FALSE
  <2>1. l \in 0..m - 1
    BY <1>2
  <2>2. l * n + c < m * n
    BY <2>1, LineBound
  <2>3. QED
    BY <1>1, <2>2
<1>3. ASSUME m < l PROVE FALSE
  <2>1. m \in 0..l - 1
    BY <1>3
  <2>2. m * n + d < l * n
    BY <2>1, LineBound
  <2>3. QED
    BY <1>1, <2>2
<1>4. l = m
  BY <1>2, <1>3
<1>5. QED
  BY <1>1, <1>4

(* A mirror image is within the same size, and different for each. *)
LEMMA MirroredTypes ==
  ASSUME NEW size \in Nat, size < 65536, NEW n \in 0..size - 1
  PROVE  Mirrored(n, size) = size - n - 1 /\ Mirrored(n, size) \in 0..size - 1
<1>1. size - n - 1 \in Nat /\ size - n - 1 < 65536 /\ size - n - 1 < size
  BY SMT
<1>2. Mirrored(n, size) = size - n - 1
  BY <1>1, SMT DEF Mirrored, U16
<1>3. QED
  BY <1>1, <1>2, SMT

-----------------------------------------------------------------------------

(* The strip has an LED for each cell, and its number is a uint16_t. *)
Grid(g) == Layout(g) /\ DefaultStride(g) /\ g.width * g.height <= 65535

LEMMA FromTypes ==
  ASSUME NEW g, Layout(g), NEW x \in 0..g.width - 1, NEW y \in 0..g.height - 1
  PROVE  /\ FromLeft(g, x) \in 0..g.width - 1 /\ FromTop(g, y) \in 0..g.height - 1
         /\ Column(g, x, y) \in 0..g.width - 1 /\ Row(g, x, y) \in 0..g.height - 1
<1>1. g.width \in Nat /\ g.height \in Nat /\ g.width < 65536 /\ g.height < 65536
  BY DEF Layout
<1>2. Mirrored(x, g.width) \in 0..g.width - 1 /\ Mirrored(y, g.height) \in 0..g.height - 1
  BY <1>1, MirroredTypes
<1>3. QED
  BY <1>2 DEF FromLeft, FromTop, Column, Row

(* Along a grid nothing is cut. *)
LEMMA AlongTypes ==
  ASSUME NEW g, Grid(g), NEW x \in 0..g.width - 1, NEW y \in 0..g.height - 1
  PROVE  /\ Along(g, x, y) \in 0..g.width * g.height - 1
         /\ g.direction = "Vertical" => Along(g, x, y) = Column(g, x, y) * g.height + Row(g, x, y)
         /\ g.direction # "Vertical" => Along(g, x, y) = Row(g, x, y) * g.width + Column(g, x, y)
<1>1. /\ Layout(g) /\ g.width \in Nat /\ g.height \in Nat /\ g.width < 65536 /\ g.height < 65536
      /\ g.direction # "Vertical" => g.direction = "Horizontal"
  BY DEF Grid, Layout
<1>2. Column(g, x, y) \in 0..g.width - 1 /\ Row(g, x, y) \in 0..g.height - 1
  BY <1>1, FromTypes
<1>3. \A n \in Nat : n < 65536 => U16(n) = n
  BY SMT DEF U16
<1> DEFINE size == g.width * g.height
<1>4. size \in Nat /\ size = g.height * g.width /\ size <= 65535
  BY <1>1, SMT DEF Grid
<1> HIDE DEF size
<1>5. CASE g.direction = "Vertical"
  <2> DEFINE a == Column(g, x, y) * g.height + Row(g, x, y)
  <2>1. Along(g, x, y) = U16(a)
    BY <1>5 DEF Along, Grid, DefaultStride
  <2>2. Column(g, x, y) * g.height \in Nat /\ a < size
    BY <1>1, <1>2, LineBound DEF size
  <2>3. a \in 0..size - 1
    BY <1>2, <1>4, <2>2
  <2> HIDE DEF a
  <2>4. U16(a) = a
    BY <1>3, <1>4, <2>3
  <2>5. QED
    BY <1>5, <2>1, <2>3, <2>4 DEF a, size
<1>6. CASE g.direction # "Vertical"
  <2> DEFINE a == Row(g, x, y) * g.width + Column(g, x, y)
  <2>1. Along(g, x, y) = U16(a)
    BY <1>1, <1>6 DEF Along, Grid, DefaultStride
  <2>2. Row(g, x, y) * g.width \in Nat /\ a < size
    <3>1. Row(g, x, y) * g.width \in Nat /\ a < g.height * g.width
      BY <1>1, <1>2, LineBound
    <3>2. QED
      BY <1>4, <3>1
  <2>3. a \in 0..size - 1
    BY <1>2, <1>4, <2>2
  <2> HIDE DEF a
  <2>4. U16(a) = a
    BY <1>3, <1>4, <2>3
  <2>5. QED
    BY <1>6, <2>1, <2>3, <2>4 DEF a, size
<1>7. QED
  BY <1>5, <1>6

(* Every cell of the grid is an LED of the strip (convert_xy), from any    *)
(* corner, in either direction, and whether or not every other line runs   *)
(* back.                                                                   *)
THEOREM CellsAreLeds ==
  ASSUME NEW g, Grid(g), NEW x \in 0..g.width - 1, NEW y \in 0..g.height - 1
  PROVE  convert_xy(g, x, y) \in 0..g.width * g.height - 1
<1>1. Layout(g)
  BY DEF Grid
<1>2. QED
  BY <1>1, FromTypes, AlongTypes DEF convert_xy

(* No two cells are the same LED (convert_xy). *)
THEOREM CellsDiffer ==
  ASSUME NEW g, Grid(g),
         NEW x \in 0..g.width - 1, NEW y \in 0..g.height - 1,
         NEW u \in 0..g.width - 1, NEW v \in 0..g.height - 1,
         convert_xy(g, x, y) = convert_xy(g, u, v)
  PROVE  x = u /\ y = v
<1>1. /\ Layout(g) /\ g.width \in Nat /\ g.height \in Nat /\ g.width < 65536 /\ g.height < 65536
      /\ g.direction # "Vertical" => g.direction = "Horizontal"
  BY DEF Grid, Layout
<1> DEFINE a == FromLeft(g, x)
           b == FromTop(g, y)
           c == FromLeft(g, u)
           d == FromTop(g, v)
<1>2. /\ a \in 0..g.width - 1 /\ b \in 0..g.height - 1
      /\ c \in 0..g.width - 1 /\ d \in 0..g.height - 1
  BY <1>1, FromTypes
<1>3. Along(g, a, b) = Along(g, c, d)
  BY DEF convert_xy
<1>4. a = c => x = u
  BY <1>1, MirroredTypes DEF FromLeft
<1>5. b = d => y = v
  BY <1>1, MirroredTypes DEF FromTop
<1> HIDE DEF a, b, c, d
<1>6. Column(g, a, b) = Column(g, c, d) /\ Row(g, a, b) = Row(g, c, d)
  <2> DEFINE j == Column(g, a, b)
             k == Row(g, a, b)
             m == Column(g, c, d)
             n == Row(g, c, d)
  <2>1. /\ j \in 0..g.width - 1 /\ k \in 0..g.height - 1
        /\ m \in 0..g.width - 1 /\ n \in 0..g.height - 1
    BY <1>1, <1>2, FromTypes
  <2>2. g.direction = "Vertical" => j * g.height + k = m * g.height + n
    BY <1>2, <1>3, AlongTypes
  <2>3. g.direction # "Vertical" => k * g.width + j = n * g.width + m
    BY <1>2, <1>3, AlongTypes
  <2> HIDE DEF j, k, m, n
  <2>4. j \in Nat /\ k \in Nat /\ m \in Nat /\ n \in Nat
    BY <2>1
  <2>5. CASE g.direction = "Vertical"
    <3> DEFINE h == g.height
    <3>1. j * h + k = m * h + n
      BY <2>2, <2>5
    <3>2. h \in Nat /\ k \in 0..h - 1 /\ n \in 0..h - 1
      BY <1>1, <2>1
    <3> HIDE DEF h
    <3>3. j = m /\ k = n
      BY <2>4, <3>1, <3>2, LineUnique
    <3>4. QED
      BY <3>3 DEF j, k, m, n
  <2>6. CASE g.direction # "Vertical"
    <3> DEFINE w == g.width
    <3>1. k * w + j = n * w + m
      BY <2>3, <2>6
    <3>2. w \in Nat /\ j \in 0..w - 1 /\ m \in 0..w - 1
      BY <1>1, <2>1
    <3> HIDE DEF w
    <3>3. k = n /\ j = m
      BY <2>4, <3>1, <3>2, LineUnique
    <3>4. QED
      BY <3>3 DEF j, k, m, n
  <2>7. QED
    BY <2>5, <2>6
<1>7. a = c /\ b = d
  <2> DEFINE Left(n) == Mirrored(n, g.width)
             Up(n) == Mirrored(n, g.height)
  <2>0. /\ Left(a) = Left(c) => a = c
        /\ Up(b) = Up(d) => b = d
    BY <1>1, <1>2, MirroredTypes
  <2>1. CASE g.sequence = "ZigZag" /\ g.direction = "Horizontal"
    <3>1. b = d
      BY <1>6, <2>1 DEF Row
    <3>2. a = c \/ Left(a) = Left(c)
      BY <1>6, <2>1, <3>1 DEF Column
    <3>3. QED
      BY <2>0, <3>1, <3>2
  <2>2. CASE g.sequence = "ZigZag" /\ g.direction = "Vertical"
    <3>1. a = c
      BY <1>6, <2>2 DEF Column
    <3>2. b = d \/ Up(b) = Up(d)
      BY <1>6, <2>2, <3>1 DEF Row
    <3>3. QED
      BY <2>0, <3>1, <3>2
  <2>3. CASE g.sequence # "ZigZag"
    BY <1>6, <2>3 DEF Row, Column
  <2>4. QED
    BY <1>1, <2>1, <2>2, <2>3
<1>8. QED
  BY <1>4, <1>5, <1>7

(* The check of the coordinates lets one too many pass: in the simplest    *)
(* layout the cell behind the end of a line is the first of the next       *)
(* (convert_xy, line 88).                                                  *)
THEOREM EdgeIsAnotherLed ==
  ASSUME NEW g, Grid(g), g.origin = "TopLeft", g.direction = "Horizontal",
         g.sequence = "Progressive", NEW y \in 0..g.height - 2
  PROVE  /\ Accepts(g, g.width, y)
         /\ convert_xy(g, g.width, y) = convert_xy(g, 0, y + 1)
<1>1. Layout(g) /\ g.width \in Nat /\ g.height \in Nat /\ g.width < 65536 /\ g.height < 65536
  BY DEF Grid, Layout
<1>2. \A x, z : convert_xy(g, x, z) = U16(z * g.width + x)
  BY DEF convert_xy, Along, FromLeft, FromTop, Column, Row, Grid, DefaultStride
<1>3. y * g.width + g.width = (y + 1) * g.width + 0
  BY <1>1, SMT
<1>4. QED
  BY <1>1, <1>2, <1>3 DEF Accepts

=============================================================================
