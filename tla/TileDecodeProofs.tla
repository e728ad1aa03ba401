--------------------------- MODULE TileDecodeProofs ----------------------------
(***************************************************************************)
(* Lemmas about the decode of one tile: what its loops fold to, the grid   *)
(* of tiles, the plan and the buffers a worker decodes in, and the cells   *)
(* of a table.  They rest on no state of a read, and the proofs about the  *)
(* reads that share the decode between workers cite them.                  *)
(***************************************************************************)
EXTENDS TileDecode, FiniteSetTheorems, SequenceTheorems, WellFoundedInduction, TLAPS

-----------------------------------------------------------------------------
(* Naturals. *)

\* A set of naturals that is not empty has a least member.
LEMMA LeastMember ==
    ASSUME NEW S \in SUBSET Nat, S # {}
    PROVE  \E m \in S : \A j \in S : m <= j
<1> DEFINE R == {ss \in Nat \X Nat : ss[1] < ss[2]}
<1>1. IsWellFoundedOn(R, Nat)
  BY NatLessThanWellFounded, Zenon DEF OpToRel
<1>2. \E m \in S : \A k \in S : ~(<<k, m>> \in R)
  BY <1>1, WFMin
<1>3. \A k, m \in S : ~(<<k, m>> \in R) => m <= k
  OBVIOUS
<1> QED BY <1>2, <1>3

-----------------------------------------------------------------------------
(* Sequences. *)

IsSeq(s) == Len(s) \in Nat /\ s = [i \in 1..Len(s) |-> s[i]]

SeqCells(s) == {s[i] : i \in 1..Len(s)}

\* A sequence whose cells are all of a set is one over the set.
LEMMA SeqOfCells ==
    ASSUME NEW s, IsSeq(s), NEW S, \A i \in 1..Len(s) : s[i] \in S
    PROVE  s \in Seq(S)
BY SeqDef DEF IsSeq

\* A sequence over any set is one.
LEMMA SeqIsSeq ==
    ASSUME NEW S, NEW s \in Seq(S)
    PROVE  IsSeq(s)
BY LenProperties DEF IsSeq

\* A function on 1..n is a sequence of n cells.
LEMMA FunIsSeq ==
    ASSUME NEW n \in Nat, NEW s, s = [i \in 1..n |-> s[i]]
    PROVE  IsSeq(s) /\ Len(s) = n
<1>1. s \in [1..n -> {s[i] : i \in 1..n}]
  OBVIOUS
<1>2. s \in Seq({s[i] : i \in 1..n})
  BY <1>1, SeqDef
<1>3. Len(s) = n
  BY <1>1, <1>2, LenProperties
<1> QED BY <1>3 DEF IsSeq

\* u is s and t after it.
Joins(s, t, u) ==
    /\ IsSeq(u)
    /\ Len(u) = Len(s) + Len(t)
    /\ \A i \in 1..Len(s) : u[i] = s[i]
    /\ \A i \in 1..Len(t) : u[Len(s) + i] = t[i]

\* The cells of a concatenation.
LEMMA ConcatIsSeq ==
    ASSUME NEW s, NEW t, IsSeq(s), IsSeq(t)
    PROVE  Joins(s, t, s \o t)
<1> DEFINE S == SeqCells(s) \cup SeqCells(t)
<1>1. s \in Seq(S) /\ t \in Seq(S)
  BY SeqOfCells DEF SeqCells
<1> HIDE DEF S
<1>2. s \o t \in Seq(S)
  BY <1>1, ConcatProperties
<1>3. IsSeq(s \o t)
  BY <1>2, SeqIsSeq
<1>4. Len(s) \in Nat /\ Len(t) \in Nat
  BY DEF IsSeq
<1>5. /\ Len(s \o t) = Len(s) + Len(t)
      /\ \A i \in 1..Len(s) + Len(t) :
            (s \o t)[i] = IF i <= Len(s) THEN s[i] ELSE t[i - Len(s)]
  BY <1>1, ConcatProperties
<1> QED BY <1>3, <1>4, <1>5 DEF Joins

\* u is the cells of s from m to n.
Cuts(s, m, n, u) ==
    /\ IsSeq(u)
    /\ Len(u) = n - m + 1
    /\ \A i \in 1..n - m + 1 : u[i] = s[m + i - 1]

\* The cells of an append.
LEMMA AppendIsSeq ==
    ASSUME NEW s, IsSeq(s), NEW e
    PROVE  /\ IsSeq(Append(s, e))
           /\ Len(Append(s, e)) = Len(s) + 1
           /\ Append(s, e)[Len(s) + 1] = e
           /\ \A i \in 1..Len(s) : Append(s, e)[i] = s[i]
<1> DEFINE S == SeqCells(s) \cup {e}
<1>1. s \in Seq(S) /\ e \in S
  BY SeqOfCells DEF SeqCells
<1> HIDE DEF S
<1>2. /\ Append(s, e) \in Seq(S)
      /\ Len(Append(s, e)) = Len(s) + 1
      /\ Append(s, e)[Len(s) + 1] = e
      /\ \A i \in 1..Len(s) : Append(s, e)[i] = s[i]
  BY <1>1, AppendProperties
<1> QED BY <1>2, SeqIsSeq

-----------------------------------------------------------------------------
(* Numbers. *)

LEMMA CeilDivIs ==
    ASSUME NEW a \in Nat, NEW b \in Nat \ {0}
    PROVE  CeilDiv(a, b) \in Nat /\ (a > 0 => CeilDiv(a, b) > 0)
<1>1. a + b - 1 \in Nat
  OBVIOUS
<1>2. (a + b - 1) \div b \in Nat
  BY <1>1
<1>3. a > 0 => (a + b - 1) \div b > 0
  <2>1. SUFFICES ASSUME a > 0 PROVE (a + b - 1) \div b >= 1
    BY <1>2
  <2>2. a + b - 1 = b * ((a + b - 1) \div b) + ((a + b - 1) % b) /\ (a + b - 1) % b < b
    BY <1>1
  <2>3. CASE (a + b - 1) \div b = 0
    <3>1. b * ((a + b - 1) \div b) = 0
      BY <2>3
    <3> QED BY <2>1, <2>2, <3>1
  <2> QED BY <2>3, <1>2
<1> QED BY <1>2, <1>3 DEF CeilDiv

-----------------------------------------------------------------------------
(* The product of a shape. *)

Multiply(c, a, x) == a * x

\* All factors up to the k-th are of c, and so is their product.
ProductOf(c, s, k, a) == a \in c

Products == INSTANCE Folding WITH Step <- Multiply, Kept <- ProductOf

LEMMA ProductsOrdered == Products!WellOrdered
BY LeastMember DEF Products!WellOrdered

\* A product of naturals is a natural, and one of naturals above zero is above zero.
LEMMA ProductIs ==
    ASSUME NEW C \in {Nat, Nat \ {0}}, NEW n \in Nat, NEW s, DOMAIN s = 1..n,
           \A i \in 1..n : s[i] \in C
    PROVE  Product(s) \in C
<1>1. Product(s) = Products!Fold(C, 1, s)
  BY DEF Product, Products!Fold, Multiply, FoldLeft, MapThenFoldSet, Max,
         Products!Greatest
<1>2. \A a, b \in C : a * b \in C
  OBVIOUS
<1>3. ProductOf(C, s, 0, 1)
  BY DEF ProductOf
<1>4. \A k \in 1..n : \A a : ProductOf(C, s, k - 1, a) => ProductOf(C, s, k, Multiply(C, a, s[k]))
  BY <1>2 DEF ProductOf, Multiply
<1>5. ProductOf(C, s, n, Products!Fold(C, 1, s))
  BY <1>3, <1>4, ProductsOrdered, Products!FoldKeeps
<1> QED BY <1>1, <1>5 DEF ProductOf

\* The extents of a grid of tiles: the axes, and the tiles of each.
IsGrid(g) ==
    /\ g.dims \in Seq(Nat)
    /\ g.tiles \in Seq(Nat \ {0})
    /\ Len(g.tiles) = Len(g.dims)
    /\ g = NewGeometry(g.dims, g.tiles)

LEMMA GridAxes ==
    ASSUME NEW g, IsGrid(g)
    PROVE  /\ g.ntilesAxis \in Seq(Nat) /\ Len(g.ntilesAxis) = Len(g.dims)
           /\ \A i \in 1..Len(g.dims) : g.dims[i] > 0 => g.ntilesAxis[i] > 0
           /\ g.maxTile \in Seq(Nat) /\ Len(g.maxTile) = Len(g.dims)
<1> DEFINE n == Len(g.dims)
<1>1. n \in Nat /\ DOMAIN g.dims = 1..n
  BY DEF IsGrid
<1>2. \A i \in 1..n : g.dims[i] \in Nat /\ g.tiles[i] \in Nat \ {0}
  BY DEF IsGrid
<1>3. /\ g.ntilesAxis = [i \in 1..n |-> CeilDiv(g.dims[i], g.tiles[i])]
      /\ g.maxTile = [i \in 1..n |-> MinOf(g.dims[i], g.tiles[i])]
  BY <1>1 DEF IsGrid, NewGeometry
<1>4. \A i \in 1..n : MinOf(g.dims[i], g.tiles[i]) \in Nat
  BY <1>2 DEF MinOf
<1>5. \A i \in 1..n : CeilDiv(g.dims[i], g.tiles[i]) \in Nat
  BY <1>2, CeilDivIs
<1>6. \A i \in 1..n : g.dims[i] > 0 => CeilDiv(g.dims[i], g.tiles[i]) > 0
  BY <1>2, CeilDivIs
<1> QED BY <1>1, <1>3, <1>4, <1>5, <1>6

LEMMA NTilesIs ==
    ASSUME NEW g, IsGrid(g)
    PROVE  NTiles(g) \in Nat
<1>1. Len(g.ntilesAxis) \in Nat /\ DOMAIN g.ntilesAxis = 1..Len(g.ntilesAxis)
      /\ \A i \in 1..Len(g.ntilesAxis) : g.ntilesAxis[i] \in Nat
  BY GridAxes
<1>2. Product(g.ntilesAxis) \in Nat
  BY <1>1, ProductIs
<1> QED BY <1>2 DEF NTiles

LEMMA MaxTileElementsIs ==
    ASSUME NEW g, IsGrid(g)
    PROVE  MaxTileElements(g) \in Nat
<1>1. Len(g.maxTile) \in Nat /\ DOMAIN g.maxTile = 1..Len(g.maxTile)
      /\ \A i \in 1..Len(g.maxTile) : g.maxTile[i] \in Nat
  BY GridAxes
<1>2. Product(g.maxTile) \in Nat
  BY <1>1, ProductIs
<1> QED BY <1>2 DEF MaxTileElements

\* The bands of an image, and of one without an empty axis at least a tile in each.
LEMMA BandsAre ==
    ASSUME NEW g, IsGrid(g)
    PROVE  /\ BandsOf(g).count \in Nat
           /\ BandsOf(g).tiles \in Nat
           /\ (\A i \in 1..Len(g.dims) : g.dims[i] > 0) => BandsOf(g).tiles > 0
<1> DEFINE n == Len(g.dims)
           rest == SubSeq(g.ntilesAxis, 1, n - 1)
<1>1. /\ n \in Nat /\ g.ntilesAxis \in Seq(Nat) /\ Len(g.ntilesAxis) = n
      /\ \A i \in 1..n : g.dims[i] > 0 => g.ntilesAxis[i] > 0
  BY GridAxes DEF IsGrid
<1>2. CASE n = 0
  BY <1>2 DEF BandsOf
<1>3. CASE n # 0
  <2>1. n - 1 \in Nat /\ DOMAIN rest = 1..n - 1 /\ \A i \in 1..n - 1 : rest[i] = g.ntilesAxis[i]
    BY <1>1, <1>3
  <2>2. \A i \in 1..n - 1 : rest[i] \in Nat /\ i \in 1..n
    BY <1>1, <1>3, <2>1
  <2>3. Product(rest) \in Nat
    BY <2>1, <2>2, ProductIs
  <2>4. ASSUME \A i \in 1..n : g.dims[i] > 0 PROVE Product(rest) \in Nat \ {0}
    <3>1. \A i \in 1..n - 1 : rest[i] \in Nat \ {0}
      BY <1>1, <2>1, <2>2, <2>4
    <3> QED BY <2>1, <3>1, ProductIs
  <2>5. g.ntilesAxis[n] \in Nat
    BY <1>1, <1>3
  <2>6. BandsOf(g).count = g.ntilesAxis[n] /\ BandsOf(g).tiles = Product(rest)
    BY <1>3 DEF BandsOf
  <2> QED BY <2>3, <2>4, <2>5, <2>6
<1> QED BY <1>2, <1>3

-----------------------------------------------------------------------------
(* A container that reads as an image. *)

LEMMA BitpixIs ==
    ASSUME NEW b \in Bitpixes
    PROVE  ElemSize(b) \in 1..8
BY DEF Bitpixes, ElemSize, BitpixCode, AbsOf

LEMMA TileShapeIs ==
    ASSUME NEW dims \in Seq(Nat), NEW ztile \in [1..Len(dims) -> SUBSET Int],
           HeaderTileShape(ztile, dims).error = "none"
    PROVE  /\ HeaderTileShape(ztile, dims).tiles \in Seq(Nat \ {0})
           /\ Len(HeaderTileShape(ztile, dims).tiles) = Len(dims)
<1> DEFINE at(i) == IF ztile[i] = {} THEN (IF i = 1 THEN MaxOf(dims[1], 1) ELSE 1)
                    ELSE CHOOSE v \in ztile[i] : TRUE
           tiles == [i \in DOMAIN dims |-> at(i)]
<1>1. DOMAIN dims = 1..Len(dims) /\ Len(dims) \in Nat
  OBVIOUS
<1>2. HeaderTileShape(ztile, dims).tiles = tiles
  BY DEF HeaderTileShape
<1>3. ~\E i \in DOMAIN tiles : tiles[i] <= 0
  BY DEF HeaderTileShape
<1>4. ASSUME NEW i \in 1..Len(dims) PROVE at(i) \in Int
  <2>1. CASE ztile[i] = {}
    <3>1. 1 \in 1..Len(dims) /\ dims[1] \in Nat
      OBVIOUS
    <3> QED BY <2>1, <3>1 DEF MaxOf
  <2>2. CASE ztile[i] # {}
    BY <2>2
  <2> QED BY <2>1, <2>2
<1>5. ASSUME NEW i \in 1..Len(dims) PROVE tiles[i] \in Nat \ {0}
  <2>1. tiles[i] = at(i) /\ ~(tiles[i] <= 0)
    BY <1>1, <1>3
  <2> HIDE DEF at, tiles
  <2> QED BY <1>4, <2>1
<1> QED BY <1>1, <1>2, <1>5

-----------------------------------------------------------------------------
(* The tiles of a section. *)

SelectStep(c, w, k) == [rows |-> Append(w.rows, TileAt(c[1], w.c)), c |-> NextTile(c[1], c[2], w.c)]

SelectedRows(c, s, k, w) == IsSeq(w.rows) /\ Len(w.rows) = k

Selects == INSTANCE Folding WITH Step <- SelectStep, Kept <- SelectedRows

LEMMA SelectsOrdered == Selects!WellOrdered
BY LeastMember DEF Selects!WellOrdered

LEMMA SelectRowsIs ==
    ASSUME NEW g, NEW ranges, TileCount(ranges, g.tiles) \in Nat
    PROVE  IsSeq(SelectRows(g, ranges)) /\ Len(SelectRows(g, ranges)) = TileCount(ranges, g.tiles)
<1> DEFINE n == TileCount(ranges, g.tiles)
           base == [rows |-> <<>>, c |-> FirstTile(g, ranges)]
           c == <<g, ranges>>
           loop == Selects!Fold(c, base, Places(n))
<1>1. SelectRows(g, ranges) = loop.rows
  BY DEF SelectRows, Selects!Fold, SelectStep, FoldLeft, MapThenFoldSet, Max,
         Selects!Greatest
<1>2. DOMAIN Places(n) = 1..n
  BY DEF Places
<1>3. SelectedRows(c, Places(n), 0, base)
  <2>1. <<>> \in Seq(Nat) /\ Len(<<>>) = 0 /\ base.rows = <<>>
    OBVIOUS
  <2>2. IsSeq(base.rows) /\ Len(base.rows) = 0
    BY <2>1, SeqIsSeq
  <2> HIDE DEF base, c
  <2> QED BY <2>2 DEF SelectedRows
<1>4. ASSUME NEW k \in 1..n, NEW w, SelectedRows(c, Places(n), k - 1, w)
      PROVE  SelectedRows(c, Places(n), k, SelectStep(c, w, Places(n)[k]))
  <2>1. IsSeq(w.rows) /\ Len(w.rows) = k - 1
    BY <1>4 DEF SelectedRows
  <2>2. SelectStep(c, w, Places(n)[k]).rows = Append(w.rows, TileAt(g, w.c))
    BY DEF SelectStep
  <2>3. IsSeq(Append(w.rows, TileAt(g, w.c))) /\ Len(Append(w.rows, TileAt(g, w.c))) = Len(w.rows) + 1
    BY <2>1, AppendIsSeq
  <2>4. Len(w.rows) + 1 = k
    <3> HIDE DEF n
    <3> QED BY <2>1
  <2>5. IsSeq(SelectStep(c, w, Places(n)[k]).rows) /\ Len(SelectStep(c, w, Places(n)[k]).rows) = k
    BY <2>2, <2>3, <2>4
  <2> HIDE DEF c, n
  <2> QED BY <2>5 DEF SelectedRows
<1> HIDE DEF base, c
<1>5. SelectedRows(c, Places(n), n, loop)
  BY <1>2, <1>3, <1>4, SelectsOrdered, Selects!FoldKeeps
<1> QED BY <1>1, <1>5 DEF SelectedRows

\* A range of naturals that is not empty touches a tile at least.
LEMMA TilesTouched ==
    ASSUME NEW r \in [lo : Nat, hi : Nat], NEW tile \in Nat \ {0}, r.lo < r.hi
    PROVE  FirstPastTile(r, tile) - r.lo \div tile \in Nat
<1>1. r.lo \in Nat /\ r.hi - 1 \in Nat /\ r.lo <= r.hi - 1
  OBVIOUS
<1>2. r.lo \div tile <= (r.hi - 1) \div tile
  OBVIOUS
<1>3. r.lo \div tile \in Nat /\ (r.hi - 1) \div tile \in Nat
  BY <1>1
<1> QED BY <1>2, <1>3 DEF FirstPastTile

LEMMA TileCountIs ==
    ASSUME NEW ranges \in Seq([lo : Nat, hi : Nat]), NEW tiles \in Seq(Nat \ {0}),
           Len(tiles) = Len(ranges)
    PROVE  TileCount(ranges, tiles) \in Nat
<1> DEFINE n == Len(ranges)
           spans == [i \in DOMAIN ranges |-> FirstPastTile(ranges[i], tiles[i]) - ranges[i].lo \div tiles[i]]
<1>1. n \in Nat /\ DOMAIN ranges = 1..n /\ DOMAIN spans = 1..n
  OBVIOUS
<1>2. CASE ranges = <<>> \/ \E i \in DOMAIN ranges : EmptyRange(ranges[i])
  BY <1>2 DEF TileCount
<1>3. CASE ~(ranges = <<>> \/ \E i \in DOMAIN ranges : EmptyRange(ranges[i]))
  <2>1. ASSUME NEW i \in 1..n PROVE spans[i] \in Nat
    <3>0. i \in DOMAIN ranges /\ i \in 1..Len(tiles)
      BY <1>1
    <3>1. ranges[i] \in [lo : Nat, hi : Nat] /\ tiles[i] \in Nat \ {0} /\ ~EmptyRange(ranges[i])
      <4>1. ranges[i] \in [lo : Nat, hi : Nat]
        BY <3>0, <1>1, ElementOfSeq
      <4>2. tiles[i] \in Nat \ {0}
        BY <3>0, ElementOfSeq
      <4> QED BY <1>3, <3>0, <4>1, <4>2
    <3>2. ranges[i].lo < ranges[i].hi
      BY <3>1 DEF EmptyRange
    <3>3. spans[i] = FirstPastTile(ranges[i], tiles[i]) - ranges[i].lo \div tiles[i]
      BY <1>1
    <3> QED BY <3>1, <3>2, <3>3, TilesTouched
  <2> HIDE DEF spans
  <2>2. Product(spans) \in Nat
    BY <1>1, <2>1, ProductIs
  <2> QED BY <1>3, <2>2 DEF TileCount, spans
<1> QED BY <1>2, <1>3

\* The product of naturals one of which is zero is zero.
ZeroAfter(j, s, k, a) == a \in Nat /\ (k >= j => a = 0)

Zeroes == INSTANCE Folding WITH Step <- Multiply, Kept <- ZeroAfter

LEMMA ZeroesOrdered == Zeroes!WellOrdered
BY LeastMember DEF Zeroes!WellOrdered

LEMMA ProductZero ==
    ASSUME NEW n \in Nat, NEW s, DOMAIN s = 1..n, \A i \in 1..n : s[i] \in Nat,
           NEW j \in 1..n, s[j] = 0
    PROVE  Product(s) = 0
<1>1. Product(s) = Zeroes!Fold(j, 1, s)
  BY DEF Product, Zeroes!Fold, Multiply, FoldLeft, MapThenFoldSet, Max,
         Zeroes!Greatest
<1>2. ZeroAfter(j, s, 0, 1)
  BY DEF ZeroAfter
<1>3. ASSUME NEW k \in 1..n, NEW a, ZeroAfter(j, s, k - 1, a)
      PROVE  ZeroAfter(j, s, k, Multiply(j, a, s[k]))
  <2>1. a \in Nat /\ s[k] \in Nat
    BY <1>3 DEF ZeroAfter
  <2>2. CASE k = j
    <3>1. a * s[k] = 0
      BY <2>1, <2>2
    <3> QED BY <3>1 DEF ZeroAfter, Multiply
  <2>3. CASE k # j
    <3>1. k >= j => k - 1 >= j
      BY <2>3
    <3>2. k >= j => a = 0
      BY <3>1, <1>3 DEF ZeroAfter
    <3>3. a * s[k] \in Nat /\ (a = 0 => a * s[k] = 0)
      BY <2>1
    <3> QED BY <3>2, <3>3 DEF ZeroAfter, Multiply
  <2> QED BY <2>2, <2>3
<1>4. ZeroAfter(j, s, n, Zeroes!Fold(j, 1, s))
  BY <1>2, <1>3, ZeroesOrdered, Zeroes!FoldKeeps
<1>5. n >= j
  OBVIOUS
<1> QED BY <1>1, <1>4, <1>5 DEF ZeroAfter

LEMMA PlacesIs ==
    ASSUME NEW n \in Nat
    PROVE  IsSeq(Places(n)) /\ Len(Places(n)) = n
BY FunIsSeq DEF Places

LEMMA MinIs ==
    ASSUME NEW a \in Nat, NEW b \in Nat
    PROVE  MinOf(a, b) \in Nat /\ MinOf(a, b) <= a /\ MinOf(a, b) <= b
BY DEF MinOf

-----------------------------------------------------------------------------
(* What a decode makes of a worker's scratch. *)

IsBuffer(b) == b = [f \in {"held", "cap"} |-> b[f]]

BufferNames == {"decoded", "bytes", "inflated", "reordered", "plane", "transform", "rows", "qtree"}

IsScratch(s) == s = [b \in BufferNames |-> s[b]] /\ \A b \in BufferNames : IsBuffer(s[b])

CodecKinds == {"Gzip1", "Gzip2", "Rice", "Plio", "Hcompress", "NoCompress"}

\* Two scratches whose inflate buffers have the same capacities.
ScratchesAlike(s, t) ==
    /\ IsScratch(s) /\ IsScratch(t)
    /\ s.inflated.cap = t.inflated.cap /\ s.reordered.cap = t.reordered.cap

LEMMA GrowToIs ==
    ASSUME NEW b, IsBuffer(b), NEW n
    PROVE  IsBuffer(GrowTo(b, n)) /\ GrowTo(b, n).held = b.held /\ GrowTo(b, n).cap = MaxOf(b.cap, n)
BY DEF GrowTo, IsBuffer

LEMMA ClearedIs ==
    ASSUME NEW b, IsBuffer(b)
    PROVE  IsBuffer(Cleared(b)) /\ Cleared(b).held = <<>> /\ Cleared(b).cap = b.cap
BY DEF Cleared, IsBuffer

LEMMA FilledIs ==
    ASSUME NEW b, NEW v
    PROVE  /\ IsBuffer(Filled(b, v)) /\ Filled(b, v).held = b.held \o v
           /\ Filled(b, v).cap = MaxOf(b.cap, Len(b.held \o v))
BY DEF Filled, IsBuffer

LEMMA ReplacedIs ==
    ASSUME NEW b, IsBuffer(b), NEW v
    PROVE  /\ IsBuffer(Replaced(b, v)) /\ Replaced(b, v).held = <<>> \o v
           /\ Replaced(b, v).cap = MaxOf(b.cap, Len(<<>> \o v))
<1>1. PICK c : c = Cleared(b)
  OBVIOUS
<1>2. c.held = <<>> /\ c.cap = b.cap
  BY <1>1, ClearedIs
<1>3. Replaced(b, v) = Filled(c, v)
  BY <1>1 DEF Replaced
<1> QED BY <1>2, <1>3, FilledIs

\* What gunzip_into makes of a member depends on the buffer's capacity alone.
LEMMA GunzipAlike ==
    ASSUME NEW a, NEW b, IsBuffer(a), IsBuffer(b), a.cap = b.cap, NEW member, NEW expected,
           NEW x, x = GunzipInto(a, member, expected),
           NEW y, y = GunzipInto(b, member, expected)
    PROVE  /\ x.error = y.error /\ IsBuffer(x.buffer) /\ IsBuffer(y.buffer)
           /\ x.buffer.cap = y.buffer.cap
           /\ x.error = "none" => x.buffer = y.buffer
<1>1. Cleared(a) = Cleared(b)
  BY DEF Cleared, IsBuffer
<1>2. PICK empty : empty = GrowTo(Cleared(a), Room(expected)) /\ empty = GrowTo(Cleared(b), Room(expected))
  BY <1>1
<1>3. IsBuffer(empty)
  BY <1>2, ClearedIs, GrowToIs
<1>4. PICK got : got = [empty EXCEPT !.held = @ \o SubSeq(member.data, 1, MinOf(Len(member.data), empty.cap))]
  OBVIOUS
<1>5. IsBuffer(got)
  BY <1>3, <1>4 DEF IsBuffer
<1>6. CASE ~MemberBodyOk(member)
  <2>1. x = [error |-> "GzipHeader", buffer |-> a] /\ y = [error |-> "GzipHeader", buffer |-> b]
    BY <1>6 DEF GunzipInto, With
  <2> QED BY <2>1
<1>7. CASE MemberBodyOk(member)
  <2>1. x = y /\ x.buffer = got
    BY <1>2, <1>4, <1>7 DEF GunzipInto, With
  <2> QED BY <1>5, <2>1
<1> QED BY <1>6, <1>7

\* Two decodes that end alike: of what either lends, the contents are the same.
DecodesAlike(d, e, stream) ==
    /\ d.error = e.error /\ d.lent = e.lent
    /\ ScratchesAlike(d.scratch, e.scratch)
    /\ d.error = "none" => Lent(d, stream) = Lent(e, stream)

\* What gunzip_into makes of a member, in the buffer its shuffle is inflated into.
Inflated(codec, tile, member, u) ==
    GunzipInto(IF ShuffleOf(codec, tile) <= 1 THEN u.inflated ELSE u.reordered, member, ByteLen(tile))

UnshuffledOf(codec, tile, member, u) ==
    Filled(Cleared(u.inflated),
           UnshuffleBytes(Inflated(codec, tile, member, u).buffer.held, ShuffleOf(codec, tile)))

\* The scratch after it.
AfterGzip(codec, tile, member, u) ==
    LET took == Inflated(codec, tile, member, u)
    IN  IF ShuffleOf(codec, tile) <= 1 THEN [u EXCEPT !.inflated = took.buffer]
        ELSE IF took.error # "none" THEN [u EXCEPT !.reordered = took.buffer]
        ELSE [u EXCEPT !.reordered = took.buffer, !.inflated = UnshuffledOf(codec, tile, member, u)]

LEMMA DecodeGzipIs ==
    ASSUME NEW u, IsScratch(u), NEW codec, NEW tile, NEW member,
           NEW g, g = DecodeGzip(codec, tile, member, u)
    PROVE  g = [error |-> Inflated(codec, tile, member, u).error,
                scratch |-> AfterGzip(codec, tile, member, u), lent |-> "inflated"]
<1> DEFINE shuffle == ShuffleOf(codec, tile)
           Took(w) == Inflated(codec, tile, member, w)
           Bytes(w) == UnshuffledOf(codec, tile, member, w)
           in == [bytes |-> u.inflated, reordered |-> u.reordered]
           r == GzipDecode(in, member, ByteLen(tile), shuffle)
<1>1. in.bytes = u.inflated /\ in.reordered = u.reordered
  OBVIOUS
<1>2. u = [b \in BufferNames |-> u[b]]
  BY DEF IsScratch
<1>3. g = [error |-> r.error,
           scratch |-> [u EXCEPT !.inflated = r.scratch.bytes, !.reordered = r.scratch.reordered],
           lent |-> "inflated"]
  BY DEF DecodeGzip, With, Decode
<1>4. CASE shuffle <= 1
  <2>1. r = [error |-> Took(u).error, scratch |-> [in EXCEPT !.bytes = Took(u).buffer]]
    BY <1>4 DEF GzipDecode, With, Inflated, UnshuffledOf
  <2>2. r.error = Took(u).error /\ r.scratch.bytes = Took(u).buffer /\ r.scratch.reordered = u.reordered
    <3> HIDE DEF Took
    <3> QED BY <2>1
  <2> HIDE DEF r, Took
  <2>3. [u EXCEPT !.inflated = Took(u).buffer, !.reordered = u.reordered] = [u EXCEPT !.inflated = Took(u).buffer]
    BY <1>2 DEF BufferNames
  <2>4. AfterGzip(codec, tile, member, u) = [u EXCEPT !.inflated = r.scratch.bytes, !.reordered = r.scratch.reordered]
    BY <1>4, <2>2, <2>3 DEF AfterGzip, Took, Bytes
  <2>5. r.error = Inflated(codec, tile, member, u).error
    BY <2>2 DEF Took
  <2> QED BY <1>3, <2>4, <2>5
<1>5. CASE ~(shuffle <= 1) /\ Took(u).error # "none"
  <2>1. r = [error |-> Took(u).error, scratch |-> [in EXCEPT !.reordered = Took(u).buffer]]
    BY <1>5 DEF GzipDecode, With, Inflated, UnshuffledOf
  <2>2. r.error = Took(u).error /\ r.scratch.bytes = u.inflated /\ r.scratch.reordered = Took(u).buffer
    <3> HIDE DEF Took
    <3> QED BY <2>1
  <2> HIDE DEF r, Took
  <2>3. [u EXCEPT !.inflated = u.inflated, !.reordered = Took(u).buffer] = [u EXCEPT !.reordered = Took(u).buffer]
    BY <1>2 DEF BufferNames
  <2>4. AfterGzip(codec, tile, member, u) = [u EXCEPT !.inflated = r.scratch.bytes, !.reordered = r.scratch.reordered]
    BY <1>5, <2>2, <2>3 DEF AfterGzip, Took, Bytes
  <2>5. r.error = Inflated(codec, tile, member, u).error
    BY <2>2 DEF Took
  <2> QED BY <1>3, <2>4, <2>5
<1>6. CASE ~(shuffle <= 1) /\ Took(u).error = "none"
  <2>1. r = [error |-> "none", scratch |-> [in EXCEPT !.reordered = Took(u).buffer, !.bytes = Bytes(u)]]
    BY <1>6 DEF GzipDecode, With, Inflated, UnshuffledOf
  <2>2. r.error = Took(u).error /\ r.scratch.bytes = Bytes(u) /\ r.scratch.reordered = Took(u).buffer
    <3>1. PICK tk : tk = Took(u).buffer
      OBVIOUS
    <3>2. PICK by : by = Bytes(u)
      OBVIOUS
    <3>3. PICK rr : rr = r
      OBVIOUS
    <3>4. rr = [error |-> "none", scratch |-> [in EXCEPT !.reordered = tk, !.bytes = by]]
      BY <2>1, <3>1, <3>2, <3>3
    <3>5. rr.error = "none" /\ rr.scratch.bytes = by /\ rr.scratch.reordered = tk
      BY <3>4
    <3> HIDE DEF r, Took, Bytes
    <3> QED BY <3>1, <3>2, <3>3, <3>5, <1>6
  <2> HIDE DEF r, Took, Bytes
  <2>3. [u EXCEPT !.inflated = Bytes(u), !.reordered = Took(u).buffer]
          = [u EXCEPT !.reordered = Took(u).buffer, !.inflated = Bytes(u)]
    BY <1>2 DEF BufferNames
  <2>4. AfterGzip(codec, tile, member, u) = [u EXCEPT !.inflated = r.scratch.bytes, !.reordered = r.scratch.reordered]
    BY <1>6, <2>2, <2>3 DEF AfterGzip, Took, Bytes
  <2>5. r.error = Inflated(codec, tile, member, u).error
    BY <2>2 DEF Took
  <2> QED BY <1>3, <2>4, <2>5
<1> QED BY <1>4, <1>5, <1>6

LEMMA DecodeGzipAlike ==
    ASSUME NEW s, NEW t, ScratchesAlike(s, t), NEW codec, NEW tile, NEW member, NEW stream,
           NEW d, d = DecodeGzip(codec, tile, member, s),
           NEW e, e = DecodeGzip(codec, tile, member, t)
    PROVE  /\ DecodesAlike(d, e, stream) /\ d.lent = "inflated"
           /\ d.error = "none" => d.scratch.inflated.held = e.scratch.inflated.held
<1> DEFINE shuffle == ShuffleOf(codec, tile)
           Took(u) == GunzipInto(IF shuffle <= 1 THEN u.inflated ELSE u.reordered, member, ByteLen(tile))
           Bytes(u) == Filled(Cleared(u.inflated), UnshuffleBytes(Took(u).buffer.held, shuffle))
           After(u) == IF shuffle <= 1 THEN [u EXCEPT !.inflated = Took(u).buffer]
                       ELSE IF Took(u).error # "none" THEN [u EXCEPT !.reordered = Took(u).buffer]
                       ELSE [u EXCEPT !.reordered = Took(u).buffer, !.inflated = Bytes(u)]
<1>1. ASSUME NEW u, IsScratch(u), NEW g, g = DecodeGzip(codec, tile, member, u)
      PROVE  g = [error |-> Took(u).error, scratch |-> After(u), lent |-> "inflated"]
  <2>1. Took(u) = Inflated(codec, tile, member, u) /\ Bytes(u) = UnshuffledOf(codec, tile, member, u)
    BY DEF Inflated, UnshuffledOf
  <2>2. AfterGzip(codec, tile, member, u) = After(u)
    BY <2>1 DEF AfterGzip
  <2> HIDE DEF Took, After
  <2> QED BY <1>1, <2>1, <2>2, DecodeGzipIs
<1>2. PICK x : x = Took(s)
  OBVIOUS
<1>3. PICK y : y = Took(t)
  OBVIOUS
<1>4. IsScratch(s) /\ IsScratch(t)
      /\ IsBuffer(s.inflated) /\ IsBuffer(t.inflated) /\ IsBuffer(s.reordered) /\ IsBuffer(t.reordered)
  BY DEF ScratchesAlike, IsScratch, BufferNames
<1>5. /\ x.error = y.error /\ IsBuffer(x.buffer) /\ IsBuffer(y.buffer)
      /\ x.buffer.cap = y.buffer.cap
      /\ x.error = "none" => x.buffer = y.buffer
  <2> DEFINE a == IF shuffle <= 1 THEN s.inflated ELSE s.reordered
             b == IF shuffle <= 1 THEN t.inflated ELSE t.reordered
  <2>1. IsBuffer(a) /\ IsBuffer(b) /\ a.cap = b.cap
    BY <1>4 DEF ScratchesAlike
  <2>2. x = GunzipInto(a, member, ByteLen(tile)) /\ y = GunzipInto(b, member, ByteLen(tile))
    BY <1>2, <1>3
  <2> HIDE DEF a, b
  <2> QED BY <2>1, <2>2, GunzipAlike
<1>6. PICK p : p = Bytes(s)
  OBVIOUS
<1>7. PICK q : q = Bytes(t)
  OBVIOUS
<1>8. IsBuffer(p) /\ IsBuffer(q) /\ (x.error = "none" => p.cap = q.cap /\ p.held = q.held)
  <2>1. PICK v : v = UnshuffleBytes(x.buffer.held, shuffle)
    OBVIOUS
  <2>2. PICK w : w = UnshuffleBytes(y.buffer.held, shuffle)
    OBVIOUS
  <2>3. p = Filled(Cleared(s.inflated), v) /\ q = Filled(Cleared(t.inflated), w)
    BY <1>2, <1>3, <1>6, <1>7, <2>1, <2>2
  <2>4. x.error = "none" => v = w
    BY <1>5, <2>1, <2>2
  <2>5. /\ IsBuffer(Cleared(s.inflated)) /\ Cleared(s.inflated).held = <<>>
        /\ IsBuffer(Cleared(t.inflated)) /\ Cleared(t.inflated).held = <<>>
        /\ Cleared(s.inflated).cap = Cleared(t.inflated).cap
    BY <1>4, ClearedIs DEF ScratchesAlike
  <2>6. PICK m : m = Cleared(s.inflated)
    OBVIOUS
  <2>7. PICK n : n = Cleared(t.inflated)
    OBVIOUS
  <2>8. IsBuffer(m) /\ IsBuffer(n) /\ m.held = <<>> /\ n.held = <<>> /\ m.cap = n.cap
    BY <2>5, <2>6, <2>7
  <2>9. /\ IsBuffer(p) /\ p.held = m.held \o v /\ p.cap = MaxOf(m.cap, Len(m.held \o v))
        /\ IsBuffer(q) /\ q.held = n.held \o w /\ q.cap = MaxOf(n.cap, Len(n.held \o w))
    BY <2>3, <2>6, <2>7, <2>8, FilledIs
  <2> QED BY <2>4, <2>8, <2>9
<1>9. /\ d = [error |-> x.error, lent |-> "inflated",
              scratch |-> IF shuffle <= 1 THEN [s EXCEPT !.inflated = x.buffer]
                          ELSE IF x.error # "none" THEN [s EXCEPT !.reordered = x.buffer]
                          ELSE [s EXCEPT !.reordered = x.buffer, !.inflated = p]]
      /\ e = [error |-> y.error, lent |-> "inflated",
              scratch |-> IF shuffle <= 1 THEN [t EXCEPT !.inflated = y.buffer]
                          ELSE IF y.error # "none" THEN [t EXCEPT !.reordered = y.buffer]
                          ELSE [t EXCEPT !.reordered = y.buffer, !.inflated = q]]
  <2>1. d = [error |-> Took(s).error, scratch |-> After(s), lent |-> "inflated"]
        /\ e = [error |-> Took(t).error, scratch |-> After(t), lent |-> "inflated"]
    BY <1>1, <1>4
  <2>2. After(s) = IF shuffle <= 1 THEN [s EXCEPT !.inflated = x.buffer]
                          ELSE IF x.error # "none" THEN [s EXCEPT !.reordered = x.buffer]
                          ELSE [s EXCEPT !.reordered = x.buffer, !.inflated = p]
    BY <1>2, <1>6
  <2>3. After(t) = IF shuffle <= 1 THEN [t EXCEPT !.inflated = y.buffer]
                          ELSE IF y.error # "none" THEN [t EXCEPT !.reordered = y.buffer]
                          ELSE [t EXCEPT !.reordered = y.buffer, !.inflated = q]
    BY <1>3, <1>7
  <2> HIDE DEF After, Took
  <2> QED BY <1>2, <1>3, <2>1, <2>2, <2>3
<1> HIDE DEF shuffle, Took, Bytes, After
<1>10. ScratchesAlike(d.scratch, e.scratch)
       /\ (d.error = "none" => d.scratch.inflated.held = e.scratch.inflated.held)
  <2>1. CASE shuffle <= 1
    <3>1. d.scratch = [s EXCEPT !.inflated = x.buffer] /\ e.scratch = [t EXCEPT !.inflated = y.buffer]
      BY <1>9, <2>1
    <3> QED BY <1>4, <1>5, <1>9, <3>1 DEF ScratchesAlike, IsScratch, BufferNames
  <2>2. CASE ~(shuffle <= 1) /\ x.error # "none"
    <3>1. d.scratch = [s EXCEPT !.reordered = x.buffer] /\ e.scratch = [t EXCEPT !.reordered = y.buffer]
      BY <1>5, <1>9, <2>2
    <3> QED BY <1>4, <1>5, <1>9, <2>2, <3>1 DEF ScratchesAlike, IsScratch, BufferNames
  <2>3. CASE ~(shuffle <= 1) /\ x.error = "none"
    <3>1. d.scratch = [s EXCEPT !.reordered = x.buffer, !.inflated = p]
          /\ e.scratch = [t EXCEPT !.reordered = y.buffer, !.inflated = q]
      BY <1>5, <1>9, <2>3
    <3> QED BY <1>4, <1>5, <1>8, <1>9, <2>3, <3>1 DEF ScratchesAlike, IsScratch, BufferNames
  <2> QED BY <2>1, <2>2, <2>3
<1>11. d.error = e.error /\ d.lent = "inflated" /\ e.lent = "inflated"
  BY <1>5, <1>9
<1> QED BY <1>10, <1>11 DEF DecodesAlike, Lent

\* The integers a decode lends are in a buffer no inflate writes to.
IntsLent(d) == d.error = "none" => d.lent \in {"decoded", "plane"}

\* The buffer b of a scratch replaced by `values'.
Refilled(s, b, values) == [s EXCEPT ![b] = Replaced(@, values)]

LEMMA RefilledAlike ==
    ASSUME NEW s, NEW t, ScratchesAlike(s, t), NEW b \in {"decoded", "bytes", "plane"}, NEW v
    PROVE  /\ ScratchesAlike(Refilled(s, b, v), Refilled(t, b, v))
           /\ Refilled(s, b, v)[b].held = Refilled(t, b, v)[b].held
<1>1. b \in BufferNames /\ b # "inflated" /\ b # "reordered"
  BY DEF BufferNames
<1>2. IsScratch(s) /\ IsScratch(t) /\ IsBuffer(s[b]) /\ IsBuffer(t[b])
  BY <1>1 DEF ScratchesAlike, IsScratch
<1>3. PICK x : x = Replaced(s[b], v)
  OBVIOUS
<1>4. PICK y : y = Replaced(t[b], v)
  OBVIOUS
<1>5. IsBuffer(x) /\ IsBuffer(y) /\ x.held = y.held
  BY <1>2, <1>3, <1>4, ReplacedIs
<1>6. PICK p : p = [s EXCEPT ![b] = x]
  OBVIOUS
<1>7. PICK q : q = [t EXCEPT ![b] = y]
  OBVIOUS
<1>8. p = Refilled(s, b, v) /\ q = Refilled(t, b, v)
  BY <1>3, <1>4, <1>6, <1>7 DEF Refilled
<1>9. p[b] = x /\ q[b] = y /\ \A c \in BufferNames : c # b => p[c] = s[c] /\ q[c] = t[c]
  BY <1>1, <1>2, <1>6, <1>7 DEF IsScratch
<1>10. IsScratch(p) /\ IsScratch(q)
  BY <1>1, <1>2, <1>5, <1>6, <1>7, <1>9 DEF IsScratch
<1>11. "inflated" \in BufferNames /\ "reordered" \in BufferNames
  BY DEF BufferNames
<1>12. ScratchesAlike(p, q)
  BY <1>1, <1>9, <1>10, <1>11 DEF ScratchesAlike
<1> QED BY <1>5, <1>8, <1>9, <1>12

LEMMA PlainIntsAlike ==
    ASSUME NEW s, NEW t, ScratchesAlike(s, t), NEW count, NEW result0, NEW stream,
           NEW d, d = DecodePlainInts(s, count, result0),
           NEW e, e = DecodePlainInts(t, count, result0)
    PROVE  DecodesAlike(d, e, stream) /\ IntsLent(d)
<1>1. PICK v : v = IF result0.ok THEN result0.out ELSE Zeros(count)
  OBVIOUS
<1>2. PICK p : p = Refilled(s, "decoded", v)
  OBVIOUS
<1>3. PICK q : q = Refilled(t, "decoded", v)
  OBVIOUS
<1>4. ScratchesAlike(p, q) /\ p["decoded"].held = q["decoded"].held
  BY <1>2, <1>3, RefilledAlike
<1>5. PICK err : err = IF result0.ok THEN "none" ELSE "stream"
  OBVIOUS
<1>6. d = [error |-> err, scratch |-> p, lent |-> "decoded"]
      /\ e = [error |-> err, scratch |-> q, lent |-> "decoded"]
  BY <1>1, <1>2, <1>3, <1>5 DEF DecodePlainInts, Decode, Refilled
<1> QED BY <1>4, <1>6 DEF DecodesAlike, IntsLent, Lent

\* HCOMPRESS_1's buffers with `values' in the plane, the others as large as `c' says.
Worked(s, values, c) ==
    [s EXCEPT !.plane = Replaced(@, values), !.qtree = GrowTo(@, c.qtree),
              !.transform = GrowTo(@, c.transform), !.rows = GrowTo(@, c.rows)]

LEMMA WorkedIs ==
    ASSUME NEW u, IsScratch(u), NEW v, NEW c, NEW w, w = Worked(u, v, c)
    PROVE  /\ IsScratch(w) /\ w.plane.held = <<>> \o v
           /\ w.inflated = u.inflated /\ w.reordered = u.reordered
<1>1. \A b \in BufferNames : IsBuffer(u[b])
  BY DEF IsScratch
<1>2. PICK a1 : a1 = Replaced(u.plane, v)
  OBVIOUS
<1>3. PICK a2 : a2 = GrowTo(u.qtree, c.qtree)
  OBVIOUS
<1>4. PICK a3 : a3 = GrowTo(u.transform, c.transform)
  OBVIOUS
<1>5. PICK a4 : a4 = GrowTo(u.rows, c.rows)
  OBVIOUS
<1>6. IsBuffer(u.plane) /\ IsBuffer(u.qtree) /\ IsBuffer(u.transform) /\ IsBuffer(u.rows)
  BY <1>1 DEF BufferNames
<1>7. IsBuffer(a1) /\ IsBuffer(a2) /\ IsBuffer(a3) /\ IsBuffer(a4) /\ a1.held = <<>> \o v
  BY <1>2, <1>3, <1>4, <1>5, <1>6, GrowToIs, ReplacedIs
<1>8. u = [b \in BufferNames |-> u[b]]
  BY DEF IsScratch
<1>9. /\ w.plane = a1 /\ w.qtree = a2 /\ w.transform = a3 /\ w.rows = a4
      /\ w.inflated = u.inflated /\ w.reordered = u.reordered
      /\ w.decoded = u.decoded /\ w.bytes = u.bytes
      /\ w = [b \in BufferNames |-> w[b]]
  <2>1. w = [u EXCEPT !.plane = a1, !.qtree = a2, !.transform = a3, !.rows = a4]
    BY <1>2, <1>3, <1>4, <1>5 DEF Worked
  <2> QED BY <1>8, <2>1 DEF BufferNames
<1>10. \A b \in BufferNames : IsBuffer(w[b])
  BY <1>1, <1>7, <1>9 DEF BufferNames
<1> QED BY <1>7, <1>9, <1>10 DEF IsScratch

LEMMA WorkedAlike ==
    ASSUME NEW s, NEW t, ScratchesAlike(s, t), NEW v, NEW c,
           NEW p, p = Worked(s, v, c),
           NEW q, q = Worked(t, v, c)
    PROVE  ScratchesAlike(p, q) /\ p.plane.held = q.plane.held
<1>2. IsScratch(p) /\ p.plane.held = <<>> \o v /\ p.inflated = s.inflated /\ p.reordered = s.reordered
  BY WorkedIs DEF ScratchesAlike
<1>3. IsScratch(q) /\ q.plane.held = <<>> \o v /\ q.inflated = t.inflated /\ q.reordered = t.reordered
  BY WorkedIs DEF ScratchesAlike
<1> QED BY <1>2, <1>3 DEF ScratchesAlike

LEMMA HcompressAlike ==
    ASSUME NEW s, NEW t, ScratchesAlike(s, t), NEW codec, NEW tile, NEW stream,
           NEW d, d = DecodeHcompress(codec, tile, stream, s),
           NEW e, e = DecodeHcompress(codec, tile, stream, t)
    PROVE  DecodesAlike(d, e, stream) /\ IntsLent(d)
<1>1. PICK h : h = HcompressDecode(stream, tile.shape[codec.plane[2]], tile.shape[codec.plane[1]], codec.smoothing)
  OBVIOUS
<1>2. PICK c : c = HcompressCapacities(tile.shape[codec.plane[1]], tile.shape[codec.plane[2]])
  OBVIOUS
<1>3. PICK header \in BOOLEAN : header <=> (~h.ok /\ h.error \in {"magic", "negative", "dimensions", "planes"})
  OBVIOUS
<1>4. PICK v : v = IF h.ok THEN h.out ELSE Zeros(tile.shape[codec.plane[2]] * tile.shape[codec.plane[1]])
  OBVIOUS
<1>5. PICK p : p = Worked(s, v, c)
  OBVIOUS
<1>6. PICK q : q = Worked(t, v, c)
  OBVIOUS
<1>7. ScratchesAlike(p, q) /\ p.plane.held = q.plane.held
  BY <1>5, <1>6, WorkedAlike
<1>8. PICK err : err = IF h.ok THEN "none" ELSE h.error
  OBVIOUS
<1>9. /\ d = [error |-> err, scratch |-> IF header THEN s ELSE p, lent |-> "plane"]
      /\ e = [error |-> err, scratch |-> IF header THEN t ELSE q, lent |-> "plane"]
  BY <1>1, <1>2, <1>3, <1>4, <1>5, <1>6, <1>8 DEF DecodeHcompress, With, Decode, Worked
<1>10. err = "none" => ~header
  BY <1>3, <1>8
<1> QED BY <1>7, <1>9, <1>10 DEF DecodesAlike, IntsLent, Lent

\* A decode's outcome has its three parts.
LEMMA DecodeIntsIs ==
    ASSUME NEW s, NEW codec, codec.kind \in CodecKinds, NEW tile, NEW stream,
           NEW d, d = DecodeInts(codec, tile, stream, s)
    PROVE  d = [error |-> d.error, scratch |-> d.scratch, lent |-> d.lent]
<1>1. \A x, y, z, f : f = Decode(x, y, z) => f = [error |-> f.error, scratch |-> f.scratch, lent |-> f.lent]
  BY DEF Decode
<1>2. \E x, y, z : d = Decode(x, y, z)
  <2>1. CASE codec.kind = "Rice"
    BY <2>1 DEF DecodeInts, DecodePlainInts
  <2>2. CASE codec.kind = "Plio"
    BY <2>2 DEF DecodeInts, DecodePlainInts
  <2>3. CASE codec.kind = "Hcompress"
    BY <2>3 DEF DecodeInts, DecodeHcompress, With
  <2>4. CASE codec.kind \in {"Gzip1", "Gzip2"}
    <3>1. PICK g : g = DecodeGzip(codec, tile, stream, s)
      OBVIOUS
    <3>2. \E x, y, z : g = Decode(x, y, z)
      BY <3>1 DEF DecodeGzip, With
    <3>3. d = IF g.error # "none" THEN g
              ELSE Decode("none", [g.scratch EXCEPT !.decoded =
                              Replaced(@, BeToI64(g.scratch.inflated.held, tile.width))], "decoded")
      BY <2>4, <3>1 DEF DecodeInts, With
    <3> QED BY <3>2, <3>3
  <2>5. CASE codec.kind = "NoCompress"
    BY <2>5 DEF DecodeInts
  <2> QED BY <2>1, <2>2, <2>3, <2>4, <2>5 DEF CodecKinds
<1> QED BY <1>1, <1>2

\* The integers a decode gives, and how it fails, depend on the capacities of the
\* inflate buffers and on nothing else of the scratch (TileCodec::decode_into).
LEMMA IntsAlike ==
    ASSUME NEW s, NEW t, ScratchesAlike(s, t), NEW codec, codec.kind \in CodecKinds,
           NEW tile, NEW stream,
           NEW d, d = DecodeInts(codec, tile, stream, s),
           NEW e, e = DecodeInts(codec, tile, stream, t)
    PROVE  DecodesAlike(d, e, stream) /\ IntsLent(d)
<1>1. CASE codec.kind = "Rice"
  <2>1. PICK r : r = RiceDecode([blocksize |-> codec.blocksize, bits |-> 8 * codec.bytepix],
                                stream, Count(tile))
    OBVIOUS
  <2>2. d = DecodePlainInts(s, Count(tile), r) /\ e = DecodePlainInts(t, Count(tile), r)
    BY <1>1, <2>1 DEF DecodeInts
  <2> QED BY <2>2, PlainIntsAlike
<1>2. CASE codec.kind = "Plio"
  <2>1. PICK r : r = PlioDecode(codec.offset, stream, Count(tile))
    OBVIOUS
  <2>2. d = DecodePlainInts(s, Count(tile), r) /\ e = DecodePlainInts(t, Count(tile), r)
    BY <1>2, <2>1 DEF DecodeInts
  <2> QED BY <2>2, PlainIntsAlike
<1>3. CASE codec.kind = "Hcompress"
  <2>1. d = DecodeHcompress(codec, tile, stream, s) /\ e = DecodeHcompress(codec, tile, stream, t)
    BY <1>3 DEF DecodeInts
  <2> QED BY <2>1, HcompressAlike
<1>4. CASE codec.kind \in {"Gzip1", "Gzip2"}
  <2>1. PICK g : g = DecodeGzip(codec, tile, stream, s)
    OBVIOUS
  <2>2. PICK h : h = DecodeGzip(codec, tile, stream, t)
    OBVIOUS
  <2>3. /\ DecodesAlike(g, h, stream)
        /\ g.error = "none" => g.scratch.inflated.held = h.scratch.inflated.held
    BY <2>1, <2>2, DecodeGzipAlike
  <2>4. CASE g.error # "none"
    <3>1. d = g /\ e = h
      BY <1>4, <2>1, <2>2, <2>3, <2>4 DEF DecodeInts, With, DecodesAlike
    <3> QED BY <2>3, <2>4, <3>1 DEF IntsLent
  <2>5. CASE g.error = "none"
    <3>1. PICK v : v = BeToI64(g.scratch.inflated.held, tile.width)
      OBVIOUS
    <3>2. v = BeToI64(h.scratch.inflated.held, tile.width)
      BY <2>3, <2>5, <3>1
    <3>3. /\ d = [error |-> "none", scratch |-> Refilled(g.scratch, "decoded", v), lent |-> "decoded"]
          /\ e = [error |-> "none", scratch |-> Refilled(h.scratch, "decoded", v), lent |-> "decoded"]
      <4>1. d = Decode("none", [g.scratch EXCEPT !.decoded =
                            Replaced(@, BeToI64(g.scratch.inflated.held, tile.width))], "decoded")
        BY <1>4, <2>1, <2>5 DEF DecodeInts, With
      <4>2. e = Decode("none", [h.scratch EXCEPT !.decoded =
                            Replaced(@, BeToI64(h.scratch.inflated.held, tile.width))], "decoded")
        BY <1>4, <2>2, <2>3, <2>5 DEF DecodeInts, With, DecodesAlike
      <4> QED BY <3>1, <3>2, <4>1, <4>2 DEF Decode, Refilled
    <3>4. PICK p : p = Refilled(g.scratch, "decoded", v)
      OBVIOUS
    <3>5. PICK q : q = Refilled(h.scratch, "decoded", v)
      OBVIOUS
    <3>6. ScratchesAlike(p, q) /\ p["decoded"].held = q["decoded"].held
      BY <2>3, <3>4, <3>5, RefilledAlike DEF DecodesAlike
    <3> QED BY <3>3, <3>4, <3>5, <3>6 DEF DecodesAlike, IntsLent, Lent
  <2> QED BY <2>4, <2>5
<1>5. CASE codec.kind = "NoCompress"
  <2>1. CASE Len(stream) # ByteLen(tile)
    <3>1. /\ d = [error |-> "SizeMismatch", scratch |-> s, lent |-> "decoded"]
          /\ e = [error |-> "SizeMismatch", scratch |-> t, lent |-> "decoded"]
      BY <1>5, <2>1 DEF DecodeInts, Decode
    <3> QED BY <3>1 DEF DecodesAlike, IntsLent
  <2>2. CASE Len(stream) = ByteLen(tile)
    <3>1. PICK v : v = BeToI64(stream, tile.width)
      OBVIOUS
    <3>2. PICK p : p = Refilled(s, "decoded", v)
      OBVIOUS
    <3>3. PICK q : q = Refilled(t, "decoded", v)
      OBVIOUS
    <3>4. ScratchesAlike(p, q) /\ p["decoded"].held = q["decoded"].held
      BY <3>2, <3>3, RefilledAlike
    <3>5. /\ d = [error |-> "none", scratch |-> p, lent |-> "decoded"]
          /\ e = [error |-> "none", scratch |-> q, lent |-> "decoded"]
      BY <1>5, <2>2, <3>1, <3>2, <3>3 DEF DecodeInts, Decode, Refilled
    <3> QED BY <3>4, <3>5 DEF DecodesAlike, IntsLent, Lent
  <2> QED BY <2>1, <2>2
<1> QED BY <1>1, <1>2, <1>3, <1>4, <1>5 DEF CodecKinds

\* So do the bytes (TileCodec::decode_bytes_into).
LEMMA BytesAlike ==
    ASSUME NEW s, NEW t, ScratchesAlike(s, t), NEW codec, codec.kind \in CodecKinds,
           NEW tile, NEW stream,
           NEW d, d = DecodeBytes(codec, tile, stream, s),
           NEW e, e = DecodeBytes(codec, tile, stream, t)
    PROVE  DecodesAlike(d, e, stream)
<1>1. CASE codec.kind \in {"Gzip1", "Gzip2"}
  <2>1. d = DecodeGzip(codec, tile, stream, s) /\ e = DecodeGzip(codec, tile, stream, t)
    BY <1>1 DEF DecodeBytes
  <2> QED BY <2>1, DecodeGzipAlike
<1>2. CASE codec.kind = "NoCompress"
  <2>1. PICK err : err = IF Len(stream) # ByteLen(tile) THEN "SizeMismatch" ELSE "none"
    OBVIOUS
  <2>2. /\ d = [error |-> err, scratch |-> s, lent |-> "stream"]
        /\ e = [error |-> err, scratch |-> t, lent |-> "stream"]
    BY <1>2, <2>1 DEF DecodeBytes, Decode
  <2> QED BY <2>2 DEF DecodesAlike, Lent
<1>3. CASE codec.kind \in {"Rice", "Plio", "Hcompress"}
  <2>1. PICK g : g = DecodeInts(codec, tile, stream, s)
    OBVIOUS
  <2>2. PICK h : h = DecodeInts(codec, tile, stream, t)
    OBVIOUS
  <2>3. DecodesAlike(g, h, stream) /\ IntsLent(g)
    BY <2>1, <2>2, IntsAlike
  <2>4. /\ d = IF g.error # "none" THEN [g EXCEPT !.lent = "bytes"]
               ELSE Decode("none", [g.scratch EXCEPT !.bytes =
                               Replaced(@, I64ToBe(g.scratch[g.lent].held, tile.width))], "bytes")
        /\ e = IF h.error # "none" THEN [h EXCEPT !.lent = "bytes"]
               ELSE Decode("none", [h.scratch EXCEPT !.bytes =
                               Replaced(@, I64ToBe(h.scratch[h.lent].held, tile.width))], "bytes")
    BY <1>3, <2>1, <2>2 DEF DecodeBytes, With
  <2>5. CASE g.error # "none"
    <3>1. d = [g EXCEPT !.lent = "bytes"] /\ e = [h EXCEPT !.lent = "bytes"]
      BY <2>3, <2>4, <2>5 DEF DecodesAlike
    <3>2. d.error = g.error /\ e.error = h.error /\ d.scratch = g.scratch /\ e.scratch = h.scratch
          /\ d.lent = e.lent
      <4>1. g = [error |-> g.error, scratch |-> g.scratch, lent |-> g.lent]
            /\ h = [error |-> h.error, scratch |-> h.scratch, lent |-> h.lent]
        BY <2>1, <2>2, DecodeIntsIs
      <4> QED BY <3>1, <4>1
    <3> QED BY <2>3, <2>5, <3>2 DEF DecodesAlike
  <2>6. CASE g.error = "none"
    <3>1. PICK v : v = I64ToBe(g.scratch[g.lent].held, tile.width)
      OBVIOUS
    <3>2. v = I64ToBe(h.scratch[h.lent].held, tile.width)
      BY <2>3, <2>6, <3>1 DEF DecodesAlike, IntsLent, Lent
    <3>3. PICK p : p = Refilled(g.scratch, "bytes", v)
      OBVIOUS
    <3>4. PICK q : q = Refilled(h.scratch, "bytes", v)
      OBVIOUS
    <3>5. ScratchesAlike(p, q) /\ p["bytes"].held = q["bytes"].held
      BY <2>3, <3>3, <3>4, RefilledAlike DEF DecodesAlike
    <3>6. /\ d = [error |-> "none", scratch |-> p, lent |-> "bytes"]
          /\ e = [error |-> "none", scratch |-> q, lent |-> "bytes"]
      BY <2>3, <2>4, <2>6, <3>1, <3>2, <3>3, <3>4 DEF Decode, Refilled, DecodesAlike
    <3> QED BY <3>5, <3>6 DEF DecodesAlike, Lent
  <2> QED BY <2>5, <2>6
<1> QED BY <1>1, <1>2, <1>3 DEF CodecKinds

-----------------------------------------------------------------------------
(* What a decode makes of a worker's set. *)

IsSet(s) == s = [f \in {"values", "codecs"} |-> s[f]] /\ IsBuffer(s.values)

SetsAlike(s, t) == IsSet(s) /\ IsSet(t) /\ ScratchesAlike(s.codecs, t.codecs)

\* Two decodes of a tile that end alike, with the same samples if they end well.
TilesAlike(x, y) ==
    /\ x.error = y.error /\ SetsAlike(x.set, y.set)
    /\ x.error = "none" => x.set.values.held = y.set.values.held

LEMMA SwapAlike ==
    ASSUME NEW s, NEW t, SetsAlike(s, t), NEW d, NEW e, NEW stream, DecodesAlike(d, e, stream), IntsLent(d)
    PROVE  TilesAlike(SwapLent(s, d), SwapLent(t, e))
<1>1. PICK x : x = SwapLent(s, d)
  OBVIOUS
<1>2. PICK y : y = SwapLent(t, e)
  OBVIOUS
<1>3. d.error = e.error /\ d.lent = e.lent /\ ScratchesAlike(d.scratch, e.scratch)
  BY DEF DecodesAlike
<1>4. CASE d.error # "none"
  <2>1. /\ x = [error |-> d.error, set |-> [s EXCEPT !.codecs = d.scratch]]
        /\ y = [error |-> d.error, set |-> [t EXCEPT !.codecs = e.scratch]]
    BY <1>1, <1>2, <1>3, <1>4 DEF SwapLent, TileError
  <2>2. SetsAlike([s EXCEPT !.codecs = d.scratch], [t EXCEPT !.codecs = e.scratch])
    BY <1>3 DEF SetsAlike, IsSet
  <2>3. x.error = y.error /\ x.error # "none" /\ SetsAlike(x.set, y.set)
    BY <1>4, <2>1, <2>2
  <2> QED BY <1>1, <1>2, <2>3 DEF TilesAlike
<1>5. CASE d.error = "none"
  <2>1. PICK p : p = [d.scratch EXCEPT ![d.lent] = s.values]
    OBVIOUS
  <2>2. PICK q : q = [e.scratch EXCEPT ![d.lent] = t.values]
    OBVIOUS
  <2>3. d.lent \in {"decoded", "plane"}
    BY <1>5 DEF IntsLent
  <2>4. d.scratch[d.lent].held = e.scratch[d.lent].held
    BY <1>3, <1>5, <2>3 DEF DecodesAlike, Lent
  <2>5. /\ IsBuffer(s.values) /\ IsBuffer(t.values)
        /\ d.lent \in BufferNames /\ d.lent # "inflated" /\ d.lent # "reordered"
        /\ "inflated" \in BufferNames /\ "reordered" \in BufferNames
    BY <2>3 DEF SetsAlike, IsSet, BufferNames
  <2>6. IsScratch(d.scratch) /\ IsScratch(e.scratch)
    BY <1>3 DEF ScratchesAlike
  <2>7. ScratchesAlike(p, q)
    BY <1>3, <2>1, <2>2, <2>5 DEF ScratchesAlike, IsScratch
  <2>8. IsBuffer(d.scratch[d.lent]) /\ IsBuffer(e.scratch[d.lent])
    BY <2>5, <2>6 DEF IsScratch
  <2>9. /\ x = [error |-> "none", set |-> [values |-> d.scratch[d.lent], codecs |-> p]]
        /\ y = [error |-> "none", set |-> [values |-> e.scratch[d.lent], codecs |-> q]]
    BY <1>1, <1>2, <1>3, <1>5, <2>1, <2>2 DEF SwapLent, TileError
  <2>10. x.error = "none" /\ y.error = "none" /\ x.set.values = d.scratch[d.lent] /\ x.set.codecs = p
         /\ y.set.values = e.scratch[d.lent] /\ y.set.codecs = q
         /\ x.set = [f \in {"values", "codecs"} |-> x.set[f]] /\ y.set = [f \in {"values", "codecs"} |-> y.set[f]]
    BY <2>9
  <2>11. SetsAlike(x.set, y.set)
    BY <2>7, <2>8, <2>10 DEF SetsAlike, IsSet
  <2> QED BY <1>1, <1>2, <2>4, <2>10, <2>11 DEF TilesAlike
<1> QED BY <1>4, <1>5

\* The values of a set replaced, and its codecs' scratch.
LEMMA PutAlike ==
    ASSUME NEW s, NEW t, SetsAlike(s, t), NEW v, NEW err,
           NEW m, m = [f \in {"values", "codecs"} |-> m[f]], m.values = Replaced(s.values, v),
           NEW n, n = [f \in {"values", "codecs"} |-> n[f]], n.values = Replaced(t.values, v),
           ScratchesAlike(m.codecs, n.codecs)
    PROVE  TilesAlike(TileError(err, m), TileError(err, n))
<1>1. IsBuffer(m.values) /\ IsBuffer(n.values) /\ m.values.held = n.values.held
  <2>1. IsBuffer(s.values) /\ IsBuffer(t.values)
    BY DEF SetsAlike, IsSet
  <2>2. /\ IsBuffer(Replaced(s.values, v)) /\ Replaced(s.values, v).held = <<>> \o v
        /\ IsBuffer(Replaced(t.values, v)) /\ Replaced(t.values, v).held = <<>> \o v
    BY <2>1, ReplacedIs
  <2> QED BY <2>2
<1>2. SetsAlike(m, n)
  BY <1>1 DEF SetsAlike, IsSet
<1>3. \A k : TileError(err, k).error = err /\ TileError(err, k).set = k
  BY DEF TileError
<1> QED BY <1>1, <1>2, <1>3 DEF TilesAlike

\* A tile that fails before it is decoded leaves its set.
LEMMA FailsAlike ==
    ASSUME NEW s, NEW t, SetsAlike(s, t), NEW err, err # "none"
    PROVE  TilesAlike(TileError(err, s), TileError(err, t))
BY DEF TilesAlike, TileError

LEMMA IntTileAlike ==
    ASSUME NEW s, NEW t, SetsAlike(s, t), NEW tiled, tiled.decoder.codec.kind \in CodecKinds,
           NEW source, NEW shape,
           NEW x, x = DecodeIntTile(tiled, source, shape, s),
           NEW y, y = DecodeIntTile(tiled, source, shape, t)
    PROVE  TilesAlike(x, y)
<1>1. PICK tile : tile = [shape |-> shape, width |-> tiled.decoder.intWidth, blank |-> {}]
  OBVIOUS
<1>2. PICK codec : codec = IF source.source = "gz" THEN GzipPlain ELSE tiled.decoder.codec
  OBVIOUS
<1>3. codec.kind \in CodecKinds
  BY <1>2 DEF GzipPlain, CodecKinds
<1>4. PICK element : element = source.cell.element
  OBVIOUS
<1>5. PICK stream : stream = source.cell.stream
  OBVIOUS
<1>6. CASE source.source = "un" /\ (element \notin Bitpixes \/ IsFloat(element))
  <2>1. x = TileError("CellElement", s) /\ y = TileError("CellElement", t)
    BY <1>4, <1>6 DEF DecodeIntTile
  <2> QED BY <2>1, FailsAlike
<1>7. CASE source.source = "un" /\ ~(element \notin Bitpixes \/ IsFloat(element))
  <2>1. PICK v : v = BeToI64(stream, ElemSize(element))
    OBVIOUS
  <2>2. x = TileError("none", [s EXCEPT !.values = Replaced(@, v)])
        /\ y = TileError("none", [t EXCEPT !.values = Replaced(@, v)])
    BY <1>4, <1>5, <1>7, <2>1 DEF DecodeIntTile
  <2>3. PICK m : m = [s EXCEPT !.values = Replaced(@, v)]
    OBVIOUS
  <2>4. PICK n : n = [t EXCEPT !.values = Replaced(@, v)]
    OBVIOUS
  <2>5. s = [f \in {"values", "codecs"} |-> s[f]] /\ t = [f \in {"values", "codecs"} |-> t[f]]
    BY DEF SetsAlike, IsSet
  <2>6. /\ m = [f \in {"values", "codecs"} |-> m[f]] /\ m.values = Replaced(s.values, v)
        /\ m.codecs = s.codecs
    BY <2>3, <2>5
  <2>7. /\ n = [f \in {"values", "codecs"} |-> n[f]] /\ n.values = Replaced(t.values, v)
        /\ n.codecs = t.codecs
    BY <2>4, <2>5
  <2>8. ScratchesAlike(m.codecs, n.codecs)
    BY <2>6, <2>7 DEF SetsAlike
  <2>9. x = TileError("none", m) /\ y = TileError("none", n)
    BY <2>2, <2>3, <2>4
  <2> QED BY <2>6, <2>7, <2>8, <2>9, PutAlike
<1>8. CASE source.source # "un" /\ ~StreamCellOk(source, StreamKind(codec))
  <2>1. x = TileError("CellElement", s) /\ y = TileError("CellElement", t)
    BY <1>2, <1>8 DEF DecodeIntTile
  <2> QED BY <2>1, FailsAlike
<1>9. CASE source.source # "un" /\ StreamCellOk(source, StreamKind(codec))
  <2>1. x = SwapLent(s, DecodeInts(codec, tile, stream, s.codecs))
        /\ y = SwapLent(t, DecodeInts(codec, tile, stream, t.codecs))
    BY <1>1, <1>2, <1>5, <1>9 DEF DecodeIntTile
  <2>2. PICK d : d = DecodeInts(codec, tile, stream, s.codecs)
    OBVIOUS
  <2>3. PICK e : e = DecodeInts(codec, tile, stream, t.codecs)
    OBVIOUS
  <2>4. DecodesAlike(d, e, stream) /\ IntsLent(d)
    BY <1>3, <2>2, <2>3, IntsAlike DEF SetsAlike
  <2> QED BY <2>1, <2>2, <2>3, <2>4, SwapAlike
<1> QED BY <1>6, <1>7, <1>8, <1>9

\* A set with another scratch.
LEMMA CodecsAlike ==
    ASSUME NEW s, NEW t, SetsAlike(s, t), NEW p, NEW q, ScratchesAlike(p, q),
           NEW m, m = [s EXCEPT !.codecs = p], NEW n, n = [t EXCEPT !.codecs = q]
    PROVE  SetsAlike(m, n) /\ m.values = s.values /\ n.values = t.values
<1>1. s = [f \in {"values", "codecs"} |-> s[f]] /\ t = [f \in {"values", "codecs"} |-> t[f]]
  BY DEF SetsAlike, IsSet
<1>2. /\ m = [f \in {"values", "codecs"} |-> m[f]] /\ m.codecs = p /\ m.values = s.values
      /\ n = [f \in {"values", "codecs"} |-> n[f]] /\ n.codecs = q /\ n.values = t.values
  BY <1>1
<1> QED BY <1>2 DEF SetsAlike, IsSet

LEMMA FloatTileAlike ==
    ASSUME NEW s, NEW t, SetsAlike(s, t), NEW tiled, tiled.decoder.codec.kind \in CodecKinds,
           NEW source, NEW encoding, NEW shape,
           NEW x, x = DecodeFloatTile(tiled, source, encoding, shape, s),
           NEW y, y = DecodeFloatTile(tiled, source, encoding, shape, t)
    PROVE  TilesAlike(x, y)
<1> DEFINE ints == [shape |-> shape, width |-> tiled.decoder.intWidth, blank |-> {}]
           floats == [ints EXCEPT !.width = ElemSize(tiled.image.bitpix)]
           codec == IF source.source = "gz" THEN GzipPlain ELSE tiled.decoder.codec
           element == source.cell.element
           stream == source.cell.stream
           quantized == source.source = "cd" /\ encoding # {}
           kind == IF quantized THEN StreamKind(codec) ELSE "U8"
           dequant == CHOOSE e \in encoding : TRUE
           Taken(u) == IF quantized THEN DecodeInts(codec, ints, stream, u.codecs)
                       ELSE DecodeBytes(codec, floats, stream, u.codecs)
           PutBack(u, codecs, values) == [codecs |-> codecs, values |-> Replaced(u.values, values)]
           Values(lent) == IF quantized THEN Dequantized(dequant, lent) ELSE FloatsOf(tiled.image.bitpix, lent)
           Floats(u, w) ==
             IF source.source = "un"
             THEN IF element \in {"F32", "F64"}
                  THEN TileError("none", PutBack(u, u.codecs, FloatsOf(element, stream)))
                  ELSE IF element # "U8" THEN TileError("CellElement", u)
                  ELSE IF Len(stream) # ByteLen(floats) THEN TileError("SizeMismatch", u)
                  ELSE TileError("none", PutBack(u, u.codecs, FloatsOf(tiled.image.bitpix, stream)))
             ELSE IF ~StreamCellOk(source, kind) THEN TileError("CellElement", u)
             ELSE IF w.error # "none" THEN TileError(w.error, [u EXCEPT !.codecs = w.scratch])
             ELSE TileError("none",
                     PutBack(u, w.scratch, IF quantized THEN Dequantized(dequant, Lent(w, stream))
                                       ELSE FloatsOf(tiled.image.bitpix, Lent(w, stream))))
<1>1. codec.kind \in CodecKinds
  BY DEF GzipPlain, CodecKinds
<1>2. x = Floats(s, Taken(s))
  BY DEF DecodeFloatTile, With
<1>3. y = Floats(t, Taken(t))
  BY DEF DecodeFloatTile, With
<1>4. ASSUME NEW u, NEW w
      PROVE  /\ source.source = "un" /\ element \in {"F32", "F64"}
                    => Floats(u, w) = TileError("none", PutBack(u, u.codecs, FloatsOf(element, stream)))
             /\ source.source = "un" /\ element \notin {"F32", "F64"} /\ element # "U8"
                    => Floats(u, w) = TileError("CellElement", u)
             /\ source.source = "un" /\ element = "U8" /\ Len(stream) # ByteLen(floats)
                    => Floats(u, w) = TileError("SizeMismatch", u)
             /\ source.source = "un" /\ element = "U8" /\ Len(stream) = ByteLen(floats)
                    => Floats(u, w) = TileError("none", PutBack(u, u.codecs, FloatsOf(tiled.image.bitpix, stream)))
             /\ source.source # "un" /\ ~StreamCellOk(source, kind)
                    => Floats(u, w) = TileError("CellElement", u)
             /\ source.source # "un" /\ StreamCellOk(source, kind) /\ w.error # "none"
                    => Floats(u, w) = TileError(w.error, [u EXCEPT !.codecs = w.scratch])
             /\ source.source # "un" /\ StreamCellOk(source, kind) /\ w.error = "none"
                    => Floats(u, w) = TileError("none", PutBack(u, w.scratch, Values(Lent(w, stream))))
  <2> HIDE DEF PutBack, floats, kind, quantized, dequant
  <2> QED OBVIOUS
<1>5. PICK d : d = Taken(s)
  OBVIOUS
<1>6. PICK e : e = Taken(t)
  OBVIOUS
<1>7. x = Floats(s, d) /\ y = Floats(t, e)
  <2> HIDE DEF Floats, Taken
  <2> QED BY <1>2, <1>3, <1>5, <1>6
<1>11. DecodesAlike(d, e, stream)
  <2>1. ScratchesAlike(s.codecs, t.codecs)
    BY DEF SetsAlike
  <2>2. CASE quantized
    <3>1. d = DecodeInts(codec, ints, stream, s.codecs) /\ e = DecodeInts(codec, ints, stream, t.codecs)
      BY <1>5, <1>6, <2>2
    <3> HIDE DEF codec, ints, stream
    <3> QED BY <1>1, <2>1, <3>1, IntsAlike
  <2>3. CASE ~quantized
    <3>1. d = DecodeBytes(codec, floats, stream, s.codecs) /\ e = DecodeBytes(codec, floats, stream, t.codecs)
      BY <1>5, <1>6, <2>3
    <3> HIDE DEF codec, floats, stream
    <3> QED BY <1>1, <2>1, <3>1, BytesAlike
  <2> QED BY <2>2, <2>3
<1> HIDE DEF Floats, Taken, quantized, kind, floats, ints, codec, element, stream, dequant, Values
<1>14. ASSUME NEW v, NEW p, NEW q, ScratchesAlike(p, q)
       PROVE  TilesAlike(TileError("none", PutBack(s, p, v)), TileError("none", PutBack(t, q, v)))
  <2>1. PICK m : m = PutBack(s, p, v)
    OBVIOUS
  <2>2. PICK n : n = PutBack(t, q, v)
    OBVIOUS
  <2>3. /\ m = [f \in {"values", "codecs"} |-> m[f]] /\ m.values = Replaced(s.values, v) /\ m.codecs = p
        /\ n = [f \in {"values", "codecs"} |-> n[f]] /\ n.values = Replaced(t.values, v) /\ n.codecs = q
    BY <2>1, <2>2
  <2>4. ScratchesAlike(m.codecs, n.codecs)
    BY <1>14, <2>3
  <2>5. TilesAlike(TileError("none", m), TileError("none", n))
    BY <2>3, <2>4, PutAlike
  <2> QED BY <2>1, <2>2, <2>5
<1>15. ScratchesAlike(s.codecs, t.codecs)
  BY DEF SetsAlike
<1>16. d.error = e.error /\ ScratchesAlike(d.scratch, e.scratch)
       /\ (d.error = "none" => Lent(d, stream) = Lent(e, stream))
  BY <1>11 DEF DecodesAlike
<1> HIDE DEF PutBack
<1>17. CASE source.source = "un"
  <2>1. CASE element \in {"F32", "F64"}
    <3>1. x = TileError("none", PutBack(s, s.codecs, FloatsOf(element, stream)))
          /\ y = TileError("none", PutBack(t, t.codecs, FloatsOf(element, stream)))
      BY <1>4, <1>7, <1>17, <2>1
    <3> QED BY <1>14, <1>15, <3>1
  <2>2. CASE element \notin {"F32", "F64"} /\ element # "U8"
    <3>1. x = TileError("CellElement", s) /\ y = TileError("CellElement", t)
      BY <1>4, <1>7, <1>17, <2>2
    <3> QED BY <3>1, FailsAlike
  <2>3. CASE element = "U8" /\ Len(stream) # ByteLen(floats)
    <3>1. x = TileError("SizeMismatch", s) /\ y = TileError("SizeMismatch", t)
      BY <1>4, <1>7, <1>17, <2>3
    <3> QED BY <3>1, FailsAlike
  <2>4. CASE element = "U8" /\ Len(stream) = ByteLen(floats)
    <3>1. x = TileError("none", PutBack(s, s.codecs, FloatsOf(tiled.image.bitpix, stream)))
          /\ y = TileError("none", PutBack(t, t.codecs, FloatsOf(tiled.image.bitpix, stream)))
      BY <1>4, <1>7, <1>17, <2>4
    <3> QED BY <1>14, <1>15, <3>1
  <2> QED BY <2>1, <2>2, <2>3, <2>4
<1>18. CASE source.source # "un" /\ ~StreamCellOk(source, kind)
  <2>1. x = TileError("CellElement", s) /\ y = TileError("CellElement", t)
    BY <1>4, <1>7, <1>18
  <2> QED BY <2>1, FailsAlike
<1>19. CASE source.source # "un" /\ StreamCellOk(source, kind) /\ d.error # "none"
  <2>1. PICK m : m = [s EXCEPT !.codecs = d.scratch]
    OBVIOUS
  <2>2. PICK n : n = [t EXCEPT !.codecs = e.scratch]
    OBVIOUS
  <2>3. SetsAlike(m, n)
    BY <1>16, <2>1, <2>2, CodecsAlike
  <2>4. x = TileError(d.error, m) /\ y = TileError(d.error, n)
    BY <1>4, <1>7, <1>16, <1>19, <2>1, <2>2
  <2> QED BY <1>19, <2>3, <2>4, FailsAlike
<1>20. CASE source.source # "un" /\ StreamCellOk(source, kind) /\ d.error = "none"
  <2>1. PICK v : v = Values(Lent(d, stream))
    OBVIOUS
  <2>2. v = Values(Lent(e, stream))
    BY <1>16, <1>20, <2>1
  <2>3. x = TileError("none", PutBack(s, d.scratch, Values(Lent(d, stream))))
    BY <1>4, <1>7, <1>20
  <2>4. e.error = "none" /\ source.source # "un" /\ StreamCellOk(source, kind)
    BY <1>16, <1>20
  <2>5. y = TileError("none", PutBack(t, e.scratch, Values(Lent(e, stream))))
    BY <1>4, <1>7, <2>4
  <2>6. x = TileError("none", PutBack(s, d.scratch, v)) /\ y = TileError("none", PutBack(t, e.scratch, v))
    BY <2>1, <2>2, <2>3, <2>5
  <2> QED BY <1>14, <1>16, <2>6
<1> QED BY <1>17, <1>18, <1>19, <1>20

\* The masks of two decodes of a tile's null mask.
MasksAlike(m, n) == m.error = n.error /\ m.mask = n.mask /\ SetsAlike(m.set, n.set)

\* The same cells in two tables: of the columns there are, one element, length and stream.
CellsAlike(table, row, other, place) ==
    /\ table.columns = other.columns
    /\ \A c \in {"cd", "gz", "un", "mask"} :
        table.columns[c] # {} => VlaCell(table, c, row) = VlaCell(other, c, place)

LEMMA MaskAlike ==
    ASSUME NEW s, NEW t, SetsAlike(s, t), NEW plan, \A c \in plan.maskCodec : c.kind \in CodecKinds,
           NEW table, NEW row, NEW other, NEW place, CellsAlike(table, row, other, place), NEW n,
           NEW x, x = DecodeMask(plan, table, row, n, s),
           NEW y, y = DecodeMask(plan, other, place, n, t)
    PROVE  MasksAlike(x, y) /\ x.set.values = s.values /\ y.set.values = t.values
<1> DEFINE Result(e, u, m) == [error |-> e, set |-> u, mask |-> m]
<1>0. \A e, u, m : Result(e, u, m).error = e /\ Result(e, u, m).set = u /\ Result(e, u, m).mask = m
  OBVIOUS
<1>1. CASE table.columns["mask"] = {}
  <2>1. x = Result("none", s, {}) /\ y = Result("none", t, {})
    BY <1>1 DEF DecodeMask, With, CellsAlike
  <2> HIDE DEF Result
  <2> QED BY <1>0, <2>1 DEF MasksAlike
<1>2. CASE table.columns["mask"] # {}
  <2>1. PICK cell : cell = VlaCell(table, "mask", row)
    OBVIOUS
  <2>2. cell = VlaCell(other, "mask", place) /\ other.columns = table.columns
    BY <1>2, <2>1 DEF CellsAlike
  <2>3. CASE cell.error # "none"
    <3>1. x = Result(cell.error, s, {}) /\ y = Result(cell.error, t, {})
      BY <1>2, <2>1, <2>2, <2>3 DEF DecodeMask, With
    <3> HIDE DEF Result
    <3> QED BY <1>0, <3>1 DEF MasksAlike
  <2>4. CASE cell.error = "none" /\ cell.count = 0
    <3>1. x = Result("none", s, {}) /\ y = Result("none", t, {})
      BY <1>2, <2>1, <2>2, <2>4 DEF DecodeMask, With
    <3> HIDE DEF Result
    <3> QED BY <1>0, <3>1 DEF MasksAlike
  <2>5. CASE cell.error = "none" /\ cell.count # 0 /\ plan.maskCodec = {}
    <3>1. x = Result("MissingZMASKCMP", s, {}) /\ y = Result("MissingZMASKCMP", t, {})
      BY <1>2, <2>1, <2>2, <2>5 DEF DecodeMask, With
    <3> HIDE DEF Result
    <3> QED BY <1>0, <3>1 DEF MasksAlike
  <2>6. CASE cell.error = "none" /\ cell.count # 0 /\ plan.maskCodec # {}
    <3>1. PICK codec : codec = CHOOSE c \in plan.maskCodec : TRUE
      OBVIOUS
    <3>2. codec.kind \in CodecKinds
      BY <2>6, <3>1
    <3>3. PICK tile : tile = [shape |-> <<n>>, width |-> 1, blank |-> {}]
      OBVIOUS
    <3>4. PICK d : d = DecodeInts(codec, tile, cell.stream, s.codecs)
      OBVIOUS
    <3>5. PICK e : e = DecodeInts(codec, tile, cell.stream, t.codecs)
      OBVIOUS
    <3>6. DecodesAlike(d, e, cell.stream)
      BY <3>2, <3>4, <3>5, IntsAlike DEF SetsAlike
    <3>7. PICK a : a = [s EXCEPT !.codecs = d.scratch]
      OBVIOUS
    <3>8. PICK b : b = [t EXCEPT !.codecs = e.scratch]
      OBVIOUS
    <3>9. SetsAlike(a, b) /\ a.values = s.values /\ b.values = t.values
      BY <3>6, <3>7, <3>8, CodecsAlike DEF DecodesAlike
    <3>10. PICK mask : mask = Lent(d, cell.stream)
      OBVIOUS
    <3>11. PICK alike : alike = Lent(e, cell.stream)
      OBVIOUS
    <3>12. d.error = e.error /\ (d.error = "none" => mask = alike)
      BY <3>6, <3>10, <3>11 DEF DecodesAlike
    <3>13. x = IF cell.element # StreamKind(codec) THEN Result("CellElement", s, {})
               ELSE IF d.error # "none" THEN Result(d.error, a, {})
               ELSE IF Len(mask) # n THEN Result("SizeMismatch", a, {})
               ELSE IF \E k \in 1..n : mask[k] \notin {0, 1} THEN Result("NullMask", a, {})
               ELSE Result("none", a, {mask})
      BY <1>2, <2>1, <2>6, <3>1, <3>3, <3>4, <3>7, <3>10 DEF DecodeMask, With
    <3>14. y = IF cell.element # StreamKind(codec) THEN Result("CellElement", t, {})
               ELSE IF e.error # "none" THEN Result(e.error, b, {})
               ELSE IF Len(alike) # n THEN Result("SizeMismatch", b, {})
               ELSE IF \E k \in 1..n : alike[k] \notin {0, 1} THEN Result("NullMask", b, {})
               ELSE Result("none", b, {alike})
      BY <1>2, <2>1, <2>2, <2>6, <3>1, <3>3, <3>5, <3>8, <3>11 DEF DecodeMask, With
    <3> HIDE DEF Result
    <3>15. CASE cell.element # StreamKind(codec)
      BY <1>0, <3>13, <3>14, <3>15 DEF MasksAlike
    <3>16. CASE cell.element = StreamKind(codec) /\ d.error # "none"
      BY <1>0, <3>9, <3>12, <3>13, <3>14, <3>16 DEF MasksAlike
    <3>17. CASE cell.element = StreamKind(codec) /\ d.error = "none"
      <4>1. alike = mask /\ e.error = "none"
        BY <3>12, <3>17
      <4>2. \E err, k : x = Result(err, a, k) /\ y = Result(err, b, k)
        BY <3>13, <3>14, <3>17, <4>1
      <4> QED BY <1>0, <3>9, <4>2 DEF MasksAlike
    <3> QED BY <3>15, <3>16, <3>17
  <2> QED BY <2>3, <2>4, <2>5, <2>6
<1> QED BY <1>1, <1>2

\* The contents of a set's values put in their place.
HeldIn(s, v) == [s EXCEPT !.values.held = v]

LEMMA HeldAlike ==
    ASSUME NEW s, NEW t, SetsAlike(s, t), NEW v
    PROVE  /\ SetsAlike(HeldIn(s, v), HeldIn(t, v))
           /\ HeldIn(s, v).values.held = v /\ HeldIn(t, v).values.held = v
<1>1. ASSUME NEW u, IsSet(u)
      PROVE  /\ IsSet(HeldIn(u, v)) /\ HeldIn(u, v).codecs = u.codecs /\ HeldIn(u, v).values.held = v
  <2>1. u = [f \in {"values", "codecs"} |-> u[f]] /\ IsBuffer(u.values)
    BY <1>1 DEF IsSet
  <2>2. PICK b : b = [u.values EXCEPT !.held = v]
    OBVIOUS
  <2>3. IsBuffer(b) /\ b.held = v
    BY <2>1, <2>2 DEF IsBuffer
  <2>4. PICK m : m = [u EXCEPT !.values = b]
    OBVIOUS
  <2>5. m = HeldIn(u, v)
    BY <2>2, <2>4 DEF HeldIn
  <2>6. m = [f \in {"values", "codecs"} |-> m[f]] /\ m.values = b /\ m.codecs = u.codecs
    BY <2>1, <2>4
  <2> QED BY <2>3, <2>5, <2>6 DEF IsSet
<1> QED BY <1>1 DEF SetsAlike

LEMMA FloatNullsAlike ==
    ASSUME NEW s, NEW t, SetsAlike(s, t), s.values.held = t.values.held,
           NEW plan, \A c \in plan.maskCodec : c.kind \in CodecKinds,
           NEW table, NEW at, NEW other, NEW to, CellsAlike(table, at.table, other, to.table), NEW n,
           NEW x, x = ApplyFloat(plan, table, at, n, s),
           NEW y, y = ApplyFloat(plan, other, to, n, t)
    PROVE  TilesAlike(x, y)
<1>1. PICK m : m = DecodeMask(plan, table, at.table, n, s)
  OBVIOUS
<1>2. PICK k : k = DecodeMask(plan, other, to.table, n, t)
  OBVIOUS
<1>3. MasksAlike(m, k) /\ m.set.values = s.values /\ k.set.values = t.values
  BY <1>1, <1>2, MaskAlike
<1>4. PICK v : v = FillMasked(m.set.values.held, m.mask, NotFinite)
  OBVIOUS
<1>5. v = FillMasked(k.set.values.held, k.mask, NotFinite)
  BY <1>3, <1>4 DEF MasksAlike
<1>6. x = TileError(m.error, HeldIn(m.set, v)) /\ y = TileError(k.error, HeldIn(k.set, v))
  BY <1>1, <1>2, <1>4, <1>5 DEF ApplyFloat, With, HeldIn
<1>7. SetsAlike(HeldIn(m.set, v), HeldIn(k.set, v)) /\ HeldIn(m.set, v).values.held = v /\ HeldIn(k.set, v).values.held = v
  BY <1>3, HeldAlike DEF MasksAlike
<1>8. m.error = k.error
  BY <1>3 DEF MasksAlike
<1> QED BY <1>6, <1>7, <1>8 DEF TilesAlike, TileError

LEMMA IntegerNullsAlike ==
    ASSUME NEW s, NEW t, SetsAlike(s, t), s.values.held = t.values.held,
           NEW plan, \A c \in plan.maskCodec : c.kind \in CodecKinds,
           NEW table, NEW at, NEW other, NEW to, at.grid = to.grid,
           CellsAlike(table, at.table, other, to.table), NEW n,
           NEW x, x = ApplyInteger(plan, table, at, n, s),
           NEW y, y = ApplyInteger(plan, other, to, n, t)
    PROVE  TilesAlike(x, y)
<1>1. PICK stored : stored = plan.stored[at.grid + 1]
  OBVIOUS
<1>2. PICK values : values = s.values.held
  OBVIOUS
<1>3. PICK found \in BOOLEAN : found <=> /\ stored # {} /\ stored # plan.blank
                                         /\ \E k \in DOMAIN values : values[k] \in stored
  OBVIOUS
<1>4. PICK blanked : blanked = IF found
                   THEN [k \in DOMAIN values |->
                            IF values[k] \in stored THEN OrElse(plan.blank, 0) ELSE values[k]]
                   ELSE values
  OBVIOUS
<1>5. PICK p : p = HeldIn(s, blanked)
  OBVIOUS
<1>6. PICK q : q = HeldIn(t, blanked)
  OBVIOUS
<1>7. SetsAlike(p, q)
  BY <1>5, <1>6, HeldAlike
<1>8. PICK m : m = DecodeMask(plan, table, at.table, n, p)
  OBVIOUS
<1>9. PICK k : k = DecodeMask(plan, other, to.table, n, q)
  OBVIOUS
<1>10. MasksAlike(m, k)
  BY <1>7, <1>8, <1>9, MaskAlike
<1>11. PICK masked : masked = FillMasked(blanked, m.mask, OrElse(plan.blank, 0))
  OBVIOUS
<1>12. x = IF found /\ plan.blank = {} THEN TileError("MissingBLANK", s)
           ELSE IF m.error # "none" THEN TileError(m.error, m.set)
           ELSE IF m.mask # {} /\ plan.blank = {} THEN TileError("MissingBLANK", m.set)
           ELSE TileError("none", HeldIn(m.set, masked))
  BY <1>1, <1>2, <1>3, <1>4, <1>5, <1>8, <1>11 DEF ApplyInteger, With, HeldIn
<1>13. m.error = k.error /\ m.mask = k.mask /\ SetsAlike(m.set, k.set)
  BY <1>10 DEF MasksAlike
<1>14. y = IF found /\ plan.blank = {} THEN TileError("MissingBLANK", t)
           ELSE IF k.error # "none" THEN TileError(k.error, k.set)
           ELSE IF k.mask # {} /\ plan.blank = {} THEN TileError("MissingBLANK", k.set)
           ELSE TileError("none", HeldIn(k.set, masked))
  BY <1>1, <1>2, <1>3, <1>4, <1>6, <1>9, <1>11, <1>13 DEF ApplyInteger, With, HeldIn
<1>15. SetsAlike(HeldIn(m.set, masked), HeldIn(k.set, masked))
       /\ HeldIn(m.set, masked).values.held = masked /\ HeldIn(k.set, masked).values.held = masked
  BY <1>13, HeldAlike
<1>16. \A e, u, w : SetsAlike(u, w) /\ e # "none" => TilesAlike(TileError(e, u), TileError(e, w))
  BY FailsAlike
<1>17. TilesAlike(TileError("none", HeldIn(m.set, masked)), TileError("none", HeldIn(k.set, masked)))
  BY <1>15 DEF TilesAlike, TileError
<1> QED BY <1>12, <1>13, <1>14, <1>16, <1>17

\* The cell a tile is stored in, of the columns the two tables have.
LEMMA SourceAlike ==
    ASSUME NEW table, NEW row, NEW other, NEW place, CellsAlike(table, row, other, place)
    PROVE  TileSource(table, row) = TileSource(other, place)
<1> DEFINE order == <<"cd", "gz", "un">>
           Found(b, r) == {k \in 1..3 : /\ b.columns[order[k]] # {}
                                        /\ VlaCell(b, order[k], r).error # "none"
                                             \/ VlaCell(b, order[k], r).count > 0}
           First(f) == CHOOSE k \in f : \A j \in f : k <= j
           Source(b, r, f) ==
             IF f = {} THEN Refused("EmptyTile")
             ELSE IF VlaCell(b, order[First(f)], r).error # "none" THEN VlaCell(b, order[First(f)], r)
             ELSE [error |-> "none", source |-> order[First(f)], cell |-> VlaCell(b, order[First(f)], r)]
<1>1. ASSUME NEW b, NEW r PROVE TileSource(b, r) = Source(b, r, Found(b, r))
  BY DEF TileSource, With
<1>2. \A k \in 1..3 : order[k] \in {"cd", "gz", "un", "mask"}
  OBVIOUS
<1> HIDE DEF order
<1>3. \A k \in 1..3 : /\ table.columns[order[k]] = other.columns[order[k]]
                      /\ table.columns[order[k]] # {} => VlaCell(table, order[k], row) = VlaCell(other, order[k], place)
  BY <1>2 DEF CellsAlike
<1>4. PICK f : f = Found(table, row)
  OBVIOUS
<1>5. f = Found(other, place)
  BY <1>3, <1>4
<1>6. PICK k : k = First(f)
  OBVIOUS
<1>7. CASE f = {}
  BY <1>1, <1>4, <1>5, <1>7
<1>8. CASE f # {}
  <2>1. f \in SUBSET Nat
    BY <1>4
  <2>2. PICK m \in f : \A j \in f : m <= j
    BY <1>8, <2>1, LeastMember
  <2>3. k \in f
    BY <1>6, <2>2
  <2>4. k \in 1..3 /\ table.columns[order[k]] # {}
    BY <1>4, <2>3
  <2>5. VlaCell(table, order[k], row) = VlaCell(other, order[k], place)
    BY <1>3, <2>4
  <2>6. Source(table, row, f) = Source(other, place, f)
    <3> HIDE DEF First
    <3> QED BY <1>6, <2>5
  <2> HIDE DEF Source, Found
  <2> QED BY <1>1, <1>4, <1>5, <2>6
<1> QED BY <1>7, <1>8

\* A tile decoded twice: of sets whose inflate buffers have the same capacities, out of
\* two tables that hold the same cells, it comes out the same.
LEMMA DecodeTileAlike ==
    ASSUME NEW s, NEW t, SetsAlike(s, t), NEW plan, plan.tiled.decoder.codec.kind \in CodecKinds,
           \A c \in plan.maskCodec : c.kind \in CodecKinds,
           NEW table, NEW at, NEW other, NEW to, at.grid = to.grid,
           CellsAlike(table, at.table, other, to.table),
           NEW x, x = DecodeTile(plan, table, at, s),
           NEW y, y = DecodeTile(plan, other, to, t)
    PROVE  TilesAlike(x, y)
<1>1. PICK tile : tile = TileInto(plan.tiled.geometry, at.grid)
  OBVIOUS
<1>2. PICK source : source = TileSource(table, at.table)
  OBVIOUS
<1>3. source = TileSource(other, to.table)
  BY <1>2, SourceAlike
<1>4. PICK float \in BOOLEAN : float <=> IsFloat(plan.tiled.image.bitpix)
  OBVIOUS
<1> DEFINE Raw(u) == IF float THEN DecodeFloatTile(plan.tiled, source, plan.encoding[at.grid + 1], tile.tdims, u)
                     ELSE DecodeIntTile(plan.tiled, source, tile.tdims, u)
           Nulled(b, a, r) == IF float THEN ApplyFloat(plan, b, a, Nelem(tile), r.set)
                              ELSE ApplyInteger(plan, b, a, Nelem(tile), r.set)
           Fit(k) == FitIntegers(plan.tiled.image.bitpix, k.set.values.held,
                                 source.source = "cd" /\ plan.tiled.decoder.codec.kind = "Hcompress")
           Tile(u, r, k, f) ==
             IF source.error # "none" THEN TileError(source.error, u)
             ELSE IF r.error # "none" THEN r
             ELSE IF k.error # "none" THEN k
             ELSE IF Len(k.set.values.held) # Nelem(tile) THEN TileError("SizeMismatch", k.set)
             ELSE IF float THEN k
             ELSE TileError(f.error, HeldIn(k.set, f.values))
<1>5. PICK r : r = Raw(s)
  OBVIOUS
<1>6. PICK q : q = Raw(t)
  OBVIOUS
<1>7. TilesAlike(r, q)
  BY <1>5, <1>6, FloatTileAlike, IntTileAlike
<1>8. PICK k : k = Nulled(table, at, r)
  OBVIOUS
<1>9. PICK l : l = Nulled(other, to, q)
  OBVIOUS
<1>10. x = Tile(s, r, k, Fit(k))
  BY <1>1, <1>2, <1>4, <1>5, <1>8 DEF DecodeTile, With, HeldIn
<1>11. y = Tile(t, q, l, Fit(l))
  BY <1>1, <1>3, <1>4, <1>6, <1>9 DEF DecodeTile, With, HeldIn
<1>12. r.error = "none" => TilesAlike(k, l)
  <2>1. SUFFICES ASSUME r.error = "none" PROVE TilesAlike(k, l)
    OBVIOUS
  <2>2. SetsAlike(r.set, q.set) /\ r.set.values.held = q.set.values.held
    BY <1>7, <2>1 DEF TilesAlike
  <2>3. CASE float
    <3>1. k = ApplyFloat(plan, table, at, Nelem(tile), r.set) /\ l = ApplyFloat(plan, other, to, Nelem(tile), q.set)
      BY <1>8, <1>9, <2>3
    <3> QED BY <2>2, <3>1, FloatNullsAlike
  <2>4. CASE ~float
    <3>1. k = ApplyInteger(plan, table, at, Nelem(tile), r.set) /\ l = ApplyInteger(plan, other, to, Nelem(tile), q.set)
      BY <1>8, <1>9, <2>4
    <3> QED BY <2>2, <3>1, IntegerNullsAlike
  <2> QED BY <2>3, <2>4
<1> HIDE DEF Raw, Nulled
<1>13. PICK f : f = Fit(k)
  OBVIOUS
<1>14. PICK g : g = Fit(l)
  OBVIOUS
<1>15. x = Tile(s, r, k, f) /\ y = Tile(t, q, l, g)
  <2> HIDE DEF Tile, Fit
  <2> QED BY <1>10, <1>11, <1>13, <1>14
<1>16. CASE source.error # "none"
  BY <1>15, <1>16, FailsAlike
<1>17. CASE source.error = "none" /\ r.error # "none"
  <2>1. x = r /\ y = q
    BY <1>7, <1>15, <1>17 DEF TilesAlike
  <2> QED BY <1>7, <2>1
<1>18. CASE source.error = "none" /\ r.error = "none" /\ k.error # "none"
  <2>1. TilesAlike(k, l) /\ q.error = "none" /\ l.error # "none"
    BY <1>7, <1>12, <1>18 DEF TilesAlike
  <2>2. x = k /\ y = l
    BY <1>15, <1>18, <2>1
  <2> QED BY <2>1, <2>2
<1>19. CASE source.error = "none" /\ r.error = "none" /\ k.error = "none"
  <2>1. TilesAlike(k, l) /\ q.error = "none" /\ l.error = "none"
        /\ SetsAlike(k.set, l.set) /\ k.set.values.held = l.set.values.held
    BY <1>7, <1>12, <1>19 DEF TilesAlike
  <2>2. f = g
    BY <1>13, <1>14, <2>1
  <2> HIDE DEF Fit
  <2>3. CASE Len(k.set.values.held) # Nelem(tile)
    <3>1. x = TileError("SizeMismatch", k.set) /\ y = TileError("SizeMismatch", l.set)
      BY <1>15, <1>19, <2>1, <2>3
    <3> QED BY <2>1, <3>1, FailsAlike
  <2>4. CASE Len(k.set.values.held) = Nelem(tile) /\ float
    <3>1. x = k /\ y = l
      BY <1>15, <1>19, <2>1, <2>4
    <3> QED BY <2>1, <3>1
  <2>5. CASE Len(k.set.values.held) = Nelem(tile) /\ ~float
    <3>1. x = TileError(f.error, HeldIn(k.set, f.values)) /\ y = TileError(f.error, HeldIn(l.set, f.values))
      BY <1>15, <1>19, <2>1, <2>2, <2>5
    <3>2. SetsAlike(HeldIn(k.set, f.values), HeldIn(l.set, f.values))
          /\ HeldIn(k.set, f.values).values.held = f.values /\ HeldIn(l.set, f.values).values.held = f.values
      BY <2>1, HeldAlike
    <3> QED BY <3>1, <3>2 DEF TilesAlike, TileError
  <2> QED BY <2>3, <2>4, <2>5
<1> QED BY <1>16, <1>17, <1>18, <1>19

-----------------------------------------------------------------------------
(* A decode within its plan leaves the inflate buffers as large as they were. *)

\* A gzip stream of the tile has the room in the inflate buffers that it needs.
HasRoom(s, codec, tile) ==
    codec.kind \in {"Gzip1", "Gzip2"} =>
        /\ ByteLen(tile) \in Nat /\ s.inflated.cap \in Nat /\ s.reordered.cap \in Nat
        /\ IF ShuffleOf(codec, tile) <= 1 THEN ByteLen(tile) + 1 <= s.inflated.cap
           ELSE /\ ShuffleOf(codec, tile) \in {2, 4, 8}
                /\ ByteLen(tile) <= s.inflated.cap /\ ByteLen(tile) + 1 <= s.reordered.cap

LEMMA ScratchAlikeItself ==
    ASSUME NEW s, IsScratch(s)
    PROVE  ScratchesAlike(s, s)
BY DEF ScratchesAlike

LEMMA ScratchesAlikeTwice ==
    ASSUME NEW s, NEW t, NEW u, ScratchesAlike(s, t), ScratchesAlike(t, u)
    PROVE  ScratchesAlike(s, u) /\ ScratchesAlike(t, s)
BY DEF ScratchesAlike

LEMMA RefilledKeeps ==
    ASSUME NEW s, IsScratch(s), NEW b \in {"decoded", "bytes", "plane"}, NEW v
    PROVE  ScratchesAlike(s, Refilled(s, b, v))
<1>1. b \in BufferNames /\ b # "inflated" /\ b # "reordered"
      /\ "inflated" \in BufferNames /\ "reordered" \in BufferNames
  BY DEF BufferNames
<1>2. ScratchesAlike(Refilled(s, b, v), Refilled(s, b, v))
  BY ScratchAlikeItself, RefilledAlike
<1>3. PICK x : x = Replaced(s[b], v)
  OBVIOUS
<1>4. PICK p : p = [s EXCEPT ![b] = x]
  OBVIOUS
<1>5. p = Refilled(s, b, v)
  BY <1>3, <1>4 DEF Refilled
<1>6. p["inflated"] = s["inflated"] /\ p["reordered"] = s["reordered"]
  BY <1>1, <1>4 DEF IsScratch
<1> QED BY <1>2, <1>5, <1>6 DEF ScratchesAlike

LEMMA GunzipKeeps ==
    ASSUME NEW a, IsBuffer(a), a.cap \in Nat, NEW expected \in Nat, expected + 1 <= a.cap, NEW member,
           NEW x, x = GunzipInto(a, member, expected)
    PROVE  /\ IsBuffer(x.buffer) /\ x.buffer.cap = a.cap
           /\ x.error = "none" => Len(x.buffer.held) = expected
<1>1. PICK empty : empty = GrowTo(Cleared(a), Room(expected))
  OBVIOUS
<1>2. IsBuffer(empty) /\ empty.cap = a.cap
  <2>1. IsBuffer(Cleared(a)) /\ Cleared(a).cap = a.cap
    BY ClearedIs
  <2>2. IsBuffer(empty) /\ empty.cap = MaxOf(a.cap, expected + 1)
    BY <1>1, <2>1, GrowToIs DEF Room
  <2> QED BY <2>2 DEF MaxOf
<1>3. PICK got : got = [empty EXCEPT !.held = @ \o SubSeq(member.data, 1, MinOf(Len(member.data), empty.cap))]
  OBVIOUS
<1>4. IsBuffer(got) /\ got.cap = a.cap
  BY <1>2, <1>3 DEF IsBuffer
<1>5. CASE ~MemberBodyOk(member)
  <2>1. x = [error |-> "GzipHeader", buffer |-> a]
    BY <1>5 DEF GunzipInto, With
  <2> QED BY <2>1
<1>6. CASE MemberBodyOk(member)
  <2>1. x.buffer = got /\ (x.error = "none" => Len(got.held) = expected)
    BY <1>1, <1>3, <1>6 DEF GunzipInto, With
  <2> QED BY <1>4, <2>1
<1> QED BY <1>5, <1>6

\* As many bytes come out of the unshuffle as go in.
LEMMA UnshuffledLen ==
    ASSUME NEW planes, NEW n \in Nat, Len(planes) = n, NEW width \in {2, 4, 8}
    PROVE  Len(<<>> \o UnshuffleBytes(planes, width)) = n
<1>1. PICK u : u = UnshuffleBytes(planes, width)
  OBVIOUS
<1>2. u = [k \in 1..n |-> u[k]]
  BY <1>1 DEF UnshuffleBytes
<1>3. IsSeq(u) /\ Len(u) = n
  BY <1>2, FunIsSeq
<1>4. IsSeq(<<>>) /\ Len(<<>>) = 0
  BY DEF IsSeq
<1> QED BY <1>1, <1>3, <1>4, ConcatIsSeq DEF Joins

LEMMA GzipKeeps ==
    ASSUME NEW s, IsScratch(s), NEW codec, codec.kind \in {"Gzip1", "Gzip2"}, NEW tile,
           HasRoom(s, codec, tile), NEW member,
           NEW d, d = DecodeGzip(codec, tile, member, s)
    PROVE  ScratchesAlike(s, d.scratch)
<1>1. PICK n : n = ByteLen(tile)
  OBVIOUS
<1>2. PICK w : w = ShuffleOf(codec, tile)
  OBVIOUS
<1>3. PICK x : x = Inflated(codec, tile, member, s)
  OBVIOUS
<1>4. PICK p : p = UnshuffledOf(codec, tile, member, s)
  OBVIOUS
<1>5. d.scratch = AfterGzip(codec, tile, member, s)
  <2>1. PICK after : after = AfterGzip(codec, tile, member, s)
    OBVIOUS
  <2>2. d = [error |-> x.error, scratch |-> after, lent |-> "inflated"]
    BY <1>3, <2>1, DecodeGzipIs
  <2> QED BY <2>1, <2>2
<1>6. s = [b \in BufferNames |-> s[b]] /\ \A b \in BufferNames : IsBuffer(s[b])
  BY DEF IsScratch
<1>7. IsBuffer(s.inflated) /\ IsBuffer(s.reordered)
  BY <1>6 DEF BufferNames
<1>8. n \in Nat /\ s.inflated.cap \in Nat /\ s.reordered.cap \in Nat
  BY <1>1 DEF HasRoom
<1>9. CASE w <= 1
  <2>1. x = GunzipInto(s.inflated, member, n) /\ n + 1 <= s.inflated.cap
    BY <1>1, <1>2, <1>3, <1>9 DEF Inflated, HasRoom
  <2>2. IsBuffer(x.buffer) /\ x.buffer.cap = s.inflated.cap
    BY <1>7, <1>8, <2>1, GunzipKeeps
  <2>3. PICK q : q = [s EXCEPT !.inflated = x.buffer]
    OBVIOUS
  <2>4. d.scratch = q
    BY <1>2, <1>3, <1>5, <1>9, <2>3 DEF AfterGzip
  <2>5. ScratchesAlike(s, q)
    BY <1>6, <2>2, <2>3 DEF ScratchesAlike, IsScratch, BufferNames
  <2> QED BY <2>4, <2>5
<1>10. CASE ~(w <= 1)
  <2>1. x = GunzipInto(s.reordered, member, n) /\ n + 1 <= s.reordered.cap
        /\ w \in {2, 4, 8} /\ n <= s.inflated.cap
    BY <1>1, <1>2, <1>3, <1>10 DEF Inflated, HasRoom
  <2>2. IsBuffer(x.buffer) /\ x.buffer.cap = s.reordered.cap
        /\ (x.error = "none" => Len(x.buffer.held) = n)
    BY <1>7, <1>8, <2>1, GunzipKeeps
  <2>3. CASE x.error # "none"
    <3>1. PICK q : q = [s EXCEPT !.reordered = x.buffer]
      OBVIOUS
    <3>2. d.scratch = q
      BY <1>2, <1>3, <1>5, <1>10, <2>3, <3>1 DEF AfterGzip
    <3>3. ScratchesAlike(s, q)
      BY <1>6, <2>2, <3>1 DEF ScratchesAlike, IsScratch, BufferNames
    <3> QED BY <3>2, <3>3
  <2>4. CASE x.error = "none"
    <3>1. PICK v : v = UnshuffleBytes(x.buffer.held, w)
      OBVIOUS
    <3>2. PICK empty : empty = Cleared(s.inflated)
      OBVIOUS
    <3>3. IsBuffer(empty) /\ empty.held = <<>> /\ empty.cap = s.inflated.cap
      BY <1>7, <3>2, ClearedIs
    <3>4. p = Filled(empty, v)
      BY <1>2, <1>3, <1>4, <3>1, <3>2 DEF UnshuffledOf
    <3>5. IsBuffer(p) /\ p.cap = MaxOf(s.inflated.cap, Len(<<>> \o v))
      BY <3>3, <3>4, FilledIs
    <3>6. Len(<<>> \o v) = n
      BY <1>8, <2>1, <2>2, <2>4, <3>1, UnshuffledLen
    <3>7. p.cap = s.inflated.cap
      BY <1>8, <2>1, <3>5, <3>6 DEF MaxOf
    <3>8. PICK q : q = [s EXCEPT !.reordered = x.buffer, !.inflated = p]
      OBVIOUS
    <3>9. d.scratch = q
      BY <1>2, <1>3, <1>4, <1>5, <1>10, <2>4, <3>8 DEF AfterGzip
    <3>10. ScratchesAlike(s, q)
      BY <1>6, <2>2, <3>5, <3>7, <3>8 DEF ScratchesAlike, IsScratch, BufferNames
    <3> QED BY <3>9, <3>10
  <2> QED BY <2>3, <2>4
<1> QED BY <1>9, <1>10

LEMMA IntsKeep ==
    ASSUME NEW s, IsScratch(s), NEW codec, codec.kind \in CodecKinds, NEW tile,
           HasRoom(s, codec, tile), NEW stream,
           NEW d, d = DecodeInts(codec, tile, stream, s)
    PROVE  ScratchesAlike(s, d.scratch)
<1>1. ASSUME NEW r, d = DecodePlainInts(s, Count(tile), r)
      PROVE  ScratchesAlike(s, d.scratch)
  <2>1. PICK v : v = IF r.ok THEN r.out ELSE Zeros(Count(tile))
    OBVIOUS
  <2>2. PICK p : p = Refilled(s, "decoded", v)
    OBVIOUS
  <2>3. PICK err : err = IF r.ok THEN "none" ELSE "stream"
    OBVIOUS
  <2>4. d = [error |-> err, scratch |-> p, lent |-> "decoded"]
    BY <1>1, <2>1, <2>2, <2>3 DEF DecodePlainInts, Decode, Refilled
  <2> QED BY <2>2, <2>4, RefilledKeeps
<1>2. CASE codec.kind \in {"Rice", "Plio"}
  <2>1. \E r : d = DecodePlainInts(s, Count(tile), r)
    BY <1>2 DEF DecodeInts
  <2> QED BY <1>1, <2>1
<1>3. CASE codec.kind = "Hcompress"
  <2>1. d = DecodeHcompress(codec, tile, stream, s)
    BY <1>3 DEF DecodeInts
  <2>2. PICK ny : ny = tile.shape[codec.plane[1]]
    OBVIOUS
  <2>3. PICK nx : nx = tile.shape[codec.plane[2]]
    OBVIOUS
  <2>4. PICK h : h = HcompressDecode(stream, nx, ny, codec.smoothing)
    OBVIOUS
  <2>5. PICK v : v = IF h.ok THEN h.out ELSE Zeros(nx * ny)
    OBVIOUS
  <2>6. PICK p : p = Worked(s, v, HcompressCapacities(ny, nx))
    OBVIOUS
  <2>7. PICK err : err = IF h.ok THEN "none" ELSE h.error
    OBVIOUS
  <2>8. PICK header \in BOOLEAN : header <=> (~h.ok /\ h.error \in {"magic", "negative", "dimensions", "planes"})
    OBVIOUS
  <2>9. d = [error |-> err, scratch |-> IF header THEN s ELSE p, lent |-> "plane"]
    BY <2>1, <2>2, <2>3, <2>4, <2>5, <2>6, <2>7, <2>8 DEF DecodeHcompress, With, Decode, Worked
  <2>10. d.scratch = s \/ d.scratch = p
    BY <2>9
  <2>11. ScratchesAlike(s, p)
    BY <2>6, WorkedIs DEF ScratchesAlike
  <2> QED BY <2>10, <2>11, ScratchAlikeItself
<1>4. CASE codec.kind \in {"Gzip1", "Gzip2"}
  <2>1. PICK g : g = DecodeGzip(codec, tile, stream, s)
    OBVIOUS
  <2>2. ScratchesAlike(s, g.scratch)
    BY <1>4, <2>1, GzipKeeps
  <2>3. CASE g.error # "none"
    <3>1. d = g
      BY <1>4, <2>1, <2>3 DEF DecodeInts, With
    <3> QED BY <2>2, <3>1
  <2>4. CASE g.error = "none"
    <3>1. PICK v : v = BeToI64(g.scratch.inflated.held, tile.width)
      OBVIOUS
    <3>2. PICK p : p = Refilled(g.scratch, "decoded", v)
      OBVIOUS
    <3>3. d.scratch = p
      BY <1>4, <2>1, <2>4, <3>1, <3>2 DEF DecodeInts, With, Decode, Refilled
    <3>4. ScratchesAlike(g.scratch, p)
      BY <2>2, <3>2, RefilledKeeps DEF ScratchesAlike
    <3> QED BY <2>2, <3>3, <3>4, ScratchesAlikeTwice
  <2> QED BY <2>3, <2>4
<1>5. CASE codec.kind = "NoCompress"
  <2>1. PICK v : v = BeToI64(stream, tile.width)
    OBVIOUS
  <2>2. PICK p : p = Refilled(s, "decoded", v)
    OBVIOUS
  <2>3. d.scratch = s \/ d.scratch = p
    BY <1>5, <2>1, <2>2 DEF DecodeInts, Decode, Refilled
  <2> QED BY <2>2, <2>3, RefilledKeeps, ScratchAlikeItself
<1> QED BY <1>2, <1>3, <1>4, <1>5 DEF CodecKinds

LEMMA BytesKeep ==
    ASSUME NEW s, IsScratch(s), NEW codec, codec.kind \in CodecKinds, NEW tile,
           HasRoom(s, codec, tile), NEW stream,
           NEW d, d = DecodeBytes(codec, tile, stream, s)
    PROVE  ScratchesAlike(s, d.scratch)
<1>1. CASE codec.kind \in {"Gzip1", "Gzip2"}
  <2>1. d = DecodeGzip(codec, tile, stream, s)
    BY <1>1 DEF DecodeBytes
  <2> QED BY <1>1, <2>1, GzipKeeps
<1>2. CASE codec.kind = "NoCompress"
  <2>1. d.scratch = s
    BY <1>2 DEF DecodeBytes, Decode
  <2> QED BY <2>1, ScratchAlikeItself
<1>3. CASE codec.kind \in {"Rice", "Plio", "Hcompress"}
  <2>1. PICK g : g = DecodeInts(codec, tile, stream, s)
    OBVIOUS
  <2>2. ScratchesAlike(s, g.scratch)
    BY <2>1, IntsKeep
  <2>3. CASE g.error # "none"
    <3>1. d = [g EXCEPT !.lent = "bytes"]
      BY <1>3, <2>1, <2>3 DEF DecodeBytes, With
    <3>2. g = [error |-> g.error, scratch |-> g.scratch, lent |-> g.lent]
      BY <2>1, DecodeIntsIs
    <3>3. d.scratch = g.scratch
      BY <3>1, <3>2
    <3> QED BY <2>2, <3>3
  <2>4. CASE g.error = "none"
    <3>1. PICK v : v = I64ToBe(g.scratch[g.lent].held, tile.width)
      OBVIOUS
    <3>2. PICK p : p = Refilled(g.scratch, "bytes", v)
      OBVIOUS
    <3>3. d.scratch = p
      BY <1>3, <2>1, <2>4, <3>1, <3>2 DEF DecodeBytes, With, Decode, Refilled
    <3>4. ScratchesAlike(g.scratch, p)
      BY <2>2, <3>2, RefilledKeeps DEF ScratchesAlike
    <3> QED BY <2>2, <3>3, <3>4, ScratchesAlikeTwice
  <2> QED BY <2>3, <2>4
<1> QED BY <1>1, <1>2, <1>3 DEF CodecKinds

\* A tile's samples as its decoder reads them, and its null mask.
IntsTile(plan, shape) == [shape |-> shape, width |-> plan.tiled.decoder.intWidth, blank |-> {}]

FloatsTile(plan, shape) == [shape |-> shape, width |-> ElemSize(plan.tiled.image.bitpix), blank |-> {}]

MaskTile(n) == [shape |-> <<n>>, width |-> 1, blank |-> {}]

\* The stored tile has the room it needs, whichever column it is in.
TileHasRoom(s, plan, shape, encoding) ==
    /\ plan.columns["cd"] # {} =>
            HasRoom(s, plan.tiled.decoder.codec,
                    IF IsFloat(plan.tiled.image.bitpix) /\ encoding = {} THEN FloatsTile(plan, shape)
                    ELSE IntsTile(plan, shape))
    /\ plan.columns["gz"] # {} =>
            HasRoom(s, GzipPlain,
                    IF IsFloat(plan.tiled.image.bitpix) THEN FloatsTile(plan, shape)
                    ELSE IntsTile(plan, shape))

MaskHasRoom(s, plan, n) ==
    plan.columns["mask"] # {} => \A c \in plan.maskCodec : HasRoom(s, c, MaskTile(n))

LEMMA RoomAlike ==
    ASSUME NEW s, NEW t, ScratchesAlike(s, t), NEW plan, NEW n, MaskHasRoom(s, plan, n)
    PROVE  MaskHasRoom(t, plan, n)
<1>1. \A codec, tile : HasRoom(s, codec, tile) => HasRoom(t, codec, tile)
  BY DEF ScratchesAlike, HasRoom
<1> QED BY <1>1 DEF MaskHasRoom

IsWorkSet(s) == IsSet(s) /\ IsScratch(s.codecs)

LEMMA WorkSetAlike ==
    ASSUME NEW s
    PROVE  /\ IsWorkSet(s) <=> SetsAlike(s, s)
           /\ \A t : SetsAlike(s, t) => IsWorkSet(s) /\ IsWorkSet(t) /\ ScratchesAlike(s.codecs, t.codecs)
           /\ \A t, u : SetsAlike(s, t) /\ SetsAlike(t, u) => SetsAlike(s, u)
           /\ \A t : IsWorkSet(s) /\ IsWorkSet(t) /\ ScratchesAlike(s.codecs, t.codecs) => SetsAlike(s, t)
BY DEF IsWorkSet, SetsAlike, ScratchesAlike

\* The column a tile's source is in is one the table has.
LEMMA SourceIs ==
    ASSUME NEW table, NEW row, NEW source, source = TileSource(table, row), source.error = "none"
    PROVE  source.source \in {"cd", "gz", "un"} /\ table.columns[source.source] # {}
<1> DEFINE order == <<"cd", "gz", "un">>
           found == {k \in 1..3 : /\ table.columns[order[k]] # {}
                                  /\ VlaCell(table, order[k], row).error # "none"
                                       \/ VlaCell(table, order[k], row).count > 0}
           k == CHOOSE k \in found : \A j \in found : k <= j
           cell == VlaCell(table, order[k], row)
<1>1. source = IF found = {} THEN Refused("EmptyTile")
               ELSE IF cell.error # "none" THEN cell
               ELSE [error |-> "none", source |-> order[k], cell |-> cell]
  BY DEF TileSource, With
<1>2. PICK f : f = found
  OBVIOUS
<1>3. PICK m : m = k
  OBVIOUS
<1>4. PICK c : c = cell
  OBVIOUS
<1>5. source = IF f = {} THEN Refused("EmptyTile")
               ELSE IF c.error # "none" THEN c
               ELSE [error |-> "none", source |-> order[m], cell |-> c]
  <2> HIDE DEF found, k, cell, order
  <2> QED BY <1>1, <1>2, <1>3, <1>4
<1>6. f # {} /\ source.source = order[m]
  <2> HIDE DEF order
  <2> QED BY <1>5 DEF Refused
<1>7. m \in f
  <2>1. f \in SUBSET Nat
    BY <1>2
  <2>2. PICK l \in f : \A j \in f : l <= j
    BY <1>6, <2>1, LeastMember
  <2> QED BY <1>2, <1>3, <2>2
<1>8. m \in 1..3 /\ table.columns[order[m]] # {}
  BY <1>2, <1>7
<1>9. order[m] \in {"cd", "gz", "un"}
  BY <1>8
<1> HIDE DEF order
<1> QED BY <1>6, <1>8, <1>9

\* The codec and the integers of a source.
SourceCodec(plan, source) == IF source.source = "gz" THEN GzipPlain ELSE plan.tiled.decoder.codec

LEMMA IntTileKeeps ==
    ASSUME NEW s, IsWorkSet(s), NEW plan, plan.tiled.decoder.codec.kind \in CodecKinds,
           NEW source, NEW shape,
           source.source # "un" => HasRoom(s.codecs, SourceCodec(plan, source), IntsTile(plan, shape)),
           NEW x, x = DecodeIntTile(plan.tiled, source, shape, s)
    PROVE  SetsAlike(s, x.set)
<1>1. PICK tile : tile = IntsTile(plan, shape)
  OBVIOUS
<1>2. PICK codec : codec = SourceCodec(plan, source)
  OBVIOUS
<1>3. codec.kind \in CodecKinds
  BY <1>2 DEF GzipPlain, CodecKinds, SourceCodec
<1>4. PICK stream : stream = source.cell.stream
  OBVIOUS
<1>5. PICK d : d = DecodeInts(codec, tile, stream, s.codecs)
  OBVIOUS
<1>6. TilesAlike(x, x)
  BY WorkSetAlike, IntTileAlike
<1>7. CASE source.source = "un"
  <2>1. PICK v : v = BeToI64(stream, ElemSize(source.cell.element))
    OBVIOUS
  <2>2. PICK m : m = [s EXCEPT !.values = Replaced(@, v)]
    OBVIOUS
  <2>3. s = [f \in {"values", "codecs"} |-> s[f]]
    BY DEF IsWorkSet, IsSet
  <2>4. m.codecs = s.codecs
    BY <2>2, <2>3
  <2>5. x = TileError("CellElement", s) \/ x = TileError("none", m)
    BY <1>4, <1>7, <2>1, <2>2 DEF DecodeIntTile
  <2>6. x.set.codecs = s.codecs
    BY <2>4, <2>5 DEF TileError
  <2> QED BY <1>6, <2>6, WorkSetAlike DEF TilesAlike, SetsAlike
<1>8. CASE source.source # "un"
  <2>1. DecodesAlike(d, d, stream) /\ IntsLent(d)
    BY <1>3, <1>5, IntsAlike DEF IsWorkSet, ScratchesAlike
  <2>2. ScratchesAlike(s.codecs, d.scratch)
    BY <1>1, <1>2, <1>3, <1>5, <1>8, IntsKeep DEF IsWorkSet
  <2>3. x = TileError("CellElement", s) \/ x = SwapLent(s, d)
    BY <1>1, <1>2, <1>4, <1>5, <1>8 DEF DecodeIntTile, IntsTile, SourceCodec
  <2>4. CASE x = TileError("CellElement", s)
    BY <2>4, WorkSetAlike DEF TileError
  <2>5. CASE x = SwapLent(s, d) /\ d.error # "none"
    <3>1. s = [f \in {"values", "codecs"} |-> s[f]]
      BY DEF IsWorkSet, IsSet
    <3>2. PICK m : m = [s EXCEPT !.codecs = d.scratch]
      OBVIOUS
    <3>3. m.codecs = d.scratch
      BY <3>1, <3>2
    <3>4. x = TileError(d.error, m)
      BY <2>5, <3>2 DEF SwapLent
    <3>5. x.set.codecs = d.scratch
      BY <3>3, <3>4 DEF TileError
    <3> QED BY <1>6, <2>2, <3>5, WorkSetAlike DEF TilesAlike, SetsAlike, IsWorkSet
  <2>6. CASE x = SwapLent(s, d) /\ d.error = "none"
    <3>1. PICK p : p = [d.scratch EXCEPT ![d.lent] = s.values]
      OBVIOUS
    <3>2. d.lent \in {"decoded", "plane"}
      BY <2>1, <2>6 DEF IntsLent
    <3>3. "inflated" \in BufferNames /\ "reordered" \in BufferNames /\ d.lent # "inflated" /\ d.lent # "reordered"
      BY <3>2 DEF BufferNames
    <3>4. p["inflated"] = d.scratch["inflated"] /\ p["reordered"] = d.scratch["reordered"]
      BY <2>2, <3>1, <3>3 DEF ScratchesAlike, IsScratch
    <3>5. x = TileError("none", [values |-> d.scratch[d.lent], codecs |-> p])
      BY <2>6, <3>1 DEF SwapLent
    <3>6. x.set.codecs = p
      BY <3>5 DEF TileError
    <3>7. IsWorkSet(x.set)
      BY <1>6, WorkSetAlike DEF TilesAlike
    <3>8. ScratchesAlike(s.codecs, x.set.codecs)
      BY <2>2, <3>4, <3>6, <3>7 DEF ScratchesAlike, IsWorkSet
    <3> QED BY <3>7, <3>8, WorkSetAlike
  <2> QED BY <2>3, <2>4, <2>5, <2>6
<1> QED BY <1>7, <1>8

LEMMA FloatTileKeeps ==
    ASSUME NEW s, IsWorkSet(s), NEW plan, plan.tiled.decoder.codec.kind \in CodecKinds,
           NEW source, NEW encoding, NEW shape,
           source.source # "un" =>
                HasRoom(s.codecs, SourceCodec(plan, source),
                        IF source.source = "cd" /\ encoding # {} THEN IntsTile(plan, shape)
                        ELSE FloatsTile(plan, shape)),
           NEW x, x = DecodeFloatTile(plan.tiled, source, encoding, shape, s)
    PROVE  SetsAlike(s, x.set)
<1>1. PICK ints : ints = IntsTile(plan, shape)
  OBVIOUS
<1>2. PICK floats : floats = FloatsTile(plan, shape)
  OBVIOUS
<1>3. PICK codec : codec = SourceCodec(plan, source)
  OBVIOUS
<1>4. PICK stream : stream = source.cell.stream
  OBVIOUS
<1>5. PICK quantized \in BOOLEAN : quantized <=> (source.source = "cd" /\ encoding # {})
  OBVIOUS
<1>6. PICK d : d = IF quantized THEN DecodeInts(codec, ints, stream, s.codecs)
                   ELSE DecodeBytes(codec, floats, stream, s.codecs)
  OBVIOUS
<1>7. codec.kind \in CodecKinds
  BY <1>3 DEF GzipPlain, CodecKinds, SourceCodec
<1>8. TilesAlike(x, x)
  BY WorkSetAlike, FloatTileAlike
<1>9. source.source # "un" => ScratchesAlike(s.codecs, d.scratch)
  <2>1. SUFFICES ASSUME source.source # "un" PROVE ScratchesAlike(s.codecs, d.scratch)
    OBVIOUS
  <2>2. CASE quantized
    BY <1>1, <1>3, <1>5, <1>6, <1>7, <2>1, <2>2, IntsKeep DEF IsWorkSet
  <2>3. CASE ~quantized
    BY <1>2, <1>3, <1>5, <1>6, <1>7, <2>1, <2>3, BytesKeep DEF IsWorkSet
  <2> QED BY <2>2, <2>3
<1> DEFINE Made(codecs, values) == TileError("none", [codecs |-> codecs, values |-> Replaced(s.values, values)])
<1>10. \/ x = TileError("CellElement", s) \/ x = TileError("SizeMismatch", s)
       \/ \E v : x = Made(s.codecs, v)
       \/ source.source # "un" /\ x = TileError(d.error, [s EXCEPT !.codecs = d.scratch])
       \/ source.source # "un" /\ \E v : x = Made(d.scratch, v)
  <2> DEFINE tiled == plan.tiled
             ints0 == [shape |-> shape, width |-> tiled.decoder.intWidth, blank |-> {}]
             floats0 == [ints0 EXCEPT !.width = ElemSize(tiled.image.bitpix)]
             codec0 == IF source.source = "gz" THEN GzipPlain ELSE tiled.decoder.codec
             element == source.cell.element
             stream0 == source.cell.stream
             quantized0 == source.source = "cd" /\ encoding # {}
             kind == IF quantized0 THEN StreamKind(codec0) ELSE "U8"
             Taken == IF quantized0 THEN DecodeInts(codec0, ints0, stream0, s.codecs)
                      ELSE DecodeBytes(codec0, floats0, stream0, s.codecs)
             PutBack(codecs, values) == [codecs |-> codecs, values |-> Replaced(s.values, values)]
             Values(w) == IF quantized0 THEN Dequantized(CHOOSE e \in encoding : TRUE, Lent(w, stream0))
                          ELSE FloatsOf(tiled.image.bitpix, Lent(w, stream0))
             Floats(w) ==
               IF source.source = "un"
               THEN IF element \in {"F32", "F64"}
                    THEN TileError("none", PutBack(s.codecs, FloatsOf(element, stream0)))
                    ELSE IF element # "U8" THEN TileError("CellElement", s)
                    ELSE IF Len(stream0) # ByteLen(floats0) THEN TileError("SizeMismatch", s)
                    ELSE TileError("none", PutBack(s.codecs, FloatsOf(tiled.image.bitpix, stream0)))
               ELSE IF ~StreamCellOk(source, kind) THEN TileError("CellElement", s)
               ELSE IF w.error # "none" THEN TileError(w.error, [s EXCEPT !.codecs = w.scratch])
               ELSE TileError("none", PutBack(w.scratch, Values(w)))
  <2>1. x = Floats(Taken)
    BY DEF DecodeFloatTile, With
  <2>2. ints0 = ints /\ codec0 = codec /\ stream0 = stream /\ (quantized0 <=> quantized)
    BY <1>1, <1>3, <1>4, <1>5 DEF IntsTile, SourceCodec
  <2>3. floats0 = floats
    BY <1>2 DEF FloatsTile
  <2>4. Taken = d
    <3> HIDE DEF ints0, floats0, codec0, stream0, quantized0
    <3> QED BY <1>6, <2>2, <2>3
  <2>5. ASSUME NEW w
        PROVE  \/ Floats(w) = TileError("CellElement", s) \/ Floats(w) = TileError("SizeMismatch", s)
               \/ \E v : Floats(w) = Made(s.codecs, v)
               \/ source.source # "un" /\ Floats(w) = TileError(w.error, [s EXCEPT !.codecs = w.scratch])
               \/ source.source # "un" /\ \E v : Floats(w) = Made(w.scratch, v)
    <3>1. \/ Floats(w) = TileError("CellElement", s) \/ Floats(w) = TileError("SizeMismatch", s)
          \/ Floats(w) = Made(s.codecs, FloatsOf(element, stream0))
          \/ Floats(w) = Made(s.codecs, FloatsOf(tiled.image.bitpix, stream0))
          \/ source.source # "un" /\ Floats(w) = TileError(w.error, [s EXCEPT !.codecs = w.scratch])
          \/ source.source # "un" /\ Floats(w) = Made(w.scratch, Values(w))
      <4> HIDE DEF Values, kind, floats0, stream0, element
      <4> QED OBVIOUS
    <3>2. PICK f : f = Floats(w)
      OBVIOUS
    <3>3. PICK v1, v2, v3 : v1 = FloatsOf(element, stream0) /\ v2 = FloatsOf(tiled.image.bitpix, stream0) /\ v3 = Values(w)
      OBVIOUS
    <3> HIDE DEF Floats, Made, Values, stream0, element
    <3> QED BY <3>1, <3>2, <3>3
  <2> HIDE DEF Made, Floats, Taken
  <2> QED BY <2>1, <2>4, <2>5
<1>11. CASE x = TileError("CellElement", s) \/ x = TileError("SizeMismatch", s)
  BY <1>11, WorkSetAlike DEF TileError
<1>12. ASSUME NEW p, NEW v, x = Made(p, v), ScratchesAlike(s.codecs, p)
       PROVE  SetsAlike(s, x.set)
  <2>1. x.set.codecs = p
    BY <1>12 DEF TileError
  <2> QED BY <1>8, <1>12, <2>1, WorkSetAlike DEF TilesAlike
<1>13. CASE \E v : x = Made(s.codecs, v)
  <2>1. ScratchesAlike(s.codecs, s.codecs)
    BY DEF IsWorkSet, ScratchesAlike
  <2> HIDE DEF Made
  <2> QED BY <1>12, <1>13, <2>1
<1>14. CASE source.source # "un" /\ \E v : x = Made(d.scratch, v)
  <2> HIDE DEF Made
  <2> QED BY <1>9, <1>12, <1>14
<1>15. CASE source.source # "un" /\ x = TileError(d.error, [s EXCEPT !.codecs = d.scratch])
  <2>1. s = [f \in {"values", "codecs"} |-> s[f]]
    BY DEF IsWorkSet, IsSet
  <2>2. PICK m : m = [s EXCEPT !.codecs = d.scratch]
    OBVIOUS
  <2>3. m.codecs = d.scratch
    BY <2>1, <2>2
  <2>4. x.set = m
    BY <1>15, <2>2 DEF TileError
  <2> QED BY <1>8, <1>9, <1>15, <2>3, <2>4, WorkSetAlike DEF TilesAlike
<1> HIDE DEF Made
<1> QED BY <1>10, <1>11, <1>13, <1>14, <1>15

LEMMA HeldKeeps ==
    ASSUME NEW s, IsWorkSet(s), NEW v
    PROVE  SetsAlike(s, HeldIn(s, v)) /\ HeldIn(s, v).codecs = s.codecs
<1>1. s = [f \in {"values", "codecs"} |-> s[f]] /\ SetsAlike(s, s)
  BY WorkSetAlike DEF IsWorkSet, IsSet
<1>2. PICK b : b = [s.values EXCEPT !.held = v]
  OBVIOUS
<1>3. PICK m : m = [s EXCEPT !.values = b]
  OBVIOUS
<1>4. m = HeldIn(s, v)
  BY <1>2, <1>3 DEF HeldIn
<1>5. m.codecs = s.codecs
  BY <1>1, <1>3
<1>6. SetsAlike(HeldIn(s, v), HeldIn(s, v))
  BY <1>1, HeldAlike
<1> QED BY <1>1, <1>4, <1>5, <1>6 DEF SetsAlike

LEMMA MaskKeeps ==
    ASSUME NEW s, IsWorkSet(s), NEW plan, \A c \in plan.maskCodec : c.kind \in CodecKinds,
           NEW table, table.columns = plan.columns, NEW row, NEW n, MaskHasRoom(s.codecs, plan, n),
           NEW m, m = DecodeMask(plan, table, row, n, s)
    PROVE  SetsAlike(s, m.set)
<1> DEFINE Result(e, u, k) == [error |-> e, set |-> u, mask |-> k]
<1>0. SetsAlike(s, s)
  BY WorkSetAlike
<1>1. PICK cell : cell = VlaCell(table, "mask", row)
  OBVIOUS
<1>2. PICK codec : codec = CHOOSE c \in plan.maskCodec : TRUE
  OBVIOUS
<1>3. PICK tile : tile = MaskTile(n)
  OBVIOUS
<1>4. PICK d : d = DecodeInts(codec, tile, cell.stream, s.codecs)
  OBVIOUS
<1>5. PICK a : a = [s EXCEPT !.codecs = d.scratch]
  OBVIOUS
<1>6. (\E e, k : m = Result(e, s, k))
      \/ (table.columns["mask"] # {} /\ plan.maskCodec # {} /\ \E e, k : m = Result(e, a, k))
  <2> DEFINE mask == Lent(d, cell.stream)
  <2>1. m = IF table.columns["mask"] = {} THEN Result("none", s, {})
            ELSE IF cell.error # "none" THEN Result(cell.error, s, {})
            ELSE IF cell.count = 0 THEN Result("none", s, {})
            ELSE IF plan.maskCodec = {} THEN Result("MissingZMASKCMP", s, {})
            ELSE IF cell.element # StreamKind(codec) THEN Result("CellElement", s, {})
            ELSE IF d.error # "none" THEN Result(d.error, a, {})
            ELSE IF Len(mask) # n THEN Result("SizeMismatch", a, {})
            ELSE IF \E k \in 1..n : mask[k] \notin {0, 1} THEN Result("NullMask", a, {})
            ELSE Result("none", a, {mask})
    BY <1>1, <1>2, <1>3, <1>4, <1>5 DEF DecodeMask, With, MaskTile
  <2> HIDE DEF mask, Result
  <2> QED BY <2>1
<1>7. CASE \E e, k : m = Result(e, s, k)
  <2>1. m.set = s
    BY <1>7
  <2> QED BY <1>0, <2>1
<1>8. CASE table.columns["mask"] # {} /\ plan.maskCodec # {} /\ \E e, k : m = Result(e, a, k)
  <2>1. codec \in plan.maskCodec
    BY <1>2, <1>8
  <2>2. codec.kind \in CodecKinds /\ HasRoom(s.codecs, codec, tile)
    BY <1>3, <1>8, <2>1 DEF MaskHasRoom
  <2>3. ScratchesAlike(s.codecs, d.scratch)
    BY <1>4, <2>2, IntsKeep DEF IsWorkSet
  <2>4. s = [f \in {"values", "codecs"} |-> s[f]] /\ IsBuffer(s.values)
    BY DEF IsWorkSet, IsSet
  <2>5. a = [f \in {"values", "codecs"} |-> a[f]] /\ a.codecs = d.scratch /\ a.values = s.values
    BY <1>5, <2>4
  <2>6. IsWorkSet(a)
    BY <2>3, <2>4, <2>5 DEF IsWorkSet, IsSet, ScratchesAlike
  <2>7. SetsAlike(s, a)
    BY <2>3, <2>5, <2>6, WorkSetAlike
  <2>8. m.set = a
    BY <1>8
  <2> QED BY <2>7, <2>8
<1> QED BY <1>6, <1>7, <1>8

LEMMA FloatNullsKeep ==
    ASSUME NEW s, IsWorkSet(s), NEW plan, \A c \in plan.maskCodec : c.kind \in CodecKinds,
           NEW table, table.columns = plan.columns, NEW at, NEW n, MaskHasRoom(s.codecs, plan, n),
           NEW x, x = ApplyFloat(plan, table, at, n, s)
    PROVE  SetsAlike(s, x.set)
<1>1. PICK m : m = DecodeMask(plan, table, at.table, n, s)
  OBVIOUS
<1>2. PICK v : v = FillMasked(m.set.values.held, m.mask, NotFinite)
  OBVIOUS
<1>3. x = TileError(m.error, HeldIn(m.set, v))
  BY <1>1, <1>2 DEF ApplyFloat, With, HeldIn
<1>4. SetsAlike(s, m.set)
  BY <1>1, MaskKeeps
<1>5. SetsAlike(m.set, HeldIn(m.set, v))
  BY <1>4, HeldKeeps, WorkSetAlike
<1>6. x.set = HeldIn(m.set, v)
  BY <1>3 DEF TileError
<1> QED BY <1>4, <1>5, <1>6, WorkSetAlike

LEMMA IntegerNullsKeep ==
    ASSUME NEW s, IsWorkSet(s), NEW plan, \A c \in plan.maskCodec : c.kind \in CodecKinds,
           NEW table, table.columns = plan.columns, NEW at, NEW n, MaskHasRoom(s.codecs, plan, n),
           NEW x, x = ApplyInteger(plan, table, at, n, s)
    PROVE  SetsAlike(s, x.set)
<1>1. PICK stored : stored = plan.stored[at.grid + 1]
  OBVIOUS
<1>2. PICK values : values = s.values.held
  OBVIOUS
<1>3. PICK found \in BOOLEAN : found <=> /\ stored # {} /\ stored # plan.blank
                                         /\ \E k \in DOMAIN values : values[k] \in stored
  OBVIOUS
<1>4. PICK blanked : blanked = IF found
                   THEN [k \in DOMAIN values |->
                            IF values[k] \in stored THEN OrElse(plan.blank, 0) ELSE values[k]]
                   ELSE values
  OBVIOUS
<1>5. PICK p : p = HeldIn(s, blanked)
  OBVIOUS
<1>6. PICK m : m = DecodeMask(plan, table, at.table, n, p)
  OBVIOUS
<1>7. PICK masked : masked = FillMasked(blanked, m.mask, OrElse(plan.blank, 0))
  OBVIOUS
<1>8. x = IF found /\ plan.blank = {} THEN TileError("MissingBLANK", s)
           ELSE IF m.error # "none" THEN TileError(m.error, m.set)
           ELSE IF m.mask # {} /\ plan.blank = {} THEN TileError("MissingBLANK", m.set)
           ELSE TileError("none", HeldIn(m.set, masked))
  BY <1>1, <1>2, <1>3, <1>4, <1>5, <1>6, <1>7 DEF ApplyInteger, With, HeldIn
<1>9. x.set = s \/ x.set = m.set \/ x.set = HeldIn(m.set, masked)
  BY <1>8 DEF TileError
<1>10. SetsAlike(s, p) /\ p.codecs = s.codecs
  BY <1>5, HeldKeeps
<1>11. IsWorkSet(p) /\ MaskHasRoom(p.codecs, plan, n)
  BY <1>10, WorkSetAlike
<1>12. SetsAlike(p, m.set)
  BY <1>6, <1>11, MaskKeeps
<1>13. SetsAlike(m.set, HeldIn(m.set, masked))
  BY <1>12, HeldKeeps, WorkSetAlike
<1>14. SetsAlike(s, s) /\ SetsAlike(s, m.set)
  BY <1>10, <1>12, WorkSetAlike
<1>15. SetsAlike(s, HeldIn(m.set, masked))
  BY <1>13, <1>14, WorkSetAlike
<1> QED BY <1>9, <1>14, <1>15

\* A tile with the room it needs leaves its set's inflate buffers as large as they were.
LEMMA DecodeTileKeeps ==
    ASSUME NEW s, IsWorkSet(s), NEW plan, plan.tiled.decoder.codec.kind \in CodecKinds,
           \A c \in plan.maskCodec : c.kind \in CodecKinds,
           NEW table, table.columns = plan.columns, NEW at,
           NEW tile, tile = TileInto(plan.tiled.geometry, at.grid),
           TileHasRoom(s.codecs, plan, tile.tdims, plan.encoding[at.grid + 1]),
           MaskHasRoom(s.codecs, plan, Nelem(tile)),
           NEW x, x = DecodeTile(plan, table, at, s)
    PROVE  SetsAlike(s, x.set)
<1>1. PICK source : source = TileSource(table, at.table)
  OBVIOUS
<1>2. PICK float \in BOOLEAN : float <=> IsFloat(plan.tiled.image.bitpix)
  OBVIOUS
<1>3. PICK encoding : encoding = plan.encoding[at.grid + 1]
  OBVIOUS
<1>4. PICK r : r = IF float THEN DecodeFloatTile(plan.tiled, source, encoding, tile.tdims, s)
                   ELSE DecodeIntTile(plan.tiled, source, tile.tdims, s)
  OBVIOUS
<1>5. PICK k : k = IF float THEN ApplyFloat(plan, table, at, Nelem(tile), r.set)
                   ELSE ApplyInteger(plan, table, at, Nelem(tile), r.set)
  OBVIOUS
<1>6. PICK f : f = FitIntegers(plan.tiled.image.bitpix, k.set.values.held,
                               source.source = "cd" /\ plan.tiled.decoder.codec.kind = "Hcompress")
  OBVIOUS
<1>7. x = IF source.error # "none" THEN TileError(source.error, s)
          ELSE IF r.error # "none" THEN r
          ELSE IF k.error # "none" THEN k
          ELSE IF Len(k.set.values.held) # Nelem(tile) THEN TileError("SizeMismatch", k.set)
          ELSE IF float THEN k
          ELSE TileError(f.error, HeldIn(k.set, f.values))
  BY <1>1, <1>2, <1>3, <1>4, <1>5, <1>6 DEF DecodeTile, With, HeldIn
<1>8. CASE source.error # "none"
  <2>1. x.set = s
    BY <1>7, <1>8 DEF TileError
  <2> QED BY <2>1, WorkSetAlike
<1>9. CASE source.error = "none"
  <2>1. source.source \in {"cd", "gz", "un"} /\ table.columns[source.source] # {}
    BY <1>1, <1>9, SourceIs
  <2>2. SetsAlike(s, r.set)
    <3>1. CASE float
      <4>1. source.source # "un" =>
                HasRoom(s.codecs, SourceCodec(plan, source),
                        IF source.source = "cd" /\ encoding # {} THEN IntsTile(plan, tile.tdims)
                        ELSE FloatsTile(plan, tile.tdims))
        BY <1>2, <1>3, <2>1, <3>1 DEF TileHasRoom, SourceCodec
      <4> QED BY <1>4, <3>1, <4>1, FloatTileKeeps
    <3>2. CASE ~float
      <4>1. source.source # "un" => HasRoom(s.codecs, SourceCodec(plan, source), IntsTile(plan, tile.tdims))
        BY <1>2, <1>3, <2>1, <3>2 DEF TileHasRoom, SourceCodec
      <4> QED BY <1>4, <3>2, <4>1, IntTileKeeps
    <3> QED BY <3>1, <3>2
  <2>3. IsWorkSet(r.set) /\ MaskHasRoom(r.set.codecs, plan, Nelem(tile))
    BY <2>2, RoomAlike, WorkSetAlike
  <2>4. SetsAlike(r.set, k.set)
    BY <1>5, <2>3, FloatNullsKeep, IntegerNullsKeep
  <2>5. SetsAlike(k.set, HeldIn(k.set, f.values))
    BY <2>4, HeldKeeps, WorkSetAlike
  <2>6. SetsAlike(s, k.set)
    BY <2>2, <2>4, WorkSetAlike
  <2>7. SetsAlike(s, HeldIn(k.set, f.values))
    BY <2>5, <2>6, WorkSetAlike
  <2>8. x.set = r.set \/ x.set = k.set \/ x.set = HeldIn(k.set, f.values)
    BY <1>7, <1>9 DEF TileError
  <2> QED BY <2>2, <2>6, <2>7, <2>8
<1> QED BY <1>8, <1>9

-----------------------------------------------------------------------------
(* Products of shapes, factor by factor. *)

\* What has been reached after the k-th factor is of the k-th of the sets c.
OfStage(c, s, k, a) == a \in c[k]

Stages == INSTANCE Folding WITH Step <- Multiply, Kept <- OfStage

LEMMA StagesOrdered == Stages!WellOrdered
BY LeastMember DEF Stages!WellOrdered

\* The product of the first k factors.
UpTo(s, k) == Stages!Reached(0, 1, s, k)

LEMMA ProductFolds ==
    ASSUME NEW c, NEW s
    PROVE  Product(s) = Stages!Fold(c, 1, s)
BY DEF Product, Stages!Fold, Multiply, FoldLeft, MapThenFoldSet, Max,
       Stages!Greatest

LEMMA ProductReaches ==
    ASSUME NEW s, NEW n \in Nat, DOMAIN s = 1..n
    PROVE  Product(s) = UpTo(s, n)
BY ProductFolds, Stages!FoldReaches DEF UpTo

LEMMA UpToNext ==
    ASSUME NEW s
    PROVE  /\ UpTo(s, 0) = 1
           /\ \A k \in Nat \ {0} : UpTo(s, k) = UpTo(s, k - 1) * s[k]
BY StagesOrdered, Stages!ReachedFirst, Stages!ReachedNext DEF UpTo, Multiply

LEMMA UpToIs ==
    ASSUME NEW n \in Nat, NEW s, \A i \in 1..n : s[i] \in Nat
    PROVE  \A k \in 0..n : UpTo(s, k) \in Nat
<1> DEFINE Bad == {k \in 0..n : UpTo(s, k) \notin Nat}
<1>1. SUFFICES ASSUME Bad # {} PROVE FALSE
  OBVIOUS
<1>2. PICK j \in Bad : \A i \in Bad : j <= i
  <2>1. Bad \in SUBSET Nat
    OBVIOUS
  <2> HIDE DEF Bad
  <2> QED BY <1>1, <2>1, LeastMember
<1>3. j # 0
  BY <1>2, UpToNext
<1>4. j - 1 \in 0..n /\ j \in 1..n /\ j \in Nat \ {0} /\ j - 1 \notin Bad
  BY <1>2, <1>3
<1>5. UpTo(s, j) = UpTo(s, j - 1) * s[j] /\ UpTo(s, j - 1) \in Nat /\ s[j] \in Nat
  BY <1>4, UpToNext
<1> QED BY <1>2, <1>5

\* The product of smaller factors is no larger.
LEMMA ProductBelow ==
    ASSUME NEW n \in Nat, NEW s, NEW t, DOMAIN s = 1..n, DOMAIN t = 1..n,
           \A i \in 1..n : s[i] \in Nat /\ t[i] \in Nat /\ s[i] <= t[i]
    PROVE  Product(s) \in Nat /\ Product(t) \in Nat /\ Product(s) <= Product(t)
<1> DEFINE Bad == {k \in 0..n : ~(UpTo(s, k) <= UpTo(t, k))}
<1>0. \A k \in 0..n : UpTo(s, k) \in Nat /\ UpTo(t, k) \in Nat
  BY UpToIs
<1>1. Bad = {}
  <2>1. SUFFICES ASSUME Bad # {} PROVE FALSE
    OBVIOUS
  <2>2. PICK j \in Bad : \A i \in Bad : j <= i
    <3>1. Bad \in SUBSET Nat
      OBVIOUS
    <3> HIDE DEF Bad
    <3> QED BY <2>1, <3>1, LeastMember
  <2>3. j # 0
    BY <2>2, UpToNext
  <2>4. j - 1 \in 0..n /\ j \in 1..n /\ j \in Nat \ {0} /\ j - 1 \notin Bad
    BY <2>2, <2>3
  <2>5. UpTo(s, j) = UpTo(s, j - 1) * s[j] /\ UpTo(t, j) = UpTo(t, j - 1) * t[j]
    BY <2>4, UpToNext
  <2>6. PICK a, b, x, y \in Nat : a = UpTo(s, j - 1) /\ b = UpTo(t, j - 1) /\ x = s[j] /\ y = t[j]
    BY <1>0, <2>4
  <2>7. a <= b /\ x <= y
    BY <2>4, <2>6, <1>0
  <2>8. a * x <= b * y
    <3>1. a * x <= b * x /\ b * x <= b * y
      BY <2>7
    <3>2. a * x \in Nat /\ b * x \in Nat /\ b * y \in Nat
      OBVIOUS
    <3> QED BY <3>1, <3>2
  <2> QED BY <2>2, <2>5, <2>6, <2>8
<1>2. n \in 0..n
  OBVIOUS
<1> HIDE DEF Bad
<1>3. UpTo(s, n) <= UpTo(t, n)
  BY <1>1, <1>2 DEF Bad
<1> QED BY <1>0, <1>2, <1>3, ProductReaches

\* The product of the first k factors, from that of those before the last of them.
LEMMA ProductOfFirst ==
    ASSUME NEW n \in Nat, NEW S, NEW s \in Seq(S), Len(s) = n
    PROVE  /\ \A k \in 0..n : Product(SubSeq(s, 1, k)) = UpTo(s, k)
           /\ Product(s) = UpTo(s, n)
<1>1. ASSUME NEW k \in 0..n PROVE Product(SubSeq(s, 1, k)) = UpTo(s, k)
  <2>1. k \in Nat /\ DOMAIN SubSeq(s, 1, k) = 1..k /\ \A i \in 1..k : SubSeq(s, 1, k)[i] = s[i]
    OBVIOUS
  <2>2. UpTo(SubSeq(s, 1, k), k) = UpTo(s, k)
    BY <2>1, StagesOrdered, Stages!ReachedAlike DEF UpTo
  <2> QED BY <2>1, <2>2, ProductReaches
<1>2. DOMAIN s = 1..n
  OBVIOUS
<1> QED BY <1>1, <1>2, ProductReaches

LEMMA TimesAssociates ==
    ASSUME NEW a \in Nat, NEW b \in Nat, NEW c \in Nat
    PROVE  a * (b * c) = (a * b) * c
OBVIOUS

\* A product is its first factor's and the others'.
LEMMA ProductOfTail ==
    ASSUME NEW s \in Seq(Nat), Len(s) > 0
    PROVE  Product(s) = s[1] * Product(Tail(s)) /\ Product(Tail(s)) \in Nat
<1> DEFINE n == Len(s)
           t == Tail(s)
           Bad == {k \in 0..n - 1 : UpTo(s, k + 1) # s[1] * UpTo(t, k)}
<1>1. /\ n \in Nat /\ n - 1 \in Nat /\ DOMAIN s = 1..n /\ DOMAIN t = 1..n - 1
      /\ \A i \in 1..n - 1 : t[i] = s[i + 1] /\ t[i] \in Nat
      /\ s[1] \in Nat
  OBVIOUS
<1> HIDE DEF t
<1>2. \A k \in 0..n - 1 : UpTo(t, k) \in Nat
  BY <1>1, UpToIs
<1>3. Bad = {}
  <2>1. SUFFICES ASSUME Bad # {} PROVE FALSE
    OBVIOUS
  <2>2. PICK j \in Bad : \A i \in Bad : j <= i
    <3>1. Bad \in SUBSET Nat
      OBVIOUS
    <3> HIDE DEF Bad
    <3> QED BY <2>1, <3>1, LeastMember
  <2>3. CASE j = 0
    <3>1. UpTo(s, 0) = 1 /\ UpTo(t, 0) = 1 /\ 1 \in Nat \ {0} /\ 1 - 1 = 0
      BY UpToNext
    <3>2. UpTo(s, 1) = UpTo(s, 0) * s[1]
      BY <3>1, UpToNext
    <3> QED BY <2>2, <2>3, <3>1, <3>2, <1>1
  <2>4. CASE j # 0
    <3>1. j - 1 \in 0..n - 1 /\ j \in 1..n - 1 /\ j \in Nat \ {0} /\ j + 1 \in Nat \ {0} /\ j - 1 \notin Bad
          /\ (j + 1) - 1 = j /\ (j - 1) + 1 = j
      BY <2>2, <2>4
    <3>2. UpTo(t, j) = UpTo(t, j - 1) * t[j] /\ UpTo(s, j + 1) = UpTo(s, j) * s[j + 1]
      BY <3>1, UpToNext
    <3>3. UpTo(s, j) = s[1] * UpTo(t, j - 1)
      BY <3>1
    <3>4. s[1] * (UpTo(t, j - 1) * t[j]) = (s[1] * UpTo(t, j - 1)) * t[j]
      BY <3>1, <1>1, <1>2, TimesAssociates
    <3>5. t[j] = s[j + 1]
      BY <3>1, <1>1
    <3>6. UpTo(s, j + 1) = s[1] * UpTo(t, j)
      BY <3>2, <3>3, <3>4, <3>5
    <3> QED BY <2>2, <3>6
  <2> QED BY <2>3, <2>4
<1>4. n - 1 \in 0..n - 1 /\ (n - 1) + 1 = n
  BY <1>1
<1>5. UpTo(s, n) = s[1] * UpTo(t, n - 1)
  <2>1. n - 1 \notin Bad
    BY <1>3
  <2> HIDE DEF n
  <2> QED BY <2>1, <1>4
<1>6. Product(s) = UpTo(s, n) /\ Product(t) = UpTo(t, n - 1)
  BY <1>1, ProductReaches
<1> QED BY <1>2, <1>4, <1>5, <1>6 DEF t

-----------------------------------------------------------------------------
(* The extents of a tile. *)

\* The tiles of an axis begin inside it.
LEMMA TilesBegin ==
    ASSUME NEW d \in Nat \ {0}, NEW t \in Nat \ {0}, NEW o \in Nat, o < CeilDiv(d, t)
    PROVE  o * t \in Nat /\ o * t < d
<1>1. d + t - 1 \in Nat
  OBVIOUS
<1>2. PICK q \in Nat : q = (d + t - 1) \div t
  BY <1>1
<1>3. t * q <= d + t - 1
  BY <1>1, <1>2
<1>4. o + 1 <= q
  BY <1>2 DEF CeilDiv
<1>5. t * (o + 1) <= t * q
  BY <1>4
<1>6. t * (o + 1) = t * o + t /\ t * o = o * t /\ o * t \in Nat
  OBVIOUS
<1> QED BY <1>3, <1>5, <1>6

WalkStep(c, w, k) == [bases |-> Append(w.bases, w.s.flat), s |-> Turn(c[1], c[2], w.s)]

WalkedRows(c, s, k, w) == IsSeq(w.bases) /\ Len(w.bases) = k

Walks == INSTANCE Folding WITH Step <- WalkStep, Kept <- WalkedRows

LEMMA WalksOrdered == Walks!WellOrdered
BY LeastMember DEF Walks!WellOrdered

\* The odometer of a tile notes a place for each of its rows.
LEMMA WalkIs ==
    ASSUME NEW g, NEW tdims, NEW flat, NEW n \in Nat
    PROVE  Len(RowBases(g, tdims, flat, n)) = n
<1> DEFINE start == [coord |-> [i \in DOMAIN tdims |-> 0], flat |-> flat, done |-> FALSE]
           base == [bases |-> <<>>, s |-> start]
           c == <<g, tdims>>
           loop == Walks!Fold(c, base, Places(n))
<1>1. RowBases(g, tdims, flat, n) = loop.bases
  BY DEF RowBases, Walks!Fold, WalkStep, FoldLeft, MapThenFoldSet, Max,
         Walks!Greatest
<1>2. DOMAIN Places(n) = 1..n
  BY DEF Places
<1>3. WalkedRows(c, Places(n), 0, base)
  <2>1. <<>> \in Seq(Nat) /\ Len(<<>>) = 0 /\ base.bases = <<>>
    OBVIOUS
  <2> HIDE DEF base, c
  <2> QED BY <2>1, SeqIsSeq DEF WalkedRows
<1> HIDE DEF base, c
<1>4. ASSUME NEW k \in 1..n, NEW w, WalkedRows(c, Places(n), k - 1, w)
      PROVE  WalkedRows(c, Places(n), k, WalkStep(c, w, Places(n)[k]))
  <2>1. IsSeq(w.bases) /\ Len(w.bases) = k - 1
    BY <1>4 DEF WalkedRows
  <2>2. WalkStep(c, w, Places(n)[k]).bases = Append(w.bases, w.s.flat)
    BY DEF WalkStep
  <2>3. IsSeq(Append(w.bases, w.s.flat)) /\ Len(Append(w.bases, w.s.flat)) = Len(w.bases) + 1
    BY <2>1, AppendIsSeq
  <2> QED BY <2>1, <2>2, <2>3 DEF WalkedRows
<1>5. WalkedRows(c, Places(n), n, loop)
  BY <1>2, <1>3, <1>4, WalksOrdered, Walks!FoldKeeps
<1> QED BY <1>1, <1>5 DEF WalkedRows

\* A grid of an image that has a sample.
HasTiles(g) == IsGrid(g) /\ Len(g.dims) > 0 /\ \A i \in 1..Len(g.dims) : g.dims[i] > 0

\* The tiles before an axis of the grid's.
LEMMA PerIs ==
    ASSUME NEW g, HasTiles(g), NEW i \in 1..Len(g.dims)
    PROVE  Product(SubSeq(g.ntilesAxis, 1, i - 1)) \in Nat \ {0}
<1>1. /\ g.ntilesAxis \in Seq(Nat) /\ Len(g.ntilesAxis) = Len(g.dims)
      /\ \A k \in 1..Len(g.dims) : g.ntilesAxis[k] > 0
  BY GridAxes DEF HasTiles
<1>2. PICK rest : rest = SubSeq(g.ntilesAxis, 1, i - 1)
  OBVIOUS
<1>3. i - 1 \in Nat /\ DOMAIN rest = 1..i - 1
      /\ \A k \in 1..i - 1 : rest[k] = g.ntilesAxis[k] /\ k \in 1..Len(g.dims)
  BY <1>1, <1>2
<1>4. \A k \in 1..i - 1 : rest[k] \in Nat \ {0}
  BY <1>1, <1>3
<1> QED BY <1>2, <1>3, <1>4, ProductIs

\* An extent of a tile, which starts at a multiple of the axis' tiles.
LEMMA ExtentIs ==
    ASSUME NEW d \in Nat \ {0}, NEW e \in Nat \ {0}, NEW m \in Nat, NEW x,
           x = MinOf(e, d - (m % CeilDiv(d, e)) * e)
    PROVE  x \in Nat \ {0} /\ x <= MinOf(d, e)
<1>1. CeilDiv(d, e) \in Nat /\ CeilDiv(d, e) > 0
  BY CeilDivIs
<1>2. PICK c \in Nat : c = CeilDiv(d, e) /\ c > 0
  BY <1>1
<1>3. m % c \in Nat /\ m % c < c
  BY <1>2
<1>4. PICK o \in Nat : o = m % c
  BY <1>3
<1>5. o * e \in Nat /\ o * e < d
  BY <1>2, <1>3, <1>4, TilesBegin
<1>6. x = MinOf(e, d - o * e)
  BY <1>2, <1>4
<1>7. PICK p \in Nat : p = o * e /\ p < d
  BY <1>5
<1>8. x = MinOf(e, d - p)
  BY <1>6, <1>7
<1> QED BY <1>7, <1>8 DEF MinOf

LEMMA TailOfOne ==
    ASSUME NEW S, NEW s \in Seq(S), Len(s) = 1
    PROVE  DOMAIN Tail(s) = 1..0
<1>1. s # <<>>
  OBVIOUS
<1>2. Tail(s) \in Seq(S) /\ Len(Tail(s)) = 0
  BY <1>1, HeadTailProperties
<1> QED BY <1>2, LenProperties

LEMMA ExtentsAre ==
    ASSUME NEW g, HasTiles(g), NEW t \in Nat, NEW x, x = TileInto(g, t)
    PROVE  /\ x.tdims \in Seq(Nat \ {0}) /\ Len(x.tdims) = Len(g.dims)
           /\ \A i \in 1..Len(g.dims) : x.tdims[i] <= g.maxTile[i]
           /\ Nelem(x) = Product(x.tdims)
<1> DEFINE n == Len(g.dims)
           per(i) == Product(SubSeq(g.ntilesAxis, 1, i - 1))
           origin0 == [i \in 1..n |-> ((t \div per(i)) % g.ntilesAxis[i]) * g.tiles[i]]
           tdims0 == [i \in 1..n |-> MinOf(g.tiles[i], g.dims[i] - origin0[i])]
           rows0 == IF n <= 1 THEN 1 ELSE Product(Tail(tdims0))
           flat0 == FoldLeft(LAMBDA a, i : a + origin0[i] * g.stride[i], 0, [i \in 1..n |-> i])
<1>1. /\ x.tdims = tdims0
      /\ x.rowLen = IF n = 0 THEN 1 ELSE tdims0[1]
      /\ x.rowBases = RowBases(g, tdims0, flat0, rows0)
  BY DEF TileInto
<1>2. PICK flat : flat = flat0
  OBVIOUS
<1>3. PICK tdims : tdims = tdims0
  OBVIOUS
<1>4. PICK rows : rows = IF n <= 1 THEN 1 ELSE Product(Tail(tdims))
  OBVIOUS
<1>6. x.rowBases = RowBases(g, tdims, flat, rows)
  BY <1>1, <1>2, <1>3, <1>4
<1>7. n \in Nat /\ n > 0 /\ g.dims \in Seq(Nat) /\ g.tiles \in Seq(Nat \ {0}) /\ Len(g.tiles) = n
      /\ \A i \in 1..n : g.ntilesAxis[i] = CeilDiv(g.dims[i], g.tiles[i])
                         /\ g.maxTile[i] = MinOf(g.dims[i], g.tiles[i])
  BY DEF HasTiles, IsGrid, NewGeometry
<1> HIDE DEF flat0, rows0, n
<1>8. tdims = [i \in 1..n |-> MinOf(g.tiles[i], g.dims[i] - ((t \div per(i)) % g.ntilesAxis[i]) * g.tiles[i])]
  BY <1>3
<1>9. ASSUME NEW i \in 1..n PROVE tdims[i] \in Nat \ {0} /\ tdims[i] <= g.maxTile[i]
  <2>1. PICK p \in Nat \ {0} : p = per(i)
    BY PerIs DEF n
  <2>2. PICK d, e \in Nat \ {0} : d = g.dims[i] /\ e = g.tiles[i]
    BY <1>7 DEF HasTiles, n
  <2>3. PICK m \in Nat : m = t \div p
    OBVIOUS
  <2>4. tdims[i] = MinOf(e, d - (m % CeilDiv(d, e)) * e)
    <3> HIDE DEF per
    <3> QED BY <1>7, <1>8, <2>1, <2>2, <2>3
  <2>5. tdims[i] \in Nat \ {0} /\ tdims[i] <= MinOf(d, e)
    BY <2>2, <2>3, <2>4, ExtentIs
  <2> QED BY <1>7, <2>2, <2>5
<1> HIDE DEF tdims0, per
<1>10. DOMAIN tdims = 1..n
  BY <1>8
<1>11. tdims \in Seq(Nat \ {0}) /\ Len(tdims) = n
  BY <1>7, <1>8, <1>9, <1>10, FunIsSeq, SeqOfCells
<1>12. tdims \in Seq(Nat) /\ Len(tdims) > 0
  BY <1>7, <1>11
<1>13. Product(tdims) = tdims[1] * Product(Tail(tdims)) /\ Product(Tail(tdims)) \in Nat /\ tdims[1] \in Nat
  BY <1>7, <1>9, <1>12, ProductOfTail
<1>14. rows \in Nat /\ Product(tdims) = tdims[1] * rows
  <2>1. CASE n = 1
    <3>1. DOMAIN Tail(tdims) = 1..0
      <4>1. tdims \in Seq(Nat) /\ Len(tdims) = 1
        BY <1>11, <1>12, <2>1
      <4> QED BY <4>1, TailOfOne
    <3>2. Product(Tail(tdims)) = UpTo(Tail(tdims), 0) /\ UpTo(Tail(tdims), 0) = 1
      BY <3>1, ProductReaches, UpToNext
    <3> QED BY <1>4, <1>13, <2>1, <3>2
  <2>2. CASE n > 1
    BY <1>4, <1>13, <2>2, <1>7
  <2> QED BY <2>1, <2>2, <1>7
<1>15. Len(RowBases(g, tdims, flat, rows)) = rows
  BY <1>14, WalkIs
<1>16. Nelem(x) = tdims[1] * rows
  <2>1. x.rowLen = tdims[1] /\ x.rowBases = RowBases(g, tdims, flat, rows)
    BY <1>1, <1>3, <1>6, <1>7
  <2> QED BY <2>1, <1>15 DEF Nelem
<1> QED BY <1>1, <1>3, <1>7, <1>9, <1>11, <1>14, <1>16 DEF n

\* A tile is no larger than the largest.
LEMMA TileFits ==
    ASSUME NEW g, HasTiles(g), NEW t \in Nat, NEW x, x = TileInto(g, t)
    PROVE  /\ Product(x.tdims) \in Nat /\ Product(g.maxTile) \in Nat
           /\ Product(x.tdims) <= Product(g.maxTile)
<1>1. /\ x.tdims \in Seq(Nat \ {0}) /\ Len(x.tdims) = Len(g.dims)
      /\ \A i \in 1..Len(g.dims) : x.tdims[i] <= g.maxTile[i]
  BY ExtentsAre
<1>2. g.maxTile \in Seq(Nat) /\ Len(g.maxTile) = Len(g.dims)
  BY GridAxes DEF HasTiles
<1>3. Len(g.dims) \in Nat /\ DOMAIN x.tdims = 1..Len(g.dims) /\ DOMAIN g.maxTile = 1..Len(g.dims)
  BY <1>1, <1>2 DEF HasTiles, IsGrid
<1>4. \A i \in 1..Len(g.dims) : x.tdims[i] \in Nat /\ g.maxTile[i] \in Nat
  BY <1>1, <1>2, <1>3
<1> QED BY <1>1, <1>3, <1>4, ProductBelow

-----------------------------------------------------------------------------
(* What a plan reserves holds any of its tiles. *)

IsCapacities(x) == x = [b \in BufferNames |-> x[b]] /\ x.inflated \in Nat /\ x.reordered \in Nat

\* y is no smaller where gzip inflates.
Dominates(y, x) == x.inflated <= y.inflated /\ x.reordered <= y.reordered

\* x is the room a gzip stream of the tile needs.
Covers(x, codec, tile) ==
    codec.kind \in {"Gzip1", "Gzip2"} =>
        /\ ByteLen(tile) \in Nat
        /\ IF ShuffleOf(codec, tile) <= 1 THEN ByteLen(tile) + 1 <= x.inflated
           ELSE /\ ShuffleOf(codec, tile) \in {2, 4, 8}
                /\ ByteLen(tile) <= x.inflated /\ ByteLen(tile) + 1 <= x.reordered

ElementSizes == {1, 2, 4, 8}

LEMMA NoCapacitiesIs == IsCapacities(NoCapacities) /\ NoCapacities.inflated = 0 /\ NoCapacities.reordered = 0
BY DEF IsCapacities, NoCapacities, NoScratch, BufferNames

LEMMA MaxCapacitiesIs ==
    ASSUME NEW x, NEW y, IsCapacities(x), IsCapacities(y), NEW z, z = MaxCapacities(x, y)
    PROVE  IsCapacities(z) /\ Dominates(z, x) /\ Dominates(z, y)
<1>1. z = [b \in BufferNames |-> MaxOf(x[b], y[b])]
  BY DEF MaxCapacities, IsCapacities
<1>2. "inflated" \in BufferNames /\ "reordered" \in BufferNames
  BY DEF BufferNames
<1>3. z.inflated = MaxOf(x.inflated, y.inflated) /\ z.reordered = MaxOf(x.reordered, y.reordered)
  BY <1>1, <1>2
<1>4. z.inflated \in Nat /\ z.reordered \in Nat /\ Dominates(z, x) /\ Dominates(z, y)
  BY <1>3 DEF MaxOf, IsCapacities, Dominates
<1> QED BY <1>1, <1>4 DEF IsCapacities

LEMMA IntsCover ==
    ASSUME NEW codec, codec.kind \in CodecKinds, NEW tile, ByteLen(tile) \in Nat,
           tile.width \in ElementSizes, NEW x, x = IntsCapacities(codec, tile)
    PROVE  IsCapacities(x) /\ Covers(x, codec, tile)
<1>1. PICK h : h = HcompressCapacities(tile.shape[codec.plane[1]], tile.shape[codec.plane[2]])
  OBVIOUS
<1>2. PICK g : g = GzipCapacities(ByteLen(tile), ShuffleOf(codec, tile))
  OBVIOUS
<1>3. CASE codec.kind \in {"Rice", "Plio", "NoCompress"}
  <2>1. x = [NoCapacities EXCEPT !.decoded = Count(tile)]
    BY <1>3 DEF IntsCapacities, With
  <2>2. PICK c : c = Count(tile)
    OBVIOUS
  <2>3. IsCapacities(x)
    BY <2>1, <2>2, NoCapacitiesIs DEF IsCapacities, BufferNames
  <2> QED BY <1>3, <2>3 DEF Covers
<1>4. CASE codec.kind = "Hcompress"
  <2>1. x = [NoCapacities EXCEPT !.plane = h.plane, !.transform = h.transform,
                                 !.rows = h.rows, !.qtree = h.qtree]
    BY <1>1, <1>4 DEF IntsCapacities, With
  <2>2. IsCapacities(x)
    BY <2>1, NoCapacitiesIs DEF IsCapacities, BufferNames
  <2> QED BY <1>4, <2>2 DEF Covers
<1>5. CASE codec.kind \in {"Gzip1", "Gzip2"}
  <2>1. x = [NoCapacities EXCEPT !.decoded = Count(tile), !.inflated = g.bytes,
                                 !.reordered = g.reordered]
    BY <1>2, <1>5 DEF IntsCapacities, With
  <2>2. PICK c : c = Count(tile)
    OBVIOUS
  <2>3. x = [b \in BufferNames |-> x[b]] /\ x.inflated = g.bytes /\ x.reordered = g.reordered
    BY <2>1, <2>2, NoCapacitiesIs DEF IsCapacities, BufferNames
  <2>4. PICK n \in Nat : n = ByteLen(tile)
    OBVIOUS
  <2>5. ShuffleOf(codec, tile) \in {1, 2, 4, 8}
    BY DEF ShuffleOf, ElementSizes
  <2>6. IF ShuffleOf(codec, tile) <= 1 THEN g.bytes = n + 1 /\ g.reordered = 0
        ELSE g.bytes = n /\ g.reordered = n + 1
    BY <1>2, <2>4 DEF GzipCapacities, Room
  <2> QED BY <2>3, <2>4, <2>5, <2>6 DEF IsCapacities, Covers
<1> QED BY <1>3, <1>4, <1>5 DEF CodecKinds

LEMMA BytesCover ==
    ASSUME NEW codec, codec.kind \in CodecKinds, NEW tile, ByteLen(tile) \in Nat,
           tile.width \in ElementSizes, NEW x, x = BytesCapacities(codec, tile)
    PROVE  IsCapacities(x) /\ Covers(x, codec, tile)
<1>1. PICK i : i = IntsCapacities(codec, tile)
  OBVIOUS
<1>2. IsCapacities(i)
  BY <1>1, IntsCover
<1>3. PICK g : g = GzipCapacities(ByteLen(tile), ShuffleOf(codec, tile))
  OBVIOUS
<1>4. PICK n \in Nat : n = ByteLen(tile)
  OBVIOUS
<1>5. CASE codec.kind \in {"Gzip1", "Gzip2"}
  <2>1. x = [NoCapacities EXCEPT !.inflated = g.bytes, !.reordered = g.reordered]
    BY <1>3, <1>5 DEF BytesCapacities
  <2>3. x = [b \in BufferNames |-> x[b]] /\ x.inflated = g.bytes /\ x.reordered = g.reordered
    BY <2>1, NoCapacitiesIs DEF IsCapacities, BufferNames
  <2>5. ShuffleOf(codec, tile) \in {1, 2, 4, 8}
    BY DEF ShuffleOf, ElementSizes
  <2>6. IF ShuffleOf(codec, tile) <= 1 THEN g.bytes = n + 1 /\ g.reordered = 0
        ELSE g.bytes = n /\ g.reordered = n + 1
    BY <1>3, <1>4 DEF GzipCapacities, Room
  <2> QED BY <1>4, <2>3, <2>5, <2>6 DEF IsCapacities, Covers
<1>6. CASE codec.kind = "NoCompress"
  <2>1. x = NoCapacities
    BY <1>6 DEF BytesCapacities
  <2> QED BY <1>6, <2>1, NoCapacitiesIs DEF Covers
<1>7. CASE codec.kind \in {"Rice", "Plio", "Hcompress"}
  <2>1. x = [i EXCEPT !.bytes = n]
    BY <1>1, <1>4, <1>7 DEF BytesCapacities
  <2>2. IsCapacities(x)
    BY <1>2, <2>1 DEF IsCapacities, BufferNames
  <2> QED BY <1>7, <2>2 DEF Covers
<1> QED BY <1>5, <1>6, <1>7 DEF CodecKinds

\* Room for a tile is room for a smaller one, and so is more room.
LEMMA CoversSmaller ==
    ASSUME NEW x, NEW y, IsCapacities(x), IsCapacities(y), Dominates(y, x), NEW codec, NEW big,
           Covers(x, codec, big), NEW tile, tile.width = big.width,
           ByteLen(tile) \in Nat, ByteLen(tile) <= ByteLen(big)
    PROVE  Covers(y, codec, tile)
<1>1. CASE codec.kind \in {"Gzip1", "Gzip2"}
  <2>1. PICK m, n \in Nat : m = ByteLen(tile) /\ n = ByteLen(big) /\ m <= n
    BY <1>1 DEF Covers
  <2>2. PICK w : w = ShuffleOf(codec, tile) /\ w = ShuffleOf(codec, big)
    BY DEF ShuffleOf
  <2>3. IF w <= 1 THEN n + 1 <= x.inflated
        ELSE w \in {2, 4, 8} /\ n <= x.inflated /\ n + 1 <= x.reordered
    BY <1>1, <2>1, <2>2 DEF Covers
  <2>4. IF w <= 1 THEN m + 1 <= y.inflated
        ELSE w \in {2, 4, 8} /\ m <= y.inflated /\ m + 1 <= y.reordered
    BY <2>1, <2>3 DEF IsCapacities, Dominates
  <2> QED BY <2>1, <2>2, <2>4 DEF Covers
<1> QED BY <1>1 DEF Covers

\* The bytes of a tile whose extents are another's or less.
LEMMA BytesBelow ==
    ASSUME NEW shape, NEW larger, Product(shape) \in Nat, Product(larger) \in Nat,
           Product(shape) <= Product(larger), NEW width \in ElementSizes,
           NEW x, NEW y, x.shape = shape, y.shape = larger, x.width = width, y.width = width
    PROVE  ByteLen(x) \in Nat /\ ByteLen(y) \in Nat /\ ByteLen(x) <= ByteLen(y)
<1>1. Count(x) = Product(shape) /\ Count(y) = Product(larger)
  BY DEF Count, Product
<1>2. PICK m, n \in Nat : m = Product(shape) /\ n = Product(larger) /\ m <= n
  OBVIOUS
<1>3. ByteLen(x) = m * width /\ ByteLen(y) = n * width
  BY <1>1, <1>2 DEF ByteLen
<1>4. width \in Nat
  BY DEF ElementSizes
<1> QED BY <1>2, <1>3, <1>4

LEMMA SizesAre ==
    ASSUME NEW b \in Bitpixes
    PROVE  ElemSize(b) \in ElementSizes
BY DEF Bitpixes, ElemSize, BitpixCode, AbsOf, ElementSizes

\* What every plan is: codecs of the known kinds, masks of one codec, elements of a
\* size there is, and an encoding for each tile of a float image but a lossless one.
IsPlan(plan) ==
    /\ IsGrid(plan.tiled.geometry)
    /\ plan.tiled.image.bitpix \in Bitpixes
    /\ plan.tiled.decoder.codec.kind \in CodecKinds
    /\ plan.tiled.decoder.intWidth \in ElementSizes
    /\ \A c, d \in plan.maskCodec : c.kind \in CodecKinds /\ c.kind = d.kind
    /\ ~IsFloat(plan.tiled.image.bitpix) => ~plan.lossless
    /\ IsFloat(plan.tiled.image.bitpix) =>
            \A t \in 1..NTiles(plan.tiled.geometry) : plan.encoding[t] = {} <=> plan.lossless

\* A scratch with the capacities x of its inflate buffers.
Holds(s, x) == s.inflated.cap = x.inflated /\ s.reordered.cap = x.reordered

LEMMA CoveredHasRoom ==
    ASSUME NEW s, NEW x, Holds(s, x), IsCapacities(x), NEW codec, NEW tile, Covers(x, codec, tile)
    PROVE  HasRoom(s, codec, tile)
BY DEF Holds, IsCapacities, Covers, HasRoom

\* The capacities of the three columns a tile may be decoded from, at its largest.
LEMMA PartsOfCapacities ==
    ASSUME NEW plan, IsPlan(plan), NEW n \in Nat,
           NEW big, Product(big) \in Nat,
           NEW primary, primary = IF plan.columns["cd"] = {} THEN NoCapacities
                                  ELSE IF plan.lossless
                                  THEN BytesCapacities(plan.tiled.decoder.codec, FloatsTile(plan, big))
                                  ELSE IntsCapacities(plan.tiled.decoder.codec, IntsTile(plan, big)),
           NEW gzip, gzip = IF plan.columns["gz"] = {} THEN NoCapacities
                            ELSE IF IsFloat(plan.tiled.image.bitpix)
                            THEN BytesCapacities(GzipPlain, FloatsTile(plan, big))
                            ELSE IntsCapacities(GzipPlain, IntsTile(plan, big)),
           NEW mask, mask = MaskCapacities(plan, n)
    PROVE  /\ IsCapacities(primary) /\ IsCapacities(gzip) /\ IsCapacities(mask)
           /\ plan.columns["cd"] # {} =>
                Covers(primary, plan.tiled.decoder.codec,
                       IF plan.lossless THEN FloatsTile(plan, big) ELSE IntsTile(plan, big))
           /\ plan.columns["gz"] # {} =>
                Covers(gzip, GzipPlain,
                       IF IsFloat(plan.tiled.image.bitpix) THEN FloatsTile(plan, big)
                       ELSE IntsTile(plan, big))
           /\ plan.columns["mask"] # {} => \A c \in plan.maskCodec : Covers(mask, c, MaskTile(n))
<1>1. PICK ints : ints = IntsTile(plan, big)
  OBVIOUS
<1>2. PICK floats : floats = FloatsTile(plan, big)
  OBVIOUS
<1>3. ints.shape = big /\ ints.width \in ElementSizes
  BY <1>1 DEF IntsTile, IsPlan
<1>4. floats.shape = big /\ floats.width \in ElementSizes
  <2>1. ElemSize(plan.tiled.image.bitpix) \in ElementSizes
    BY SizesAre DEF IsPlan
  <2> QED BY <1>2, <2>1 DEF FloatsTile, IntsTile
<1>5. Product(big) <= Product(big)
  OBVIOUS
<1>6. ByteLen(ints) \in Nat /\ ByteLen(floats) \in Nat
  BY <1>3, <1>4, <1>5, BytesBelow
<1>7. GzipPlain.kind \in CodecKinds /\ plan.tiled.decoder.codec.kind \in CodecKinds
  BY DEF GzipPlain, CodecKinds, IsPlan
<1>8. IsCapacities(primary) /\
      (plan.columns["cd"] # {} =>
            Covers(primary, plan.tiled.decoder.codec, IF plan.lossless THEN floats ELSE ints))
  <2>1. CASE plan.columns["cd"] = {}
    BY <2>1, NoCapacitiesIs
  <2>2. CASE plan.columns["cd"] # {} /\ plan.lossless
    BY <1>2, <1>4, <1>6, <1>7, <2>2, BytesCover
  <2>3. CASE plan.columns["cd"] # {} /\ ~plan.lossless
    BY <1>1, <1>3, <1>6, <1>7, <2>3, IntsCover
  <2> QED BY <2>1, <2>2, <2>3
<1>9. IsCapacities(gzip) /\
      (plan.columns["gz"] # {} =>
            Covers(gzip, GzipPlain, IF IsFloat(plan.tiled.image.bitpix) THEN floats ELSE ints))
  <2>1. CASE plan.columns["gz"] = {}
    BY <2>1, NoCapacitiesIs
  <2>2. CASE plan.columns["gz"] # {} /\ IsFloat(plan.tiled.image.bitpix)
    BY <1>2, <1>4, <1>6, <1>7, <2>2, BytesCover
  <2>3. CASE plan.columns["gz"] # {} /\ ~IsFloat(plan.tiled.image.bitpix)
    BY <1>1, <1>3, <1>6, <1>7, <2>3, IntsCover
  <2> QED BY <2>1, <2>2, <2>3
<1>10. IsCapacities(mask) /\
       (plan.columns["mask"] # {} => \A c \in plan.maskCodec : Covers(mask, c, MaskTile(n)))
  <2>1. PICK m : m = MaskTile(n)
    OBVIOUS
  <2>2. m.shape = <<n>> /\ m.width = 1 /\ 1 \in ElementSizes
    BY <2>1 DEF MaskTile, ElementSizes
  <2>3. ByteLen(m) \in Nat
    <3>1. DOMAIN <<n>> = 1..1 /\ <<n>>[1] = n
      OBVIOUS
    <3>2. \A i \in 1..1 : <<n>>[i] \in Nat
      BY <3>1
    <3>3. Product(<<n>>) \in Nat
      BY <3>1, <3>2, ProductIs
    <3>4. Product(<<n>>) <= Product(<<n>>)
      BY <3>3
    <3> QED BY <2>2, <3>3, <3>4, BytesBelow
  <2>4. CASE plan.columns["mask"] = {} \/ plan.maskCodec = {}
    <3>1. mask = NoCapacities
      BY <2>4 DEF MaskCapacities
    <3> QED BY <2>4, <3>1, NoCapacitiesIs
  <2>5. CASE ~(plan.columns["mask"] = {} \/ plan.maskCodec = {})
    <3>1. PICK d \in plan.maskCodec : d = CHOOSE c \in plan.maskCodec : TRUE
      BY <2>5
    <3>2. mask = IntsCapacities(d, m)
      BY <2>1, <2>5, <3>1 DEF MaskCapacities, MaskTile
    <3>3. d.kind \in CodecKinds /\ \A c \in plan.maskCodec : c.kind = d.kind
      BY <3>1 DEF IsPlan
    <3>4. IsCapacities(mask) /\ Covers(mask, d, m)
      BY <2>2, <2>3, <3>2, <3>3, IntsCover
    <3>5. \A c \in plan.maskCodec : Covers(mask, c, m)
      BY <3>3, <3>4 DEF Covers, ShuffleOf
    <3> QED BY <2>1, <3>4, <3>5
  <2> QED BY <2>4, <2>5
<1> QED BY <1>1, <1>2, <1>8, <1>9, <1>10

\* What a set of the plan's capacities reserves is of its three columns' largest tile.
LEMMA CapacitiesOfPlan ==
    ASSUME NEW plan, IsPlan(plan), NEW x, x = SetCapacities(plan).codecs
    PROVE  /\ IsCapacities(x)
           /\ plan.columns["cd"] # {} => \E y : IsCapacities(y) /\ Dominates(x, y) /\
                Covers(y, plan.tiled.decoder.codec,
                       IF plan.lossless THEN FloatsTile(plan, plan.tiled.geometry.maxTile)
                       ELSE IntsTile(plan, plan.tiled.geometry.maxTile))
           /\ plan.columns["gz"] # {} => \E y : IsCapacities(y) /\ Dominates(x, y) /\
                Covers(y, GzipPlain,
                       IF IsFloat(plan.tiled.image.bitpix)
                       THEN FloatsTile(plan, plan.tiled.geometry.maxTile)
                       ELSE IntsTile(plan, plan.tiled.geometry.maxTile))
           /\ plan.columns["mask"] # {} => \E y : IsCapacities(y) /\ Dominates(x, y) /\
                \A c \in plan.maskCodec : Covers(y, c, MaskTile(MaxTileElements(plan.tiled.geometry)))
<1>1. PICK big : big = plan.tiled.geometry.maxTile
  OBVIOUS
<1>2. PICK n \in Nat : n = MaxTileElements(plan.tiled.geometry) /\ Product(big) = n
  BY <1>1, MaxTileElementsIs DEF IsPlan, MaxTileElements
<1>3. PICK primary : primary = IF plan.columns["cd"] = {} THEN NoCapacities
                               ELSE IF plan.lossless
                               THEN BytesCapacities(plan.tiled.decoder.codec, FloatsTile(plan, big))
                               ELSE IntsCapacities(plan.tiled.decoder.codec, IntsTile(plan, big))
  OBVIOUS
<1>4. PICK gzip : gzip = IF plan.columns["gz"] = {} THEN NoCapacities
                         ELSE IF IsFloat(plan.tiled.image.bitpix)
                         THEN BytesCapacities(GzipPlain, FloatsTile(plan, big))
                         ELSE IntsCapacities(GzipPlain, IntsTile(plan, big))
  OBVIOUS
<1>5. PICK mask : mask = MaskCapacities(plan, n)
  OBVIOUS
<1>6. PICK both : both = MaxCapacities(primary, gzip)
  OBVIOUS
<1>7. x = MaxCapacities(both, mask)
  <2>1. DecoderCapacities(plan, big) = both
    BY <1>3, <1>4, <1>6 DEF DecoderCapacities, With, FloatsTile, IntsTile
  <2> QED BY <1>1, <1>2, <1>5, <2>1 DEF SetCapacities
<1>8. /\ IsCapacities(primary) /\ IsCapacities(gzip) /\ IsCapacities(mask)
      /\ plan.columns["cd"] # {} =>
           Covers(primary, plan.tiled.decoder.codec,
                  IF plan.lossless THEN FloatsTile(plan, big) ELSE IntsTile(plan, big))
      /\ plan.columns["gz"] # {} =>
           Covers(gzip, GzipPlain,
                  IF IsFloat(plan.tiled.image.bitpix) THEN FloatsTile(plan, big)
                  ELSE IntsTile(plan, big))
      /\ plan.columns["mask"] # {} => \A c \in plan.maskCodec : Covers(mask, c, MaskTile(n))
  BY <1>2, <1>3, <1>4, <1>5, PartsOfCapacities
<1>9. IsCapacities(both) /\ Dominates(both, primary) /\ Dominates(both, gzip)
  BY <1>6, <1>8, MaxCapacitiesIs
<1>10. IsCapacities(x) /\ Dominates(x, both) /\ Dominates(x, mask)
  BY <1>7, <1>8, <1>9, MaxCapacitiesIs
<1>11. Dominates(x, primary) /\ Dominates(x, gzip)
  BY <1>8, <1>9, <1>10 DEF Dominates, IsCapacities
<1> QED BY <1>1, <1>2, <1>8, <1>10, <1>11

\* Any tile of the image, and its mask, has the room it needs in a scratch of the plan's.
LEMMA RoomInPlan ==
    ASSUME NEW plan, IsPlan(plan), HasTiles(plan.tiled.geometry),
           NEW t \in Nat, t < NTiles(plan.tiled.geometry),
           NEW s, Holds(s, SetCapacities(plan).codecs),
           NEW tile, tile = TileInto(plan.tiled.geometry, t)
    PROVE  /\ TileHasRoom(s, plan, tile.tdims, plan.encoding[t + 1])
           /\ MaskHasRoom(s, plan, Nelem(tile))
<1> DEFINE g == plan.tiled.geometry
<1>1. PICK x : x = SetCapacities(plan).codecs
  OBVIOUS
<1>2. PICK big : big = g.maxTile
  OBVIOUS
<1>3. PICK shape : shape = tile.tdims
  OBVIOUS
<1>4. Product(shape) \in Nat /\ Product(big) \in Nat /\ Product(shape) <= Product(big)
  BY <1>2, <1>3, TileFits
<1>5. Nelem(tile) = Product(shape) /\ MaxTileElements(g) = Product(big)
  BY <1>2, <1>3, ExtentsAre DEF MaxTileElements
<1>6. IsCapacities(x) /\ Holds(s, x)
  BY <1>1, CapacitiesOfPlan
<1>7. PICK ints, floats : ints = IntsTile(plan, shape) /\ floats = FloatsTile(plan, shape)
  OBVIOUS
<1>8. PICK bigInts, bigFloats : bigInts = IntsTile(plan, big) /\ bigFloats = FloatsTile(plan, big)
  OBVIOUS
<1>9. ByteLen(ints) \in Nat /\ ByteLen(ints) <= ByteLen(bigInts) /\ ints.width = bigInts.width
  <2>1. ints.shape = shape /\ bigInts.shape = big /\ ints.width = bigInts.width
        /\ ints.width \in ElementSizes
    BY <1>7, <1>8 DEF IntsTile, IsPlan
  <2> QED BY <1>4, <2>1, BytesBelow
<1>10. ByteLen(floats) \in Nat /\ ByteLen(floats) <= ByteLen(bigFloats) /\ floats.width = bigFloats.width
  <2>1. floats.shape = shape /\ bigFloats.shape = big /\ floats.width = ElemSize(plan.tiled.image.bitpix)
        /\ bigFloats.width = floats.width
    BY <1>7, <1>8 DEF FloatsTile, IntsTile
  <2>2. floats.width \in ElementSizes
    BY <2>1, SizesAre DEF IsPlan
  <2> QED BY <1>4, <2>1, <2>2, BytesBelow
<1>11. t + 1 \in 1..NTiles(g)
  BY NTilesIs DEF IsPlan
<1>12. IsFloat(plan.tiled.image.bitpix) /\ plan.encoding[t + 1] = {} <=> plan.lossless
  BY <1>11 DEF IsPlan
<1>13. plan.columns["cd"] # {} =>
            HasRoom(s, plan.tiled.decoder.codec, IF plan.lossless THEN floats ELSE ints)
  <2>1. SUFFICES ASSUME plan.columns["cd"] # {}
                 PROVE  HasRoom(s, plan.tiled.decoder.codec, IF plan.lossless THEN floats ELSE ints)
    OBVIOUS
  <2>2. PICK y : /\ IsCapacities(y) /\ Dominates(x, y)
                 /\ Covers(y, plan.tiled.decoder.codec, IF plan.lossless THEN bigFloats ELSE bigInts)
    BY <1>1, <1>2, <1>8, <2>1, CapacitiesOfPlan
  <2>3. Covers(x, plan.tiled.decoder.codec, IF plan.lossless THEN floats ELSE ints)
    BY <1>6, <1>9, <1>10, <2>2, CoversSmaller
  <2> QED BY <1>6, <2>3, CoveredHasRoom
<1>14. plan.columns["gz"] # {} =>
            HasRoom(s, GzipPlain, IF IsFloat(plan.tiled.image.bitpix) THEN floats ELSE ints)
  <2>1. SUFFICES ASSUME plan.columns["gz"] # {}
                 PROVE  HasRoom(s, GzipPlain, IF IsFloat(plan.tiled.image.bitpix) THEN floats ELSE ints)
    OBVIOUS
  <2>2. PICK y : /\ IsCapacities(y) /\ Dominates(x, y)
                 /\ Covers(y, GzipPlain, IF IsFloat(plan.tiled.image.bitpix) THEN bigFloats ELSE bigInts)
    BY <1>1, <1>2, <1>8, <2>1, CapacitiesOfPlan
  <2>3. Covers(x, GzipPlain, IF IsFloat(plan.tiled.image.bitpix) THEN floats ELSE ints)
    BY <1>6, <1>9, <1>10, <2>2, CoversSmaller
  <2> QED BY <1>6, <2>3, CoveredHasRoom
<1>15. MaskHasRoom(s, plan, Product(shape))
  <2>1. SUFFICES ASSUME plan.columns["mask"] # {}, NEW c \in plan.maskCodec
                 PROVE  HasRoom(s, c, MaskTile(Product(shape)))
    BY DEF MaskHasRoom
  <2>2. PICK y : IsCapacities(y) /\ Dominates(x, y) /\ Covers(y, c, MaskTile(Product(big)))
    BY <1>1, <1>5, <2>1, CapacitiesOfPlan
  <2>3. PICK m, n \in Nat : m = Product(shape) /\ n = Product(big) /\ m <= n
    BY <1>4
  <2>4. PICK small, large : small = MaskTile(m) /\ large = MaskTile(n)
    OBVIOUS
  <2>5. small.shape = <<m>> /\ large.shape = <<n>> /\ small.width = 1 /\ large.width = 1 /\ 1 \in ElementSizes
    BY <2>4 DEF MaskTile, ElementSizes
  <2>6. Product(<<m>>) \in Nat /\ Product(<<n>>) \in Nat /\ Product(<<m>>) <= Product(<<n>>)
    <3>1. DOMAIN <<m>> = 1..1 /\ DOMAIN <<n>> = 1..1
          /\ \A i \in 1..1 : <<m>>[i] \in Nat /\ <<n>>[i] \in Nat /\ <<m>>[i] <= <<n>>[i]
      BY <2>3
    <3> QED BY <3>1, ProductBelow
  <2>7. ByteLen(small) \in Nat /\ ByteLen(small) <= ByteLen(large)
    BY <2>5, <2>6, BytesBelow
  <2>8. Covers(x, c, small)
    BY <1>6, <2>2, <2>3, <2>4, <2>5, <2>7, CoversSmaller
  <2> QED BY <1>6, <2>3, <2>4, <2>8, CoveredHasRoom
<1>16. TileHasRoom(s, plan, shape, plan.encoding[t + 1])
  BY <1>7, <1>12, <1>13, <1>14 DEF TileHasRoom
<1> QED BY <1>3, <1>5, <1>15, <1>16

-----------------------------------------------------------------------------
(* The parameters of a codec. *)

\* What the codec of a header's name is.
IsCodec(c) ==
    /\ "kind" \in DOMAIN c /\ c.kind \in CodecKinds
    /\ c.kind = "Rice" => "bytepix" \in DOMAIN c /\ c.bytepix \in Widths

LEMMA CodecsNamed ==
    ASSUME NEW name, NEW c \in CodecOfName(name)
    PROVE  IsCodec(c) /\ \A d \in CodecOfName(name) : d.kind = c.kind
<1> DEFINE six == {GzipPlain, GzipShuffled, RiceCodec(RiceBlock, 4), PlioCodec(0), NoCompress,
                   HcompressCodec([kind |-> "Lossless", value |-> 0], FALSE, <<1, 2>>)}
<1>1. \A d \in CodecOfName(name) : d \in six /\ CodecName(d) = name
  BY DEF CodecOfName
<1>2. \A d \in six : IsCodec(d)
  BY DEF IsCodec, CodecKinds, Widths, GzipPlain, GzipShuffled, RiceCodec, PlioCodec, NoCompress, HcompressCodec
<1>3. ASSUME NEW d, d.kind \in CodecKinds
      PROVE  /\ d.kind = "Gzip1" <=> CodecName(d) = "GZIP_1"
             /\ d.kind = "Gzip2" <=> CodecName(d) = "GZIP_2"
             /\ d.kind = "Rice" <=> CodecName(d) = "RICE_1"
             /\ d.kind = "Plio" <=> CodecName(d) = "PLIO_1"
             /\ d.kind = "Hcompress" <=> CodecName(d) = "HCOMPRESS_1"
             /\ d.kind = "NoCompress" <=> CodecName(d) = "NOCOMPRESS"
  BY <1>3 DEF CodecName, CodecKinds
<1>4. \A d \in CodecOfName(name) : IsCodec(d) /\ CodecName(d) = name
  BY <1>1, <1>2
<1>5. ASSUME NEW d \in CodecOfName(name) PROVE d.kind = c.kind
  BY <1>3, <1>4 DEF IsCodec, CodecKinds
<1> QED BY <1>4, <1>5

ParameterStep(c, s, p) == ReadParameter(c, s, p)

ParameterKept(c, s, k, a) == a.error = "none" => IsCodec(a.codec) /\ a.codec.kind = c.kind

Parameters == INSTANCE Folding WITH Step <- ParameterStep, Kept <- ParameterKept

LEMMA ParametersOrdered == Parameters!WellOrdered
BY LeastMember DEF Parameters!WellOrdered

\* A codec's parameters leave it the codec it is.
LEMMA ReadParametersIs ==
    ASSUME NEW codec, IsCodec(codec), NEW params, NEW n \in Nat, DOMAIN params = 1..n,
           NEW read, read = ReadParameters(codec, params)
    PROVE  ParameterKept(codec, params, n, read)
<1> DEFINE base == [error |-> "none", codec |-> codec]
<1>1. read = Parameters!Fold(codec, base, params)
  BY DEF ReadParameters, Parameters!Fold, ParameterStep, FoldLeft, MapThenFoldSet, Max,
         Parameters!Greatest
<1>2. ParameterKept(codec, params, 0, base)
  BY DEF ParameterKept
<1>3. ASSUME NEW s, NEW p, NEW k, NEW m, ParameterKept(codec, params, k, s)
      PROVE  ParameterKept(codec, params, m, ParameterStep(codec, s, p))
  <2>1. PICK v : v = OrElse(p.value, 0)
    OBVIOUS
  <2>2. PICK x : x = ParameterStep(codec, s, p)
    OBVIOUS
  <2>3. x = ReadParameter(codec, s, p)
    BY <2>2 DEF ParameterStep
  <2>4. CASE s.error # "none"
    BY <2>2, <2>3, <2>4 DEF ReadParameter, ParameterKept
  <2>5. CASE s.error = "none"
    <3>1. IsCodec(s.codec) /\ s.codec.kind = codec.kind
      BY <1>3, <2>5 DEF ParameterKept
    <3>2. CASE codec.kind = "Rice" /\ p.name = "BLOCKSIZE" /\ p.value # {}
      <4>1. x = IF v \in {16, 32} THEN [error |-> "none", codec |-> [s.codec EXCEPT !.blocksize = v]]
                ELSE [error |-> "Range", codec |-> codec]
        BY <2>1, <2>3, <2>5, <3>2 DEF ReadParameter
      <4>2. PICK c : c = [s.codec EXCEPT !.blocksize = v]
        OBVIOUS
      <4>3. DOMAIN c = DOMAIN s.codec /\ \A f \in DOMAIN c : f # "blocksize" => c[f] = s.codec[f]
        BY <4>2
      <4>4. IsCodec(c) /\ c.kind = codec.kind
        BY <3>1, <4>3 DEF IsCodec
      <4> QED BY <2>2, <4>1, <4>2, <4>4 DEF ParameterKept
    <3>3. CASE codec.kind = "Rice" /\ ~(p.name = "BLOCKSIZE" /\ p.value # {})
               /\ p.name = "BYTEPIX" /\ p.value # {}
      <4>1. x = IF v \in Widths THEN [error |-> "none", codec |-> [s.codec EXCEPT !.bytepix = v]]
                ELSE [error |-> "Range", codec |-> codec]
        BY <2>1, <2>3, <2>5, <3>3 DEF ReadParameter
      <4>2. PICK c : c = [s.codec EXCEPT !.bytepix = v]
        OBVIOUS
      <4>3. DOMAIN c = DOMAIN s.codec /\ \A f \in DOMAIN c : IF f = "bytepix" THEN c[f] = v ELSE c[f] = s.codec[f]
        BY <4>2
      <4>4. v \in Widths => IsCodec(c) /\ c.kind = codec.kind
        BY <3>1, <4>3 DEF IsCodec
      <4> QED BY <2>2, <4>1, <4>2, <4>4 DEF ParameterKept
    <3>4. CASE codec.kind = "Hcompress" /\ p.name = "SMOOTH"
      <4>1. x = [error |-> "none", codec |-> [s.codec EXCEPT !.smoothing = v # 0]]
        BY <2>1, <2>3, <2>5, <3>4 DEF ReadParameter
      <4>2. PICK c : c = [s.codec EXCEPT !.smoothing = v # 0]
        OBVIOUS
      <4>3. DOMAIN c = DOMAIN s.codec /\ \A f \in DOMAIN c : f # "smoothing" => c[f] = s.codec[f]
        BY <4>2
      <4>4. IsCodec(c) /\ c.kind = codec.kind
        BY <3>1, <4>3 DEF IsCodec
      <4>5. x = [error |-> "none", codec |-> c]
        BY <4>1, <4>2, Zenon
      <4> QED BY <2>2, <4>4, <4>5 DEF ParameterKept
    <3>5. CASE /\ ~(codec.kind = "Rice" /\ p.name = "BLOCKSIZE" /\ p.value # {})
               /\ ~(codec.kind = "Rice" /\ p.name = "BYTEPIX" /\ p.value # {})
               /\ ~(codec.kind = "Hcompress" /\ p.name = "SMOOTH")
      <4>1. x = s
        BY <2>3, <2>5, <3>5 DEF ReadParameter
      <4> QED BY <2>2, <3>1, <4>1 DEF ParameterKept
    <3> QED BY <3>2, <3>3, <3>4, <3>5
  <2> QED BY <2>4, <2>5
<1> HIDE DEF base
<1>4. ParameterKept(codec, params, n, Parameters!Fold(codec, base, params))
  <2>1. \A k \in 1..n : \A a : ParameterKept(codec, params, k - 1, a)
            => ParameterKept(codec, params, k, ParameterStep(codec, a, params[k]))
    BY <1>3
  <2> QED BY <1>2, <2>1, ParametersOrdered, Parameters!FoldKeeps
<1> QED BY <1>1, <1>4

\* The codec fitted to a plane is the same codec.
LEMMA FittedIs ==
    ASSUME NEW codec, IsCodec(codec), NEW dims, NEW tiles,
           NEW fitted, fitted = Fitted2(codec, dims, tiles), fitted.ok
    PROVE  IsCodec(fitted.codec) /\ fitted.codec.kind = codec.kind
<1>1. PICK above : above = Above1(dims, tiles)
  OBVIOUS
<1>2. PICK c : c = [codec EXCEPT !.plane = above]
  OBVIOUS
<1>3. DOMAIN c = DOMAIN codec /\ \A f \in DOMAIN c : f # "plane" => c[f] = codec[f]
  BY <1>2
<1>4. IsCodec(c) /\ c.kind = codec.kind
  BY <1>3 DEF IsCodec
<1>5. fitted = IF codec.kind # "Hcompress" \/ dims = <<>> \/ \E i \in DOMAIN dims : dims[i] = 0
               THEN [ok |-> TRUE, codec |-> codec]
               ELSE IF Len(above) = 2 THEN [ok |-> TRUE, codec |-> c]
               ELSE [ok |-> FALSE]
  BY <1>1, <1>2 DEF Fitted2, With
<1> QED BY <1>4, <1>5

-----------------------------------------------------------------------------
(* A tile decoded after others. *)

\* A set that works for a plan: none yet, or one with the capacities reserved for it.
Sized(plan, s) == s = NoSet \/ (IsWorkSet(s) /\ Holds(s.codecs, SetCapacities(plan).codecs))

LEMMA ReservedIs ==
    ASSUME NEW plan, IsPlan(plan), NEW s, Sized(plan, s),
           NEW r, r = ReserveSet(s, SetCapacities(plan))
    PROVE  IsWorkSet(r) /\ Holds(r.codecs, SetCapacities(plan).codecs)
<1>1. PICK x : x = SetCapacities(plan)
  OBVIOUS
<1>2. IsCapacities(x.codecs)
  BY <1>1, CapacitiesOfPlan
<1>3. IsWorkSet(NoSet) /\ NoSet.codecs.inflated.cap = 0 /\ NoSet.codecs.reordered.cap = 0
  BY DEF IsWorkSet, IsSet, IsScratch, IsBuffer, NoSet, NoBuffer, NoScratch, BufferNames
<1>4. IsWorkSet(s)
  BY <1>3 DEF Sized
<1>5. r.values = GrowTo(s.values, x.values) /\ r.codecs = ReserveScratch(s.codecs, x.codecs)
      /\ r = [f \in {"values", "codecs"} |-> r[f]]
  BY <1>1 DEF ReserveSet
<1>6. IsBuffer(r.values)
  BY <1>4, <1>5, GrowToIs DEF IsWorkSet, IsSet
<1>7. DOMAIN s.codecs = BufferNames /\ \A b \in BufferNames : IsBuffer(s.codecs[b])
  BY <1>4 DEF IsWorkSet, IsScratch
<1>8. r.codecs = [b \in BufferNames |-> GrowTo(s.codecs[b], x.codecs[b])]
  BY <1>5, <1>7 DEF ReserveScratch
<1>9. \A b \in BufferNames : IsBuffer(r.codecs[b]) /\ r.codecs[b].cap = MaxOf(s.codecs[b].cap, x.codecs[b])
  BY <1>7, <1>8, GrowToIs
<1>10. IsWorkSet(r)
  BY <1>5, <1>6, <1>8, <1>9 DEF IsWorkSet, IsSet, IsScratch
<1>11. "inflated" \in BufferNames /\ "reordered" \in BufferNames
  BY DEF BufferNames
<1>12. Holds(r.codecs, x.codecs)
  <2>1. CASE s = NoSet
    BY <1>2, <1>3, <1>9, <1>11, <2>1 DEF Holds, IsCapacities, MaxOf
  <2>2. CASE Holds(s.codecs, x.codecs)
    BY <1>2, <1>9, <1>11, <2>2 DEF Holds, IsCapacities, MaxOf
  <2> QED BY <1>1, <2>1, <2>2 DEF Sized
<1> QED BY <1>1, <1>10, <1>12

\* What a worker of its own makes of a tile.
ErrorAt(plan, table, at) == DecodeTile(plan, table, at, ReserveSet(NoSet, SetCapacities(plan))).error

\* Whatever tiles a worker decoded before, with errors or without, it makes of a tile
\* what a fresh one would: the same error, or the same samples; and it is left with a
\* set as large as it was.
THEOREM DecodeIsFresh ==
    ASSUME NEW plan, IsPlan(plan), HasTiles(plan.tiled.geometry),
           NEW table, table.columns = plan.columns,
           NEW at, at.grid \in Nat, at.grid < NTiles(plan.tiled.geometry),
           NEW s, Sized(plan, s),
           NEW d, d = DecodeTile(plan, table, at, ReserveSet(s, SetCapacities(plan))),
           NEW e, e = DecodeTile(plan, table, at, ReserveSet(NoSet, SetCapacities(plan)))
    PROVE  /\ d.error = e.error
           /\ d.error = "none" => d.set.values.held = e.set.values.held
           /\ Sized(plan, d.set)
<1>1. PICK x : x = SetCapacities(plan).codecs
  OBVIOUS
<1>2. PICK r : r = ReserveSet(s, SetCapacities(plan))
  OBVIOUS
<1>3. PICK fresh : fresh = ReserveSet(NoSet, SetCapacities(plan))
  OBVIOUS
<1>4. IsWorkSet(r) /\ Holds(r.codecs, x)
  BY <1>1, <1>2, ReservedIs
<1>5. IsWorkSet(fresh) /\ Holds(fresh.codecs, x)
  <2>1. Sized(plan, NoSet)
    BY DEF Sized
  <2> QED BY <1>1, <1>3, <2>1, ReservedIs
<1>6. SetsAlike(r, fresh)
  <2>1. ScratchesAlike(r.codecs, fresh.codecs)
    BY <1>4, <1>5 DEF ScratchesAlike, Holds, IsWorkSet
  <2> QED BY <1>4, <1>5, <2>1, WorkSetAlike
<1>7. plan.tiled.decoder.codec.kind \in CodecKinds /\ \A c \in plan.maskCodec : c.kind \in CodecKinds
  BY DEF IsPlan
<1>8. e = DecodeTile(plan, table, at, fresh)
  BY <1>3
<1>9. d = DecodeTile(plan, table, at, r)
  BY <1>2
<1>10. CellsAlike(table, at.table, table, at.table)
  BY DEF CellsAlike
<1>11. TilesAlike(d, e)
  BY <1>6, <1>7, <1>8, <1>9, <1>10, DecodeTileAlike
<1>12. PICK tile : tile = TileInto(plan.tiled.geometry, at.grid)
  OBVIOUS
<1>13. /\ TileHasRoom(r.codecs, plan, tile.tdims, plan.encoding[at.grid + 1])
       /\ MaskHasRoom(r.codecs, plan, Nelem(tile))
  BY <1>1, <1>4, <1>12, RoomInPlan
<1>14. SetsAlike(r, d.set)
  BY <1>4, <1>7, <1>9, <1>12, <1>13, DecodeTileKeeps
<1>15. IsWorkSet(d.set) /\ ScratchesAlike(r.codecs, d.set.codecs)
  BY <1>14, WorkSetAlike
<1>16. Holds(d.set.codecs, x)
  BY <1>4, <1>15 DEF Holds, ScratchesAlike
<1>17. d.error = e.error /\ (d.error = "none" => d.set.values.held = e.set.values.held)
  BY <1>11 DEF TilesAlike
<1> QED BY <1>1, <1>15, <1>16, <1>17 DEF Sized

\* So its error is that of the tile alone.
LEMMA DecodedInTurn ==
    ASSUME NEW plan, IsPlan(plan), HasTiles(plan.tiled.geometry),
           NEW table, table.columns = plan.columns,
           NEW at, at.grid \in Nat, at.grid < NTiles(plan.tiled.geometry),
           NEW s, Sized(plan, s),
           NEW d, d = DecodeTile(plan, table, at, ReserveSet(s, SetCapacities(plan)))
    PROVE  d.error = ErrorAt(plan, table, at) /\ Sized(plan, d.set)
BY DecodeIsFresh DEF ErrorAt

-----------------------------------------------------------------------------
(* The tiles of a section are tiles of the grid. *)

\* The tile of a sample of an axis is one of the axis'.
LEMMA SampleInTile ==
    ASSUME NEW d \in Nat \ {0}, NEW t \in Nat \ {0}, NEW x \in Nat, x < d
    PROVE  x \div t \in Nat /\ x \div t + 1 <= CeilDiv(d, t)
<1>1. d + t - 1 \in Nat
  OBVIOUS
<1>2. PICK b \in Nat : b = (d + t - 1) \div t
  BY <1>1
<1>3. PICK q \in Nat : q = x \div t
  OBVIOUS
<1>4. t * q <= x
  BY <1>3
<1>5. d + t - 1 < t * (b + 1)
  BY <1>1, <1>2
<1>6. CASE b < q + 1
  <2>1. t * (b + 1) <= t * (q + 1)
    BY <1>6
  <2>2. t * (q + 1) = t * q + t
    OBVIOUS
  <2>3. t * q \in Nat /\ t * (b + 1) \in Nat
    OBVIOUS
  <2> QED BY <1>4, <1>5, <2>1, <2>2, <2>3
<1> QED BY <1>2, <1>3, <1>6 DEF CeilDiv

\* A place in the grid of tiles.
IsCoord(g, c) ==
    /\ c = [i \in 1..Len(g.dims) |-> c[i]]
    /\ \A i \in 1..Len(g.dims) : c[i] \in Nat /\ c[i] < g.ntilesAxis[i]

\* The ranges of a section that has a sample.
IsSection(g, ranges) ==
    /\ ranges \in Seq([lo : Nat, hi : Nat]) /\ Len(ranges) = Len(g.dims)
    /\ \A i \in 1..Len(g.dims) : ranges[i].lo < ranges[i].hi /\ ranges[i].hi <= g.dims[i]

LEMMA TouchedAre ==
    ASSUME NEW g, HasTiles(g), NEW ranges, IsSection(g, ranges), NEW i \in 1..Len(g.dims)
    PROVE  /\ ranges[i].lo \div g.tiles[i] \in Nat
           /\ ranges[i].lo \div g.tiles[i] < g.ntilesAxis[i]
           /\ FirstPastTile(ranges[i], g.tiles[i]) \in Nat
           /\ FirstPastTile(ranges[i], g.tiles[i]) <= g.ntilesAxis[i]
<1>1. g.tiles[i] \in Nat \ {0} /\ g.dims[i] \in Nat \ {0}
  BY DEF HasTiles, IsGrid
<1>2. g.ntilesAxis[i] = CeilDiv(g.dims[i], g.tiles[i])
  <2>1. DOMAIN g.dims = 1..Len(g.dims)
    BY DEF HasTiles, IsGrid
  <2> QED BY <2>1 DEF HasTiles, IsGrid, NewGeometry
<1>3. ranges[i] \in [lo : Nat, hi : Nat] /\ ranges[i].lo < ranges[i].hi /\ ranges[i].hi <= g.dims[i]
  <2>1. ranges \in Seq([lo : Nat, hi : Nat]) /\ i \in 1..Len(ranges)
    BY DEF IsSection
  <2>2. ranges[i] \in [lo : Nat, hi : Nat]
    BY <2>1, ElementOfSeq
  <2> QED BY <2>2 DEF IsSection
<1>4. PICK lo, hi \in Nat : lo = ranges[i].lo /\ hi = ranges[i].hi
  BY <1>3
<1>5. hi - 1 \in Nat /\ lo < g.dims[i] /\ hi - 1 < g.dims[i]
  BY <1>1, <1>3, <1>4
<1>6. PICK d, t \in Nat \ {0} : d = g.dims[i] /\ t = g.tiles[i]
  BY <1>1
<1>7. /\ lo \div t \in Nat /\ lo \div t + 1 <= CeilDiv(d, t)
      /\ (hi - 1) \div t \in Nat /\ (hi - 1) \div t + 1 <= CeilDiv(d, t)
  BY <1>5, <1>6, SampleInTile
<1>8. CeilDiv(d, t) \in Nat
  BY CeilDivIs
<1>9. PICK a, b, n \in Nat : a = lo \div t /\ b = (hi - 1) \div t /\ n = CeilDiv(d, t)
  BY <1>7, <1>8
<1>10. ranges[i].lo \div g.tiles[i] = a /\ FirstPastTile(ranges[i], g.tiles[i]) = b + 1 /\ g.ntilesAxis[i] = n
  BY <1>2, <1>4, <1>6, <1>9 DEF FirstPastTile
<1> QED BY <1>7, <1>9, <1>10

LEMMA FirstTileIs ==
    ASSUME NEW g, HasTiles(g), NEW ranges, IsSection(g, ranges)
    PROVE  IsCoord(g, FirstTile(g, ranges))
<1>1. DOMAIN ranges = 1..Len(g.dims)
  BY DEF IsSection
<1> QED BY <1>1, TouchedAre DEF IsCoord, FirstTile

TurnStep(c, u, i) ==
    IF u.done THEN u
    ELSE IF u.c[i] + 1 < FirstPastTile(c[2][i], c[1].tiles[i])
    THEN [c |-> [u.c EXCEPT ![i] = @ + 1], done |-> TRUE]
    ELSE [c |-> [u.c EXCEPT ![i] = FirstTile(c[1], c[2])[i]], done |-> FALSE]

TurnsInGrid(c, s, k, u) == IsCoord(c[1], u.c)

Turns == INSTANCE Folding WITH Step <- TurnStep, Kept <- TurnsInGrid

LEMMA TurnsOrdered == Turns!WellOrdered
BY LeastMember DEF Turns!WellOrdered

\* The tile after one of the grid's that a section touches is one of the grid's.
LEMMA NextTileIs ==
    ASSUME NEW g, HasTiles(g), NEW ranges, IsSection(g, ranges), NEW at, IsCoord(g, at)
    PROVE  IsCoord(g, NextTile(g, ranges, at))
<1> DEFINE n == Len(g.dims)
           base == [c |-> at, done |-> FALSE]
           axes == [i \in DOMAIN at |-> i]
<1>1. PICK x : x = <<g, ranges>>
  OBVIOUS
<1>2. x[1] = g /\ x[2] = ranges
  BY <1>1
<1>3. n \in Nat /\ DOMAIN at = 1..n
  BY DEF HasTiles, IsGrid, IsCoord
<1>4. NextTile(g, ranges, at) = Turns!Fold(x, base, axes).c
  BY <1>1 DEF NextTile, Turns!Fold, TurnStep, FoldLeft, MapThenFoldSet, Max,
              Turns!Greatest
<1>5. DOMAIN axes = 1..n /\ \A i \in 1..n : axes[i] = i
  BY <1>3
<1>6. TurnsInGrid(x, axes, 0, base)
  BY <1>2 DEF TurnsInGrid
<1> HIDE DEF base, axes
<1>7. ASSUME NEW k \in 1..n, NEW u, TurnsInGrid(x, axes, k - 1, u)
      PROVE  TurnsInGrid(x, axes, k, TurnStep(x, u, axes[k]))
  <2>1. IsCoord(g, u.c) /\ axes[k] = k
    BY <1>2, <1>5, <1>7 DEF TurnsInGrid
  <2>2. PICK w : w = TurnStep(x, u, k)
    OBVIOUS
  <2>3. FirstTile(g, ranges)[k] \in Nat /\ FirstTile(g, ranges)[k] < g.ntilesAxis[k]
    BY FirstTileIs DEF IsCoord
  <2>4. FirstPastTile(ranges[k], g.tiles[k]) \in Nat
        /\ FirstPastTile(ranges[k], g.tiles[k]) <= g.ntilesAxis[k]
    BY TouchedAre
  <2>5. u.c[k] \in Nat /\ u.c[k] < g.ntilesAxis[k] /\ g.ntilesAxis[k] \in Nat
    <3>1. g.ntilesAxis \in Seq(Nat) /\ Len(g.ntilesAxis) = n
      BY GridAxes DEF HasTiles
    <3>2. g.ntilesAxis[k] \in Nat
      BY <3>1, ElementOfSeq
    <3> QED BY <2>1, <3>2 DEF IsCoord
  <2>6. ASSUME NEW v \in Nat, v < g.ntilesAxis[k], NEW y, y = [u.c EXCEPT ![k] = v]
        PROVE  IsCoord(g, y)
    <3>1. DOMAIN u.c = 1..n /\ \A i \in 1..n : u.c[i] \in Nat /\ u.c[i] < g.ntilesAxis[i]
      BY <2>1 DEF IsCoord
    <3>2. y = [i \in 1..n |-> IF i = k THEN v ELSE u.c[i]]
      BY <2>6, <3>1
    <3> QED BY <2>6, <3>1, <3>2 DEF IsCoord
  <2>7. CASE u.done
    <3>1. w = u
      BY <2>2, <2>7 DEF TurnStep
    <3> QED BY <1>2, <2>1, <2>2, <3>1 DEF TurnsInGrid
  <2>8. CASE ~u.done /\ u.c[k] + 1 < FirstPastTile(ranges[k], g.tiles[k])
    <3>1. PICK y : y = [u.c EXCEPT ![k] = @ + 1]
      OBVIOUS
    <3>2. w = [c |-> y, done |-> TRUE]
      BY <1>2, <2>2, <2>8, <3>1, Zenon DEF TurnStep
    <3>3. u.c[k] + 1 \in Nat /\ u.c[k] + 1 < g.ntilesAxis[k]
      BY <2>4, <2>5, <2>8
    <3>4. PICK v : v = u.c[k] + 1
      OBVIOUS
    <3>5. y = [u.c EXCEPT ![k] = v]
      BY <3>1, <3>4, Zenon
    <3>6. IsCoord(g, y)
      BY <2>6, <3>3, <3>4, <3>5
    <3> QED BY <1>2, <2>1, <2>2, <3>2, <3>6 DEF TurnsInGrid
  <2>9. CASE ~u.done /\ ~(u.c[k] + 1 < FirstPastTile(ranges[k], g.tiles[k]))
    <3>1. PICK v : v = FirstTile(g, ranges)[k]
      OBVIOUS
    <3>2. PICK y : y = [u.c EXCEPT ![k] = v]
      OBVIOUS
    <3>3. w = [c |-> y, done |-> FALSE]
      BY <1>2, <2>2, <2>9, <3>1, <3>2, Zenon DEF TurnStep
    <3>4. IsCoord(g, y)
      BY <2>3, <2>6, <3>1, <3>2
    <3> QED BY <1>2, <2>1, <2>2, <3>3, <3>4 DEF TurnsInGrid
  <2> QED BY <2>7, <2>8, <2>9
<1>8. TurnsInGrid(x, axes, n, Turns!Fold(x, base, axes))
  BY <1>3, <1>5, <1>6, <1>7, TurnsOrdered, Turns!FoldKeeps
<1> QED BY <1>2, <1>4, <1>8 DEF TurnsInGrid

NumberStep(c, a, i) == a + c[2][i] * Product(SubSeq(c[1].ntilesAxis, 1, i - 1))

NumberInGrid(c, s, k, a) == a \in Nat /\ a < UpTo(c[1].ntilesAxis, k)

Numbers == INSTANCE Folding WITH Step <- NumberStep, Kept <- NumberInGrid

LEMMA NumbersOrdered == Numbers!WellOrdered
BY LeastMember DEF Numbers!WellOrdered

\* The number of a place in the grid is that of one of its tiles.
LEMMA TileAtIs ==
    ASSUME NEW g, HasTiles(g), NEW at, IsCoord(g, at)
    PROVE  TileAt(g, at) \in Nat /\ TileAt(g, at) < NTiles(g)
<1> DEFINE n == Len(g.dims)
           axes == [i \in DOMAIN at |-> i]
<1>1. PICK x : x = <<g, at>>
  OBVIOUS
<1>2. x[1] = g /\ x[2] = at
  BY <1>1
<1>3. n \in Nat /\ DOMAIN at = 1..n
  BY DEF HasTiles, IsGrid, IsCoord
<1>4. TileAt(g, at) = Numbers!Fold(x, 0, axes)
  BY <1>1 DEF TileAt, Numbers!Fold, NumberStep, FoldLeft, MapThenFoldSet, Max,
              Numbers!Greatest
<1>5. DOMAIN axes = 1..n /\ \A i \in 1..n : axes[i] = i
  BY <1>3
<1> HIDE DEF axes
<1>6. /\ g.ntilesAxis \in Seq(Nat) /\ Len(g.ntilesAxis) = n
      /\ \A i \in 1..n : g.ntilesAxis[i] \in Nat
  <2>1. g.ntilesAxis \in Seq(Nat) /\ Len(g.ntilesAxis) = n
    BY GridAxes DEF HasTiles
  <2> QED BY <2>1
<1>7. PICK nt : nt = g.ntilesAxis
  OBVIOUS
<1>8. \A k \in 0..n : UpTo(nt, k) \in Nat /\ Product(SubSeq(nt, 1, k)) = UpTo(nt, k)
  BY <1>3, <1>6, <1>7, UpToIs, ProductOfFirst
<1>9. NumberInGrid(x, axes, 0, 0)
  BY <1>2, UpToNext DEF NumberInGrid
<1>10. ASSUME NEW k \in 1..n, NEW a, NumberInGrid(x, axes, k - 1, a)
       PROVE  NumberInGrid(x, axes, k, NumberStep(x, a, axes[k]))
  <2>1. a \in Nat /\ a < UpTo(nt, k - 1) /\ axes[k] = k
    BY <1>2, <1>5, <1>7, <1>10 DEF NumberInGrid
  <2>2. k - 1 \in 0..n /\ k \in Nat \ {0} /\ k \in 0..n
    OBVIOUS
  <2>3. PICK p \in Nat : p = UpTo(nt, k - 1) /\ Product(SubSeq(nt, 1, k - 1)) = p
    BY <1>8, <2>2
  <2>4. UpTo(nt, k) = p * nt[k]
    BY <2>2, <2>3, UpToNext
  <2>5. PICK m, q \in Nat : m = at[k] /\ q = nt[k] /\ m < q
    BY <1>6, <1>7 DEF IsCoord
  <2>6. NumberStep(x, a, k) = a + m * p
    BY <1>2, <1>7, <2>3, <2>5 DEF NumberStep
  <2>7. p * (m + 1) <= p * q
    BY <2>5, SMTT(30)
  <2>8. p * (m + 1) = m * p + p /\ m * p \in Nat
    OBVIOUS
  <2>9. a + m * p < p * q
    <3>1. PICK mp, pq \in Nat : mp = m * p /\ pq = p * q
      BY <2>8
    <3> QED BY <2>1, <2>3, <2>7, <2>8, <3>1, SMTT(30)
  <2>10. a + m * p \in Nat /\ UpTo(nt, k) = p * q
    <3>1. PICK mp \in Nat : mp = m * p
      BY <2>8
    <3>2. a + mp \in Nat
      BY <2>1
    <3>3. UpTo(nt, k) = p * q
      BY <2>4, <2>5
    <3> QED BY <3>1, <3>2, <3>3
  <2>11. PICK b : b = NumberStep(x, a, axes[k]) /\ b = a + m * p
    BY <2>1, <2>6
  <2>12. b \in Nat /\ b < UpTo(nt, k)
    <3>1. PICK y, z : y = a + m * p /\ z = p * q
      OBVIOUS
    <3>2. y \in Nat /\ y < z /\ b = y /\ UpTo(nt, k) = z
      BY <2>9, <2>10, <2>11, <3>1
    <3> QED BY <3>2
  <2> QED BY <1>2, <1>7, <2>11, <2>12 DEF NumberInGrid
<1>11. NumberInGrid(x, axes, n, Numbers!Fold(x, 0, axes))
  BY <1>3, <1>5, <1>9, <1>10, NumbersOrdered, Numbers!FoldKeeps
<1>12. NTiles(g) = UpTo(nt, n)
  <2>1. g.dims # <<>>
    BY DEF HasTiles, IsGrid
  <2> QED BY <1>6, <1>7, <2>1, <1>3, ProductOfFirst DEF NTiles
<1> QED BY <1>2, <1>4, <1>7, <1>11, <1>12 DEF NumberInGrid

LEMMA DivisionBelow ==
    ASSUME NEW t \in Nat \ {0}
    PROVE  CeilDiv(0, t) = 0
<1>1. t - 1 \in Nat /\ t - 1 < t
  OBVIOUS
<1>2. PICK q \in Nat : q = (t - 1) \div t
  BY <1>1
<1>3. t * q <= t - 1
  BY <1>1, <1>2
<1>4. q = 0
  <2>1. CASE q > 0
    <3>1. t * 1 <= t * q
      BY <2>1
    <3> QED BY <1>1, <1>3, <3>1
  <2> QED BY <2>1
<1>5. 0 + t - 1 = t - 1
  OBVIOUS
<1> QED BY <1>2, <1>4, <1>5 DEF CeilDiv

InGrid(g, rows, k) == \A i \in 1..k : rows[i] \in Nat /\ rows[i] < NTiles(g)

PickedInGrid(c, s, k, w) ==
    IsSeq(w.rows) /\ Len(w.rows) = k /\ InGrid(c[1], w.rows, k) /\ IsCoord(c[1], w.c)

Picks == INSTANCE Folding WITH Step <- SelectStep, Kept <- PickedInGrid

LEMMA PicksOrdered == Picks!WellOrdered
BY LeastMember DEF Picks!WellOrdered

\* The tiles that are selected are those of the grid.
LEMMA SelectedInGrid ==
    ASSUME NEW g, HasTiles(g), NEW ranges, IsSection(g, ranges),
           NEW n \in Nat, n = TileCount(ranges, g.tiles)
    PROVE  InGrid(g, SelectRows(g, ranges), n)
<1> DEFINE base == [rows |-> <<>>, c |-> FirstTile(g, ranges)]
<1>1. PICK x : x = <<g, ranges>>
  OBVIOUS
<1>2. x[1] = g /\ x[2] = ranges
  BY <1>1
<1>3. PICK places : places = Places(n)
  OBVIOUS
<1>4. SelectRows(g, ranges) = Picks!Fold(x, base, places).rows
  BY <1>1, <1>3 DEF SelectRows, Picks!Fold, SelectStep, FoldLeft, MapThenFoldSet, Max,
                    Picks!Greatest
<1>5. DOMAIN places = 1..n
  BY <1>3 DEF Places
<1>6. PickedInGrid(x, places, 0, base)
  <2>1. <<>> \in Seq(Nat) /\ Len(<<>>) = 0 /\ base.rows = <<>> /\ base.c = FirstTile(g, ranges)
    OBVIOUS
  <2>2. IsSeq(base.rows) /\ Len(base.rows) = 0
    BY <2>1, SeqIsSeq
  <2>3. InGrid(g, base.rows, 0)
    BY DEF InGrid
  <2>4. IsCoord(g, base.c)
    BY <2>1, FirstTileIs
  <2> HIDE DEF base
  <2> QED BY <1>2, <2>2, <2>3, <2>4 DEF PickedInGrid
<1> HIDE DEF base
<1>7. ASSUME NEW k \in 1..n, NEW w, PickedInGrid(x, places, k - 1, w)
      PROVE  PickedInGrid(x, places, k, SelectStep(x, w, places[k]))
  <2>1. IsSeq(w.rows) /\ Len(w.rows) = k - 1 /\ InGrid(g, w.rows, k - 1) /\ IsCoord(g, w.c)
    BY <1>2, <1>7 DEF PickedInGrid
  <2>2. PICK v : v = SelectStep(x, w, places[k])
    OBVIOUS
  <2>3. PICK t : t = TileAt(g, w.c)
    OBVIOUS
  <2>4. v.rows = Append(w.rows, t) /\ v.c = NextTile(g, ranges, w.c)
    BY <1>2, <2>2, <2>3 DEF SelectStep
  <2>5. IsSeq(v.rows) /\ Len(v.rows) = k
    <3>1. IsSeq(v.rows) /\ Len(v.rows) = Len(w.rows) + 1
      BY <2>1, <2>4, AppendIsSeq
    <3>2. (k - 1) + 1 = k
      OBVIOUS
    <3> QED BY <2>1, <3>1, <3>2
  <2>6. t \in Nat /\ t < NTiles(g)
    BY <2>1, <2>3, TileAtIs
  <2>7. InGrid(g, v.rows, k)
    <3>1. \A i \in 1..k : v.rows[i] = IF i = k THEN t ELSE w.rows[i]
      BY <2>1, <2>4, AppendIsSeq
    <3>2. \A i \in 1..k : i # k => i \in 1..k - 1
      OBVIOUS
    <3> QED BY <2>1, <2>6, <3>1, <3>2 DEF InGrid
  <2>8. IsCoord(g, v.c)
    BY <2>1, <2>4, NextTileIs
  <2> QED BY <1>2, <2>2, <2>5, <2>7, <2>8 DEF PickedInGrid
<1>8. PickedInGrid(x, places, n, Picks!Fold(x, base, places))
  BY <1>5, <1>6, <1>7, PicksOrdered, Picks!FoldKeeps
<1> QED BY <1>2, <1>4, <1>8 DEF PickedInGrid

-----------------------------------------------------------------------------
(* The cells of a table, and of a copy of some of its rows. *)

LEMMA KindSizeIs ==
    ASSUME NEW kind \in ElementKinds
    PROVE  KindSize(kind) \in Nat \ {0}
<1>1. CASE kind \in {"U8", "I16", "I32", "I64", "F32", "F64"}
  <2>1. kind \in Bitpixes
    BY <1>1 DEF Bitpixes
  <2>2. ElemSize(kind) \in 1..8
    BY <2>1, BitpixIs
  <2>3. KindSize(kind) = ElemSize(kind)
    BY <1>1 DEF KindSize
  <2> QED BY <2>2, <2>3
<1>2. CASE kind \in {"Logical", "Bit", "Character", "ComplexF32", "ComplexF64"}
  BY <1>2 DEF KindSize
<1> QED BY <1>1, <1>2 DEF ElementKinds

\* An array has a length, above zero if it has an element, unless it overflows.
LEMMA PayloadIs ==
    ASSUME NEW kind \in ElementKinds, NEW count \in Nat
    PROVE  \/ PayloadLen(kind, count) = {}
           \/ \E len \in Nat : PayloadLen(kind, count) = {len} /\ (len = 0 <=> count = 0)
<1>1. CASE kind = "Bit"
  <2>1. CeilDiv(count, 8) \in Nat /\ (count > 0 => CeilDiv(count, 8) > 0)
    BY CeilDivIs
  <2>2. CeilDiv(0, 8) = 0
    BY DivisionBelow
  <2> QED BY <1>1, <2>1, <2>2 DEF PayloadLen
<1>2. CASE kind # "Bit"
  <2>1. PICK size \in Nat \ {0} : size = KindSize(kind)
    BY KindSizeIs
  <2>2. PICK len \in Nat : len = count * size
    OBVIOUS
  <2>3. len = 0 <=> count = 0
    <3>1. count > 0 => count * size > 0
      BY <2>1
    <3> QED BY <2>2, <3>1
  <2>4. PayloadLen(kind, count) = Checked(len)
    BY <1>2, <2>1, <2>2 DEF PayloadLen
  <2> QED BY <2>3, <2>4 DEF Checked
<1> QED BY <1>1, <1>2

\* An array without elements is in any heap.
LEMMA NoElementsIs ==
    ASSUME NEW kind, NEW d, PayloadLen(kind, d.count) = {0}, NEW end
    PROVE  HeapRange(d, kind, 0, end) # {}
<1>1. PayloadLen(kind, d.count) \cap {0} = {0}
  OBVIOUS
<1>2. [lo |-> 0, hi |-> 0] \in HeapRange(d, kind, 0, end)
  BY <1>1 DEF HeapRange
<1> QED BY <1>2

\* The bytes of an array in the heap.
LEMMA HeapRangeIs ==
    ASSUME NEW kind, NEW d, d.offset \in Nat, NEW len \in Nat, PayloadLen(kind, d.count) = {len},
           NEW end, NEW x, x = HeapRange(d, kind, 0, end)
    PROVE  /\ len > 0 => x \subseteq {[lo |-> d.offset, hi |-> d.offset + len]}
           /\ len > 0 /\ d.offset + len <= UsizeMax /\ d.offset + len <= end
                => x = {[lo |-> d.offset, hi |-> d.offset + len]}
<1>1. PICK start : start = d.offset
  OBVIOUS
<1>2. 0 + start = start /\ start \in Nat /\ UsizeMax \in Nat
  BY <1>1, DescriptorAssumption
<1>4. CASE len > 0
  <2>1. PayloadLen(kind, d.count) \ {0} = {len} /\ PayloadLen(kind, d.count) \cap {0} = {}
    BY <1>4
  <2> DEFINE ends == {e \in UNION {Checked(s + l) : s \in Checked(start), l \in {len}} : e <= end}
  <2>2. x = {[lo |-> start, hi |-> e] : e \in ends}
    BY <1>1, <1>2, <2>1 DEF HeapRange
  <2>3. ends \subseteq {start + len}
    BY <1>2 DEF Checked
  <2>4. start + len <= UsizeMax /\ start + len <= end => start + len \in ends
    <3>1. SUFFICES ASSUME start + len <= UsizeMax, start + len <= end PROVE start + len \in ends
      OBVIOUS
    <3>2. start <= UsizeMax
      BY <1>2, <3>1
    <3>3. Checked(start) = {start} /\ Checked(start + len) = {start + len}
      BY <1>2, <3>1, <3>2 DEF Checked
    <3> QED BY <3>1, <3>3
  <2> HIDE DEF ends
  <2>5. x \subseteq {[lo |-> start, hi |-> start + len]}
    BY <2>2, <2>3
  <2>6. start + len <= UsizeMax /\ start + len <= end => x = {[lo |-> start, hi |-> start + len]}
    BY <2>2, <2>3, <2>4
  <2> QED BY <1>1, <1>4, <2>5, <2>6
<1> QED BY <1>4

LEMMA HeapRangeFits ==
    ASSUME NEW kind, NEW d, d.offset \in Nat, NEW len \in Nat, PayloadLen(kind, d.count) = {len},
           NEW end, NEW x, x = HeapRange(d, kind, 0, end),
           len > 0, d.offset + len <= UsizeMax, d.offset + len <= end
    PROVE  x = {[lo |-> d.offset, hi |-> d.offset + len]}
BY HeapRangeIs

\* The cell of an array: its element, its count and its stream.
CellOf(kind, count, stream) == [error |-> "none", count |-> count, element |-> kind, stream |-> stream]

StoredAt(heap, lo, len) == {k \in DOMAIN heap : heap[k].at = lo /\ heap[k].len = len}

\* The cell x of a descriptor whose array is in the table's heap.
StoredCell(table, d, kind, x) ==
    \E len \in Nat :
        /\ PayloadLen(kind, d.count) = {len} /\ (len = 0 <=> d.count = 0)
        /\ d.count = 0 => x = CellOf(kind, 0, <<>>)
        /\ d.count > 0 => \E k \in StoredAt(table.heap, d.offset, len) :
                            x = CellOf(kind, d.count, table.heap[k].stream)

\* What a descriptor reads, if anything.
LEMMA VlaCellIs ==
    ASSUME NEW table, NEW name, NEW row, NEW d, d = table.rows[row + 1][name],
           d.count \in Nat, d.offset \in Nat,
           NEW kind \in ElementKinds, kind = OrElse(table.columns[name], "U8"),
           NEW x, x = VlaCell(table, name, row), x.error = "none"
    PROVE  StoredCell(table, d, kind, x)
<1>1. PICK range : range = HeapRange(d, kind, 0, table.heapLen)
  OBVIOUS
<1> DEFINE stored0 == {k \in DOMAIN table.heap :
                        \E r \in range : table.heap[k].at = r.lo /\ table.heap[k].len = r.hi - r.lo}
<1>2. PICK stored : stored = stored0
  OBVIOUS
<1>3. PICK first : first = CHOOSE k \in stored : TRUE
  OBVIOUS
<1>4. x = IF range = {} THEN Refused("DescriptorPastHeap")
          ELSE IF d.count > 0 /\ stored = {} THEN Refused("stream")
          ELSE [error |-> "none", count |-> d.count, element |-> kind,
                stream |-> IF d.count = 0 THEN <<>> ELSE table.heap[first].stream]
  BY <1>1, <1>2, <1>3 DEF VlaCell, With
<1>5. range # {} /\ ~(d.count > 0 /\ stored = {})
      /\ x = CellOf(kind, d.count, IF d.count = 0 THEN <<>> ELSE table.heap[first].stream)
  BY <1>4 DEF Refused, CellOf
<1>6. PICK len \in Nat : PayloadLen(kind, d.count) = {len} /\ (len = 0 <=> d.count = 0)
  <2>1. PayloadLen(kind, d.count) # {}
    <3>1. PayloadLen(kind, d.count) = {} => range = {}
      BY <1>1 DEF HeapRange
    <3> QED BY <1>5, <3>1
  <2> QED BY <2>1, PayloadIs
<1>7. d.count = 0 => x = CellOf(kind, 0, <<>>)
  BY <1>5
<1>8. ASSUME d.count > 0
      PROVE  first \in StoredAt(table.heap, d.offset, len) /\ x = CellOf(kind, d.count, table.heap[first].stream)
  <2>0. len > 0 /\ PayloadLen(kind, d.count) = {len}
    BY <1>6, <1>8
  <2>1. range \subseteq {[lo |-> d.offset, hi |-> d.offset + len]}
    BY <1>1, <2>0, HeapRangeIs
  <2>2. first \in stored
    BY <1>3, <1>5, <1>8
  <2>3. first \in DOMAIN table.heap
        /\ \E r \in range : table.heap[first].at = r.lo /\ table.heap[first].len = r.hi - r.lo
    BY <1>2, <2>2
  <2>4. \A r \in range : r.lo = d.offset /\ r.hi - r.lo = len
    BY <2>1
  <2> QED BY <1>5, <1>8, <2>3, <2>4 DEF StoredAt
<1> QED BY <1>6, <1>7, <1>8 DEF StoredCell

\* And that it does read the one stream it is of.
LEMMA VlaCellEmpty ==
    ASSUME NEW table, NEW name, NEW row, NEW d, d = table.rows[row + 1][name], d.count = 0,
           NEW kind \in ElementKinds, kind = OrElse(table.columns[name], "U8"),
           PayloadLen(kind, 0) = {0}
    PROVE  VlaCell(table, name, row) = CellOf(kind, 0, <<>>)
<1>1. PICK range : range = HeapRange(d, kind, 0, table.heapLen)
  OBVIOUS
<1> DEFINE stored0 == {k \in DOMAIN table.heap :
                        \E r \in range : table.heap[k].at = r.lo /\ table.heap[k].len = r.hi - r.lo}
<1>2. PICK stored : stored = stored0
  OBVIOUS
<1>3. PICK first : first = CHOOSE k \in stored : TRUE
  OBVIOUS
<1>4. PICK x : x = VlaCell(table, name, row)
  OBVIOUS
<1>5. x = IF range = {} THEN Refused("DescriptorPastHeap")
          ELSE IF d.count > 0 /\ stored = {} THEN Refused("stream")
          ELSE [error |-> "none", count |-> d.count, element |-> kind,
                stream |-> IF d.count = 0 THEN <<>> ELSE table.heap[first].stream]
  BY <1>1, <1>2, <1>3, <1>4 DEF VlaCell, With
<1>6. PayloadLen(kind, d.count) = {0}
  OBVIOUS
<1>7. range # {}
  BY <1>1, <1>6, NoElementsIs
<1>8. x = CellOf(kind, 0, <<>>)
  BY <1>5, <1>7 DEF CellOf
<1> QED BY <1>4, <1>8

\* The array of d is the stream k of the heap, and no other.
OnlyStored(table, name, row, d, kind, len, k) ==
    /\ d = table.rows[row + 1][name] /\ d.count \in Nat /\ d.count > 0 /\ d.offset \in Nat
    /\ kind \in ElementKinds /\ kind = OrElse(table.columns[name], "U8")
    /\ len \in Nat /\ PayloadLen(kind, d.count) = {len} /\ len > 0
    /\ d.offset + len <= UsizeMax /\ d.offset + len <= table.heapLen
    /\ StoredAt(table.heap, d.offset, len) = {k}

LEMMA VlaCellStored ==
    ASSUME NEW table, NEW name, NEW row, NEW d, NEW kind, NEW len, NEW k,
           OnlyStored(table, name, row, d, kind, len, k)
    PROVE  VlaCell(table, name, row) = CellOf(kind, d.count, table.heap[k].stream)
<1>a. d = table.rows[row + 1][name] /\ d.count \in Nat /\ d.count > 0 /\ d.offset \in Nat
  BY DEF OnlyStored
<1>b. kind \in ElementKinds /\ kind = OrElse(table.columns[name], "U8")
  BY DEF OnlyStored
<1>c. len \in Nat /\ PayloadLen(kind, d.count) = {len} /\ len > 0
  BY DEF OnlyStored
<1>d. d.offset + len <= UsizeMax /\ d.offset + len <= table.heapLen
  BY DEF OnlyStored
<1>e. StoredAt(table.heap, d.offset, len) = {k}
  BY DEF OnlyStored
<1>1. PICK range : range = HeapRange(d, kind, 0, table.heapLen)
  OBVIOUS
<1> DEFINE stored0 == {l \in DOMAIN table.heap :
                        \E r \in range : table.heap[l].at = r.lo /\ table.heap[l].len = r.hi - r.lo}
<1>2. PICK stored : stored = stored0
  OBVIOUS
<1>3. PICK first : first = CHOOSE l \in stored : TRUE
  OBVIOUS
<1>4. PICK x : x = VlaCell(table, name, row)
  OBVIOUS
<1>5. x = IF range = {} THEN Refused("DescriptorPastHeap")
          ELSE IF d.count > 0 /\ stored = {} THEN Refused("stream")
          ELSE [error |-> "none", count |-> d.count, element |-> kind,
                stream |-> IF d.count = 0 THEN <<>> ELSE table.heap[first].stream]
  BY <1>1, <1>2, <1>3, <1>4, <1>a, <1>b DEF VlaCell, With
<1>6. PICK end : end = table.heapLen
  OBVIOUS
<1>7. range = HeapRange(d, kind, 0, end) /\ d.offset + len <= end
  BY <1>1, <1>6, <1>d
<1>8. range = {[lo |-> d.offset, hi |-> d.offset + len]}
  BY <1>7, <1>a, <1>c, <1>d, HeapRangeFits
<1>9. \A r \in range : r.lo = d.offset /\ r.hi - r.lo = len
  BY <1>8, <1>a, <1>c
<1>10. stored = StoredAt(table.heap, d.offset, len)
  BY <1>2, <1>8, <1>9 DEF StoredAt
<1>11. first = k /\ stored # {}
  BY <1>3, <1>10, <1>e
<1>12. PICK count \in Nat : count = d.count
  BY <1>a
<1>13. count > 0 /\ count # 0
  BY <1>12, <1>a
<1>14. range # {}
  BY <1>8
<1>15. PICK stream : stream = table.heap[k].stream
  OBVIOUS
<1>16. x = [error |-> "none", count |-> count, element |-> kind, stream |-> stream]
  BY <1>5, <1>11, <1>12, <1>13, <1>14, <1>15
<1> QED BY <1>4, <1>12, <1>15, <1>16 DEF CellOf

\* A copy of rows: its streams one behind the other, none of them empty.
IsCopy(s) ==
    /\ s = [f \in {"error", "out", "rows", "heap", "len"} |-> s[f]]
    /\ s.len \in Nat /\ s.len <= UsizeMax /\ IsSeq(s.heap)
    /\ \A k \in 1..Len(s.heap) :
        /\ s.heap[k].at \in Nat /\ s.heap[k].len \in Nat \ {0}
        /\ s.heap[k].at + s.heap[k].len <= s.len
        /\ \A l \in 1..Len(s.heap) : k < l => s.heap[k].at + s.heap[k].len <= s.heap[l].at

\* What is copied stays where it is.
Grows(s, t) ==
    /\ s.len <= t.len /\ Len(s.heap) <= Len(t.heap)
    /\ \A k \in 1..Len(s.heap) : t.heap[k] = s.heap[k]

\* The descriptor d of a copy reads a cell.
Reads(s, kind, d, cell) ==
    /\ d.count \in Nat /\ d.offset \in Nat
    /\ \E len \in Nat :
        /\ PayloadLen(kind, d.count) = {len} /\ (len = 0 <=> d.count = 0)
        /\ d.count = 0 => cell = CellOf(kind, 0, <<>>)
        /\ d.count > 0 =>
            /\ d.offset + len <= s.len
            /\ \E k \in 1..Len(s.heap) :
                /\ s.heap[k].at = d.offset /\ s.heap[k].len = len
                /\ cell = CellOf(kind, d.count, s.heap[k].stream)

LEMMA GrowsOn ==
    ASSUME NEW s, IsCopy(s), NEW t, IsCopy(t), Grows(s, t)
    PROVE  /\ \A kind, d, cell : Reads(s, kind, d, cell) => Reads(t, kind, d, cell)
           /\ \A u : IsCopy(u) /\ Grows(t, u) => Grows(s, u)
           /\ Grows(s, s)
<1>1. Len(s.heap) \in Nat /\ Len(t.heap) \in Nat /\ s.len \in Nat /\ t.len \in Nat
  BY DEF IsCopy, IsSeq
<1>2. ASSUME NEW kind, NEW d, NEW cell, Reads(s, kind, d, cell) PROVE Reads(t, kind, d, cell)
  <2>1. PICK len \in Nat :
            /\ PayloadLen(kind, d.count) = {len} /\ (len = 0 <=> d.count = 0)
            /\ d.count = 0 => cell = CellOf(kind, 0, <<>>)
            /\ d.count > 0 =>
                /\ d.offset + len <= s.len
                /\ \E k \in 1..Len(s.heap) :
                    /\ s.heap[k].at = d.offset /\ s.heap[k].len = len
                    /\ cell = CellOf(kind, d.count, s.heap[k].stream)
    BY <1>2 DEF Reads
  <2>2. d.count \in Nat /\ d.offset \in Nat
    BY <1>2 DEF Reads
  <2>3. ASSUME d.count > 0
        PROVE  /\ d.offset + len <= t.len
               /\ \E k \in 1..Len(t.heap) :
                    /\ t.heap[k].at = d.offset /\ t.heap[k].len = len
                    /\ cell = CellOf(kind, d.count, t.heap[k].stream)
    <3>1. PICK k \in 1..Len(s.heap) :
                    /\ s.heap[k].at = d.offset /\ s.heap[k].len = len
                    /\ cell = CellOf(kind, d.count, s.heap[k].stream)
      BY <2>1, <2>3
    <3>2. k \in 1..Len(t.heap) /\ t.heap[k] = s.heap[k]
      BY <1>1 DEF Grows
    <3>3. d.offset + len <= s.len /\ s.len <= t.len
      BY <2>1, <2>3 DEF Grows
    <3> QED BY <1>1, <2>2, <3>1, <3>2, <3>3, SMTT(30)
  <2> QED BY <2>1, <2>2, <2>3 DEF Reads
<1>3. ASSUME NEW u, IsCopy(u), Grows(t, u) PROVE Grows(s, u)
  <2>1. Len(u.heap) \in Nat /\ u.len \in Nat
    BY <1>3 DEF IsCopy, IsSeq
  <2>2. \A k \in 1..Len(s.heap) : k \in 1..Len(t.heap)
    BY <1>1 DEF Grows
  <2> QED BY <1>1, <1>3, <2>1, <2>2 DEF Grows
<1>4. Grows(s, s)
  BY <1>1 DEF Grows
<1> QED BY <1>2, <1>3, <1>4

\* What a descriptor of a copy reads is what the copy reads there.
LEMMA CopyReads ==
    ASSUME NEW s, NEW other, NEW name, NEW row, NEW d, NEW kind \in ElementKinds, NEW cell,
           IsCopy(s), other.heap = s.heap, other.heapLen = s.len,
           d = other.rows[row + 1][name],
           kind = OrElse(other.columns[name], "U8"), Reads(s, kind, d, cell)
    PROVE  VlaCell(other, name, row) = cell
<1>1. d.count \in Nat /\ d.offset \in Nat
  BY DEF Reads
<1>2. PICK len \in Nat :
            /\ PayloadLen(kind, d.count) = {len} /\ (len = 0 <=> d.count = 0)
            /\ d.count = 0 => cell = CellOf(kind, 0, <<>>)
            /\ d.count > 0 =>
                /\ d.offset + len <= s.len
                /\ \E k \in 1..Len(s.heap) :
                    /\ s.heap[k].at = d.offset /\ s.heap[k].len = len
                    /\ cell = CellOf(kind, d.count, s.heap[k].stream)
  BY DEF Reads
<1>3. CASE d.count = 0
  <2>1. PayloadLen(kind, 0) = {0}
    BY <1>2, <1>3
  <2>2. VlaCell(other, name, row) = CellOf(kind, 0, <<>>)
    BY <1>1, <1>3, <2>1, VlaCellEmpty
  <2> QED BY <1>2, <1>3, <2>2
<1>4. CASE d.count > 0
  <2>1. PICK k \in 1..Len(s.heap) :
                    /\ s.heap[k].at = d.offset /\ s.heap[k].len = len
                    /\ cell = CellOf(kind, d.count, s.heap[k].stream)
    BY <1>2, <1>4
  <2>2. d.offset + len <= UsizeMax /\ d.offset + len <= other.heapLen
    <3>1. d.offset + len <= s.len
      BY <1>2, <1>4
    <3>2. PICK end \in Nat : end = s.len /\ end <= UsizeMax
      BY DEF IsCopy
    <3>3. PICK at \in Nat : at = d.offset
      BY <1>1
    <3>4. at + len <= end /\ other.heapLen = end /\ UsizeMax \in Nat
      BY <3>1, <3>2, <3>3, DescriptorAssumption
    <3>5. at + len <= UsizeMax
      BY <3>2, <3>4
    <3> QED BY <3>3, <3>4, <3>5
  <2>3. DOMAIN other.heap = 1..Len(s.heap) /\ Len(s.heap) \in Nat
    BY DEF IsCopy, IsSeq
  <2>4. StoredAt(other.heap, d.offset, len) = {k}
    <3>1. k \in StoredAt(other.heap, d.offset, len)
      BY <2>1, <2>3 DEF StoredAt
    <3>2. ASSUME NEW l \in 1..Len(s.heap), s.heap[l].at = d.offset, l # k PROVE FALSE
      <4>1. k < l \/ l < k
        BY <2>3, <3>2
      <4>2. /\ s.heap[k].at \in Nat /\ s.heap[k].len \in Nat \ {0}
            /\ s.heap[l].at \in Nat /\ s.heap[l].len \in Nat \ {0}
        BY DEF IsCopy
      <4>3. /\ k < l => s.heap[k].at + s.heap[k].len <= s.heap[l].at
            /\ l < k => s.heap[l].at + s.heap[l].len <= s.heap[k].at
        BY DEF IsCopy
      <4> QED BY <2>1, <3>2, <4>1, <4>2, <4>3
    <3> QED BY <2>3, <3>1, <3>2 DEF StoredAt
  <2>5. other.heap[k].stream = s.heap[k].stream
    OBVIOUS
  <2>6. len > 0
    BY <1>2, <1>4
  <2>7. VlaCell(other, name, row) = CellOf(kind, d.count, other.heap[k].stream)
    <3>1. PayloadLen(kind, d.count) = {len}
      BY <1>2
    <3>2. OnlyStored(other, name, row, d, kind, len, k)
      BY <1>1, <1>4, <2>2, <2>4, <2>6, <3>1 DEF OnlyStored
    <3> QED BY <3>2, VlaCellStored
  <2> QED BY <2>1, <2>5, <2>7
<1> QED BY <1>1, <1>3, <1>4

-----------------------------------------------------------------------------
(* The copy of the rows of a section. *)

Copied(s, name, count, len, stream) ==
    [s EXCEPT !.heap = IF len = 0 THEN @
                       ELSE Append(@, [at |-> s.len, len |-> len, stream |-> stream]),
              !.out[name] = [count |-> count, offset |-> s.len],
              !.len = s.len + len]

LEMMA CopiedIs ==
    ASSUME NEW s, IsCopy(s), NEW name, NEW count, NEW len, NEW stream
    PROVE  LET x == Copied(s, name, count, len, stream)
           IN  /\ x = [f \in {"error", "out", "rows", "heap", "len"} |-> x[f]]
               /\ x.error = s.error /\ x.rows = s.rows /\ x.len = s.len + len
               /\ x.heap = IF len = 0 THEN s.heap
                           ELSE Append(s.heap, [at |-> s.len, len |-> len, stream |-> stream])
               /\ x.out = [s.out EXCEPT ![name] = [count |-> count, offset |-> s.len]]
<1>1. s = [f \in {"error", "out", "rows", "heap", "len"} |-> s[f]]
  BY DEF IsCopy
<1>2. PICK o : o = [s.out EXCEPT ![name] = [count |-> count, offset |-> s.len]]
  OBVIOUS
<1>3. PICK h : h = IF len = 0 THEN s.heap
                   ELSE Append(s.heap, [at |-> s.len, len |-> len, stream |-> stream])
  OBVIOUS
<1>4. PICK n : n = s.len + len
  OBVIOUS
<1>5. Copied(s, name, count, len, stream) = [s EXCEPT !.heap = h, !.out = o, !.len = n]
  BY <1>2, <1>3, <1>4 DEF Copied
<1> QED BY <1>1, <1>2, <1>3, <1>4, <1>5

LEMMA SumBelow ==
    ASSUME NEW a \in Nat, NEW b \in Nat, NEW c \in Nat, NEW e \in Nat, a + b <= c
    PROVE  a + b <= c + e
OBVIOUS

\* A heap with an array behind those of it is a copy's.
LEMMA AppendCopy ==
    ASSUME NEW s, IsCopy(s), NEW x, x = [f \in {"error", "out", "rows", "heap", "len"} |-> x[f]],
           NEW len \in Nat \ {0}, NEW stream, NEW piece,
           piece = [at |-> s.len, len |-> len, stream |-> stream],
           x.heap = Append(s.heap, piece), x.len = s.len + len, s.len + len <= UsizeMax
    PROVE  /\ IsCopy(x) /\ Grows(s, x)
           /\ Len(s.heap) + 1 \in 1..Len(x.heap) /\ x.heap[Len(s.heap) + 1] = piece
<1>1. IsSeq(s.heap) /\ s.len \in Nat
  BY DEF IsCopy
<1>2. PICK n \in Nat : n = Len(s.heap)
  BY <1>1 DEF IsSeq
<1>3. /\ IsSeq(x.heap) /\ Len(x.heap) = n + 1
      /\ \A k \in 1..n : x.heap[k] = s.heap[k]
      /\ x.heap[n + 1] = piece
  BY <1>1, <1>2 DEF IsSeq
<1>4. piece.at = s.len /\ piece.len = len
  OBVIOUS
<1>5. /\ \A k \in 1..n :
        /\ s.heap[k].at \in Nat /\ s.heap[k].len \in Nat \ {0}
        /\ s.heap[k].at + s.heap[k].len <= s.len
        /\ \A l \in 1..n : k < l => s.heap[k].at + s.heap[k].len <= s.heap[l].at
  BY <1>2 DEF IsCopy
<1>6. \A k \in 1..n + 1 :
        /\ x.heap[k].at \in Nat /\ x.heap[k].len \in Nat \ {0}
        /\ x.heap[k].at + x.heap[k].len <= x.len
        /\ \A l \in 1..n + 1 : k < l => x.heap[k].at + x.heap[k].len <= x.heap[l].at
  <2>1. SUFFICES ASSUME NEW k \in 1..n + 1
                 PROVE  /\ x.heap[k].at \in Nat /\ x.heap[k].len \in Nat \ {0}
                        /\ x.heap[k].at + x.heap[k].len <= x.len
                        /\ \A l \in 1..n + 1 : k < l => x.heap[k].at + x.heap[k].len <= x.heap[l].at
    OBVIOUS
  <2>2. CASE k = n + 1
    BY <1>1, <1>2, <1>3, <1>4, <2>2
  <2>3. CASE k \in 1..n
    <3>1. ASSUME NEW l \in 1..n + 1, k < l PROVE x.heap[k].at + x.heap[k].len <= x.heap[l].at
      <4>1. CASE l = n + 1
        BY <1>1, <1>3, <1>4, <1>5, <2>3, <4>1
      <4>2. CASE l \in 1..n
        BY <1>3, <1>5, <2>3, <3>1, <4>2
      <4> QED BY <1>2, <4>1, <4>2
    <3>2. x.heap[k].at + x.heap[k].len <= x.len
      <4>1. PICK at \in Nat, size \in Nat : at = s.heap[k].at /\ size = s.heap[k].len /\ at + size <= s.len
        BY <1>5, <2>3
      <4>2. PICK end \in Nat : end = s.len
        BY <1>1
      <4>3. at + size <= end + len
        <5>1. at + size <= end /\ len \in Nat
          BY <4>1, <4>2
        <5> QED BY <5>1, SumBelow
      <4>4. x.heap[k].at = at /\ x.heap[k].len = size
        BY <1>3, <2>3, <4>1
      <4>5. x.len = end + len
        BY <4>2
      <4> QED BY <4>3, <4>4, <4>5
    <3> QED BY <1>3, <1>5, <2>3, <3>1, <3>2
  <2> QED BY <1>2, <2>2, <2>3
<1>7. IsCopy(x)
  BY <1>1, <1>3, <1>6 DEF IsCopy
<1>8. Grows(s, x)
  BY <1>1, <1>2, <1>3 DEF Grows
<1> QED BY <1>2, <1>3, <1>7, <1>8

\* The cell of the column `name' is copied behind those of s, which x is then.
CellCopied(s, x, name, kind, count, cell) ==
    /\ IsCopy(x) /\ Grows(s, x) /\ x.rows = s.rows
    /\ x.out = [s.out EXCEPT ![name] = [count |-> count, offset |-> s.len]]
    /\ Reads(x, kind, x.out[name], cell)

LEMMA GrowsSelf ==
    ASSUME NEW s, IsCopy(s)
    PROVE  Grows(s, s)
<1>1. Len(s.heap) \in Nat /\ s.len \in Nat
  BY DEF IsCopy, IsSeq
<1> QED BY <1>1 DEF Grows

VlaNames == {"cd", "gz", "un", "mask"}

KindOf(table, name) == OrElse(table.columns[name], "U8")

\* A row of a table whose array columns have descriptors of naturals.
TypedRow(table, r) ==
    \A name \in VlaNames : table.columns[name] # {} =>
        /\ table.columns[name] \subseteq ElementKinds
        /\ name \in DOMAIN table.rows[r + 1]
        /\ table.rows[r + 1][name].count \in Nat /\ table.rows[r + 1][name].offset \in Nat

\* The row `row' of a copy reads what the row r of the table does.
RowRead(table, r, s, row) ==
    \A name \in VlaNames : table.columns[name] # {} =>
        Reads(s, KindOf(table, name), row[name], VlaCell(table, name, r))

\* A copy, or what is left of one that failed.
IsState(a) == a = [f \in {"error", "out", "rows", "heap", "len"} |-> a[f]]

CellsCopied(c, cols, k, a) ==
    /\ IsState(a)
    /\ a.error = "none" =>
        /\ c[3].error = "none" /\ IsCopy(c[3]) /\ IsCopy(a) /\ Grows(c[3], a)
        /\ a.rows = c[3].rows /\ DOMAIN a.out = DOMAIN c[3].out
        /\ \A i \in 1..k : c[1].columns[cols[i]] # {} =>
            Reads(a, KindOf(c[1], cols[i]), a.out[cols[i]], VlaCell(c[1], cols[i], c[2]))

\* A row copied behind those of s.
RowCopied(table, r, s, x) ==
    /\ s.error = "none" /\ IsCopy(x) /\ Grows(s, x)
    /\ x.rows = Append(s.rows, x.out)
    /\ RowRead(table, r, x, x.out)

RowsCopied(c, rows, k, s) ==
    /\ IsState(s)
    /\ s.error = "none" =>
        /\ IsCopy(s) /\ IsSeq(s.rows) /\ Len(s.rows) = k
        /\ \A i \in 1..k : RowRead(c, rows[i], s, s.rows[i])

===============================================================================
