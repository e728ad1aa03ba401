---------------------------- MODULE TiledReadProofs ----------------------------
(***************************************************************************)
(* Theorems about the reads of tiles that workers share, for every image,  *)
(* table, tile shape, region, number of workers and wave: a read keeps its *)
(* jobs, items and sets together, each step brings it nearer to its end,   *)
(* and what it ends with is what its tiles, decoded one after another from *)
(* the first, would give.                                                  *)
(***************************************************************************)
EXTENDS TiledRead, TileDecodeProofs

-----------------------------------------------------------------------------
(* A container that reads as an image. *)

LEMMA CompressedGeometryIs ==
    ASSUME NEW h, TypedHeader(h), CompressedGeometry(h).error = "none"
    PROVE  /\ CompressedGeometry(h).bitpix \in Bitpixes
           /\ CompressedGeometry(h).shape \in Seq(Nat)
           /\ h.ztile \in [1..Len(CompressedGeometry(h).shape) -> SUBSET Int]
<1> DEFINE bitpix == BitpixOf(OrElse(h.zbitpix, 0))
           b == CHOOSE x \in bitpix : TRUE
<1>1. /\ bitpix # {} /\ h.dims # {}
      /\ CompressedGeometry(h).bitpix = b
      /\ CompressedGeometry(h).shape = OrElse(h.dims, <<>>)
  BY DEF CompressedGeometry, With
<1>2. b \in Bitpixes
  BY <1>1 DEF BitpixOf
<1>3. OrElse(h.dims, <<>>) \in h.dims
  BY <1>1 DEF OrElse
<1> QED BY <1>1, <1>2, <1>3 DEF TypedHeader

\* TiledImage::new accepts headers whose geometry is a grid.
LEMMA TiledImageIs ==
    ASSUME NEW h, TypedHeader(h), TiledImage(h).error = "none"
    PROVE  /\ IsGrid(TiledImage(h).geometry)
           /\ TiledImage(h).geometry.dims = TiledImage(h).image.shape
           /\ TiledImage(h).image.bitpix \in Bitpixes
<1> DEFINE image == CompressedGeometry(h)
           shape == HeaderTileShape(h.ztile, image.shape)
<1>1. /\ image.error = "none" /\ shape.error = "none"
      /\ TiledImage(h).image = image
      /\ TiledImage(h).geometry = NewGeometry(image.shape, shape.tiles)
  BY DEF TiledImage, With, Refused
<1>2. /\ image.shape \in Seq(Nat) /\ image.bitpix \in Bitpixes
      /\ h.ztile \in [1..Len(image.shape) -> SUBSET Int]
  BY <1>1, CompressedGeometryIs
<1>3. shape.tiles \in Seq(Nat \ {0}) /\ Len(shape.tiles) = Len(image.shape)
  BY <1>1, <1>2, TileShapeIs
<1>4. NewGeometry(image.shape, shape.tiles).dims = image.shape
      /\ NewGeometry(image.shape, shape.tiles).tiles = shape.tiles
  BY DEF NewGeometry
<1> QED BY <1>1, <1>2, <1>3, <1>4 DEF IsGrid

-----------------------------------------------------------------------------
(* The layout of a read. *)

\* What the layout of a read of `rows' tiles from the `from'-th on is: waves of a tile
\* at least, or bands of a tile at least.
IsLayout(layout, g, rows) ==
    \/ layout.kind = "Waves" /\ layout.wave \in Nat /\ (rows > 0 => layout.wave > 0)
    \/ layout.kind = "Bands" /\ layout.count \in Nat /\ BandsOf(g).tiles \in Nat \ {0}

LEMMA WaveLenIs ==
    ASSUME NEW plan, IsGrid(plan.tiled.geometry), plan.tiled.image.bitpix \in Bitpixes,
           NEW count \in Nat
    PROVE  WaveLen(plan, count) \in Nat /\ (count > 0 => WaveLen(plan, count) > 0)
<1> DEFINE size == ElemSize(plan.tiled.image.bitpix)
           elements == MaxTileElements(plan.tiled.geometry)
           bytes == MaxOf(elements * size, 1)
<1>1. elements \in Nat /\ size \in Nat
  BY MaxTileElementsIs, BitpixIs
<1>2. bytes \in Nat \ {0}
  <2>1. elements * size \in Nat
    BY <1>1
  <2> HIDE DEF elements, size
  <2> QED BY <2>1 DEF MaxOf
<1> HIDE DEF elements, size
<1>3. WaveBytes \div bytes \in Nat
  <2> HIDE DEF bytes
  <2> QED BY <1>2, TiledReadAssumption
<1>4. MaxOf(1, WaveBytes \div bytes) \in Nat \ {0}
  <2> HIDE DEF bytes
  <2> QED BY <1>3 DEF MaxOf
<1>5. WaveLen(plan, count) = MinOf(MaxOf(1, WaveBytes \div bytes), count)
  BY DEF WaveLen, elements, size
<1> HIDE DEF bytes
<1> QED BY <1>4, <1>5 DEF MinOf

\* A whole image that has a sample has no empty axis.
LEMMA WholeHasAxes ==
    ASSUME NEW dims \in Seq(Nat), NEW region, region.kind # "Section",
           ShapeProduct(RegionShape(RangesIn(dims, region))) # 0
    PROVE  \A i \in 1..Len(dims) : dims[i] > 0
<1> DEFINE n == Len(dims)
           shape == RegionShape(RangesIn(dims, region))
<1>1. n \in Nat /\ DOMAIN dims = 1..n
  OBVIOUS
<1>2. DOMAIN shape = 1..n /\ \A i \in 1..n : shape[i] = dims[i] - 0
  BY <1>1 DEF RangesIn, RegionShape
<1>3. \A i \in 1..n : shape[i] \in Nat /\ shape[i] = dims[i]
  BY <1>2
<1> HIDE DEF shape
<1>4. SUFFICES ASSUME NEW i \in 1..n, dims[i] = 0 PROVE FALSE
  BY <1>1
<1>5. Product(shape) = 0
  BY <1>1, <1>2, <1>3, <1>4, ProductZero
<1> QED BY <1>5 DEF ShapeProduct, shape

LEMMA LayoutIs ==
    ASSUME NEW plan, IsGrid(plan.tiled.geometry), plan.tiled.image.bitpix \in Bitpixes,
           NEW section \in BOOLEAN, NEW count \in Nat,
           ~section => \A i \in 1..Len(plan.tiled.geometry.dims) : plan.tiled.geometry.dims[i] > 0
    PROVE  IsLayout(LayoutOf(plan, section, count), plan.tiled.geometry, count)
<1> DEFINE g == plan.tiled.geometry
<1>1. CASE section \/ BandsOf(g).count < MinOf(Threads, NTiles(g))
  <2>1. LayoutOf(plan, section, count) = [kind |-> "Waves", wave |-> WaveLen(plan, count)]
    BY <1>1 DEF LayoutOf
  <2> QED BY <2>1, WaveLenIs DEF IsLayout
<1>2. CASE ~(section \/ BandsOf(g).count < MinOf(Threads, NTiles(g)))
  <2>1. LayoutOf(plan, section, count) = [kind |-> "Bands", count |-> BandsOf(g).count]
    BY <1>2 DEF LayoutOf
  <2>2. BandsOf(g).count \in Nat /\ BandsOf(g).tiles \in Nat /\ BandsOf(g).tiles > 0
    BY <1>2, BandsAre
  <2> QED BY <2>1, <2>2 DEF IsLayout
<1> QED BY <1>1, <1>2

\* The tiles of a read: as many as its region touches.
LEMMA ReadRowsAre ==
    ASSUME NEW g, IsGrid(g), NEW region, TypedRegion(region),
           region.kind = "Section" => RegionError(region.ranges, g.dims) = "none",
           NEW rows, rows = IF region.kind = "Section" THEN SelectRows(g, region.ranges)
                            ELSE Places(NTiles(g))
    PROVE  IsSeq(rows) /\ Len(rows) \in Nat
<1>1. CASE region.kind = "Section"
  <2>1. region.ranges \in Seq([lo : Nat, hi : Nat]) /\ Len(region.ranges) = Len(g.dims)
    BY <1>1 DEF TypedRegion, RegionError
  <2>2. g.tiles \in Seq(Nat \ {0}) /\ Len(g.tiles) = Len(region.ranges)
    BY <2>1 DEF IsGrid
  <2>3. TileCount(region.ranges, g.tiles) \in Nat
    BY <2>1, <2>2, TileCountIs
  <2> QED BY <1>1, <2>3, SelectRowsIs
<1>2. CASE region.kind # "Section"
  BY <1>2, NTilesIs, PlacesIs
<1> QED BY <1>1, <1>2

-----------------------------------------------------------------------------
(* The invariant of a read. *)

\* The handle of a reader on a tiled image is of its unit, whose header it accepted.
HandleOfUnit ==
    /\ unit \in Units
    /\ ~IsPlain => \A h \in handle :
            h.tiled = TiledImage(unit.container.header) /\ h.tiled.error = "none"

\* One read runs at a time, through an open handle.
OneRead ==
    /\ \A j, k \in job : j = k
    /\ Running => IsOpen /\ ~IsPlain

\* The items of a read's wave, or its bands.
ItemCount(j) ==
    IF j.layout.kind = "Bands" THEN j.layout.count
    ELSE MinOf(j.layout.wave, Len(j.rows) - j.from)

JobFields == {"mode", "region", "ranges", "shape", "section", "rows", "table", "plan", "layout",
              "from", "count"}

IsJob(j) == j = [field \in JobFields |-> j[field]]

\* What runs has its layout, is at a tile of its rows, and has its items.
ReadLaidOut ==
    \A j \in job :
        /\ IsJob(j)
        /\ IsLayout(j.layout, j.plan.tiled.geometry, Len(j.rows))
        /\ Len(j.rows) \in Nat /\ j.from \in 0..Len(j.rows)
        /\ items = [i \in 0..ItemCount(j) - 1 |-> items[i]]

\* The tiles of each item.
TilesEach(j) == IF j.layout.kind = "Bands" THEN BandsOf(j.plan.tiled.geometry).tiles ELSE 1

\* A worker is in one band at most, one nobody else is in, and past its first tile.
WorkShared ==
    /\ holds = [w \in Workers |-> holds[w]]
    /\ \A w \in Workers : \A h \in holds[w] :
        /\ Running /\ h.item \in DOMAIN items /\ items[h.item] = "todo"
        /\ \A j \in job : h.next \in 2..TilesEach(j)
        /\ \A v \in Workers : \A k \in holds[v] : k.item = h.item => v = w
        /\ \A k \in holds[w] : k = h

ReadInv == HandleOfUnit /\ OneRead /\ ReadLaidOut /\ WorkShared

LEMMA HandleIs ==
    ASSUME IsOpen
    PROVE  Handle \in handle
BY DEF IsOpen, Handle

LEMMA JobIs ==
    ASSUME OneRead, Running
    PROVE  job = {Job}
BY DEF OneRead, Running, Job

\* A reader's image is a grid of tiles.
LEMMA UnitIsTiled ==
    ASSUME HandleOfUnit, ~IsPlain, NEW h \in handle
    PROVE  /\ IsGrid(h.tiled.geometry)
           /\ h.tiled.geometry.dims = h.tiled.image.shape
           /\ h.tiled.image.bitpix \in Bitpixes
<1>1. unit \in Units /\ "plain" \notin DOMAIN unit
  BY DEF HandleOfUnit, IsPlain
<1>2. TypedHeader(unit.container.header)
  BY <1>1, UnitsAssumption
<1>3. h.tiled = TiledImage(unit.container.header) /\ h.tiled.error = "none"
  BY DEF HandleOfUnit
<1> QED BY <1>2, <1>3, TiledImageIs

\* Without a read nobody is in a band.
LEMMA IdleReadInv ==
    ASSUME HandleOfUnit, job = {}, holds = NoHolds
    PROVE  ReadInv
BY DEF ReadInv, OneRead, Running, ReadLaidOut, WorkShared, NoHolds

LEMMA InitReadInv ==
    ASSUME Init
    PROVE  ReadInv
<1>1. HandleOfUnit
  BY DEF Init, HandleOfUnit
<1> QED BY <1>1, IdleReadInv DEF Init

\* Without a read no band is held.
LEMMA IdleHolds ==
    ASSUME ReadInv, ~Running
    PROVE  job = {} /\ holds = NoHolds
<1>1. \A w \in Workers : holds[w] = {}
  BY DEF ReadInv, WorkShared
<1>2. holds = [w \in Workers |-> holds[w]]
  BY DEF ReadInv, WorkShared
<1> QED BY <1>1, <1>2 DEF NoHolds, Running

\* Opening and closing a handle.
LEMMA OpenReadInv ==
    ASSUME ReadInv, Open \/ OpenPlain \/ Close
    PROVE  ReadInv'
<1>1. ~Running
  BY DEF Open, OpenPlain, Close, ReadInv, OneRead
<1>2. unit' = unit /\ job' = {} /\ holds' = NoHolds
  BY <1>1, IdleHolds DEF Open, OpenPlain, Close
<1>3. unit \in Units
  BY DEF ReadInv, HandleOfUnit
<1>4. HandleOfUnit'
  <2>1. CASE Open
    <3>1. \A h \in handle' : h.tiled = TiledImage(unit.container.header) /\ h.tiled.error = "none"
      BY <2>1 DEF Open
    <3> QED BY <1>2, <1>3, <3>1 DEF HandleOfUnit
  <2>2. CASE OpenPlain
    BY <1>2, <1>3, <2>2 DEF OpenPlain, HandleOfUnit, IsPlain
  <2>3. CASE Close
    BY <1>2, <1>3, <2>3 DEF Close, HandleOfUnit
  <2> QED BY <2>1, <2>2, <2>3
<1> QED BY <1>2, <1>4 DEF ReadInv, OneRead, Running, ReadLaidOut, WorkShared, NoHolds

\* The read that a region begins.
RowsOfRead(tiled, region) ==
    IF region.kind = "Section" THEN SelectRows(tiled.geometry, RangesIn(tiled.image.shape, region))
    ELSE Places(NTiles(tiled.geometry))

\* What StartRead makes of a region it accepts.
Began(j, region) ==
    LET tiled == Handle.tiled
        ranges == RangesIn(tiled.image.shape, region)
    IN  /\ RegionError(ranges, tiled.image.shape) = "none"
        /\ ShapeProduct(RegionShape(ranges)) # 0
        /\ j.plan.tiled = tiled
        /\ j.rows = RowsOfRead(tiled, region)
        /\ j.from = 0
        /\ j.layout = LayoutOf(j.plan, region.kind = "Section", Len(j.rows))
        /\ IsJob(j)
        /\ job' = {j}
        /\ items' = ItemsOf(j.layout, Len(j.rows), 0)
        /\ holds' = NoHolds

LEMMA PlanIsOf ==
    ASSUME NEW tiled, NEW columns, NEW index, PlanOf(tiled, columns, index).error = "none"
    PROVE  PlanOf(tiled, columns, index).tiled = tiled
<1> DEFINE h == tiled.header
           scaled == h.zscale \cup h.zzero # {} \/ index.zscale # {} \/ index.zzero # {}
           quantization ==
               FloatQuantization(OrElse(h.zquantiz, "None"), OrElse(h.zdither0, 1), scaled,
                                 StoresLosslessFloats(tiled.decoder.codec))
           float == IsFloat(tiled.image.bitpix)
           hmask == columns.mask # {} /\ \E c \in tiled.maskCodec : c.kind = "Hcompress"
<1>1. quantization # "none"
  BY DEF FloatQuantization
<1>2. float /\ quantization \notin {"Lossless", "Quantized"}
        => PlanOf(tiled, columns, index) = Refused(quantization)
  BY DEF PlanOf
<1>3. ~(float /\ quantization \notin {"Lossless", "Quantized"}) /\ hmask
        => PlanOf(tiled, columns, index) = Refused("HcompressNullMask")
  BY DEF PlanOf
<1>4. ~(float /\ quantization \notin {"Lossless", "Quantized"}) /\ ~hmask
        => PlanOf(tiled, columns, index).tiled = tiled
  BY DEF PlanOf
<1> HIDE DEF quantization, float, hmask
<1> QED BY <1>1, <1>2, <1>3, <1>4 DEF Refused

LEMMA StartReadBegins ==
    ASSUME NEW region, NEW mode, StartRead(region, mode)
    PROVE  /\ IsOpen /\ ~Running /\ unit' = unit /\ handle' = handle
           /\ \/ job' = job /\ holds' = holds
              \/ \E j : Began(j, region)
<1> DEFINE c == unit.container
           tiled == Handle.tiled
           g == tiled.geometry
           dims == tiled.image.shape
           section == region.kind = "Section"
           ranges == RangesIn(dims, region)
           rows == IF section THEN SelectRows(g, ranges) ELSE Places(NTiles(g))
           table == IF section THEN CompactTable(WholeTable(c), rows) ELSE WholeTable(c)
           shape == RegionShape(ranges)
           count == ShapeProduct(shape)
           plan == PlanOf(tiled, c.columns, Handle.index)
           layout == LayoutOf(plan, section, Len(rows))
           j == [mode |-> mode, region |-> region, ranges |-> ranges, shape |-> shape,
                 section |-> section, rows |-> rows, table |-> table,
                 plan |-> plan, layout |-> layout, from |-> 0, count |-> count]
<1>1. IsOpen /\ ~Running /\ unit' = unit /\ handle' = handle
  BY DEF StartRead
<1>2. \/ job' = job /\ holds' = holds
      \/ /\ RegionError(ranges, dims) = "none" /\ count # 0 /\ plan.error = "none"
         /\ job' = {j} /\ items' = ItemsOf(layout, Len(rows), 0) /\ holds' = NoHolds
  BY DEF StartRead, NoDecode
<1>3. /\ j.plan = plan /\ j.rows = rows /\ j.from = 0 /\ j.layout = layout
      /\ rows = RowsOfRead(tiled, region)
  BY DEF RowsOfRead
<1>j. IsJob(j)
  <2> HIDE DEF plan, layout, rows, table, shape, count, ranges, section
  <2> QED BY DEF IsJob, JobFields
<1> HIDE DEF j
<1>4. plan.error = "none" => plan.tiled = tiled
  BY PlanIsOf
<1> HIDE DEF plan, layout, rows
<1>5. CASE job' = job /\ holds' = holds
  BY <1>1, <1>5
<1>6. CASE /\ RegionError(ranges, dims) = "none" /\ count # 0 /\ plan.error = "none"
           /\ job' = {j} /\ items' = ItemsOf(layout, Len(rows), 0) /\ holds' = NoHolds
  <2>1. Began(j, region)
    BY <1>3, <1>4, <1>j, <1>6 DEF Began, layout
  <2> QED BY <1>1, <2>1
<1> QED BY <1>2, <1>5, <1>6

\* The items of a layout are those to do.
LEMMA ItemsAre ==
    ASSUME NEW j
    PROVE  ItemsOf(j.layout, Len(j.rows), j.from) = [i \in 0..ItemCount(j) - 1 |-> "todo"]
BY DEF ItemsOf, ItemCount

\* A read that begins is laid out over the tiles of its region.
LEMMA BeganIsLaidOut ==
    ASSUME HandleOfUnit, ~IsPlain, IsOpen, NEW region, TypedRegion(region),
           NEW j, Began(j, region)
    PROVE  /\ IsLayout(j.layout, j.plan.tiled.geometry, Len(j.rows))
           /\ Len(j.rows) \in Nat /\ j.from = 0 /\ IsJob(j)
           /\ items' = [i \in 0..ItemCount(j) - 1 |-> "todo"]
<1> DEFINE tiled == Handle.tiled
           g == tiled.geometry
           dims == tiled.image.shape
           section == region.kind = "Section"
<1>1. IsGrid(g) /\ g.dims = dims /\ tiled.image.bitpix \in Bitpixes
  BY HandleIs, UnitIsTiled
<1>2. j.plan.tiled = tiled /\ j.rows = RowsOfRead(tiled, region) /\ j.from = 0
      /\ j.layout = LayoutOf(j.plan, section, Len(j.rows))
      /\ IsJob(j)
      /\ items' = ItemsOf(j.layout, Len(j.rows), 0)
  BY DEF Began
<1>3. section => RangesIn(dims, region) = region.ranges
  BY DEF RangesIn
<1>4. section => RegionError(region.ranges, g.dims) = "none"
  BY <1>1, <1>3 DEF Began
<1>5. Len(j.rows) \in Nat
  <2>1. j.rows = IF section THEN SelectRows(g, region.ranges) ELSE Places(NTiles(g))
    BY <1>2, <1>3 DEF RowsOfRead
  <2> HIDE DEF g, section
  <2> QED BY <1>1, <1>4, <2>1, ReadRowsAre DEF section
<1>6. ~section => \A i \in 1..Len(g.dims) : g.dims[i] > 0
  <2>1. SUFFICES ASSUME ~section PROVE \A i \in 1..Len(dims) : dims[i] > 0
    BY <1>1
  <2>2. dims \in Seq(Nat) /\ ShapeProduct(RegionShape(RangesIn(dims, region))) # 0
    BY <1>1 DEF Began, IsGrid
  <2> HIDE DEF dims
  <2> QED BY <2>1, <2>2, WholeHasAxes
<1>7. IsLayout(j.layout, g, Len(j.rows))
  <2>1. IsGrid(j.plan.tiled.geometry) /\ j.plan.tiled.image.bitpix \in Bitpixes
    BY <1>1, <1>2
  <2>2. IsLayout(LayoutOf(j.plan, section, Len(j.rows)), j.plan.tiled.geometry, Len(j.rows))
    <3>1. ~section => \A i \in 1..Len(j.plan.tiled.geometry.dims) : j.plan.tiled.geometry.dims[i] > 0
      BY <1>2, <1>6
    <3>2. section \in BOOLEAN
      OBVIOUS
    <3> HIDE DEF section
    <3> QED BY <1>5, <2>1, <3>1, <3>2, LayoutIs
  <2> QED BY <1>2, <2>2
<1>8. ItemsOf(j.layout, Len(j.rows), 0) = [i \in 0..ItemCount(j) - 1 |-> "todo"]
  <2>1. j.from = 0
    BY <1>2
  <2> QED BY <2>1, ItemsAre
<1> QED BY <1>2, <1>5, <1>7, <1>8

\* Beginning a read.
LEMMA StartReadInv ==
    ASSUME ReadInv, Read
    PROVE  ReadInv'
<1>1. PICK k \in DOMAIN unit.regions, mode \in Modes : StartRead(unit.regions[k], mode)
  BY DEF Read, RegionsOf
<1> DEFINE region == unit.regions[k]
<1>2. ~IsPlain /\ unit \in Units
  BY DEF Read, ReadInv, HandleOfUnit
<1>3. TypedRegion(region)
  BY <1>2, UnitsAssumption DEF IsPlain
<1>4. /\ IsOpen /\ ~Running /\ unit' = unit /\ handle' = handle
      /\ \/ job' = job /\ holds' = holds
         \/ \E j : Began(j, region)
  BY <1>1, StartReadBegins
<1>5. HandleOfUnit'
  BY <1>4 DEF ReadInv, HandleOfUnit, IsPlain
<1>6. CASE job' = job /\ holds' = holds
  <2>1. job' = {} /\ holds' = NoHolds
    BY <1>4, <1>6, IdleHolds
  <2> QED BY <1>5, <2>1 DEF ReadInv, OneRead, Running, ReadLaidOut, WorkShared, NoHolds
<1>7. CASE \E j : Began(j, region)
  <2>1. PICK j : Began(j, region)
    BY <1>7
  <2> HIDE DEF region
  <2>2. /\ IsLayout(j.layout, j.plan.tiled.geometry, Len(j.rows))
        /\ Len(j.rows) \in Nat /\ j.from = 0 /\ IsJob(j)
        /\ items' = [i \in 0..ItemCount(j) - 1 |-> "todo"]
    BY <1>2, <1>3, <1>4, <2>1, BeganIsLaidOut DEF ReadInv
  <2>3. job' = {j} /\ holds' = NoHolds
    BY <2>1 DEF Began
  <2>4. OneRead'
    BY <1>2, <1>4, <2>3 DEF OneRead, Running, IsOpen, IsPlain
  <2>5. ReadLaidOut'
    BY <2>2, <2>3 DEF ReadLaidOut
  <2>6. WorkShared'
    BY <2>3 DEF WorkShared, NoHolds
  <2> QED BY <1>5, <2>4, <2>5, <2>6 DEF ReadInv
<1> QED BY <1>4, <1>6, <1>7

\* What a decode of the next tile of item i by worker w does to the items and bands.
Decodes(w, i) ==
    LET at == OrElse({h.next : h \in holds[w]}, 1)
        last == at = Len(TilesOf(Job, i))
    IN  /\ Running /\ i \in DOMAIN items /\ Takes(w, i) /\ job' = job
        /\ \E ok \in BOOLEAN :
            /\ items' = [items EXCEPT ![i] = IF ~ok THEN "failed" ELSE IF last THEN "done" ELSE @]
            /\ holds' = [holds EXCEPT ![w] = IF ok /\ ~last THEN {[item |-> i, next |-> at + 1]} ELSE {}]

LEMMA DecodeNextDecodes ==
    ASSUME NEW w, NEW i, DecodeNext(w, i)
    PROVE  Decodes(w, i) /\ unit' = unit /\ handle' = handle
<1>1. /\ Running /\ i \in DOMAIN items /\ Takes(w, i)
      /\ unit' = unit /\ handle' = handle /\ job' = job
  BY DEF DecodeNext
<1>2. \E d : LET at == OrElse({h.next : h \in holds[w]}, 1)
                 last == at = Len(TilesOf(Job, i))
                 ok == d.error = "none"
             IN /\ items' = [items EXCEPT ![i] = IF ~ok THEN "failed" ELSE IF last THEN "done" ELSE @]
                /\ holds' = [holds EXCEPT ![w] =
                                  IF ok /\ ~last THEN {[item |-> i, next |-> at + 1]} ELSE {}]
  BY DEF DecodeNext
<1> QED BY <1>1, <1>2 DEF Decodes

\* The tiles of an item of a read are at least one.
LEMMA TilesAre ==
    ASSUME OneRead, ReadLaidOut, Running, NEW i
    PROVE  /\ Len(TilesOf(Job, i)) = TilesEach(Job)
           /\ TilesEach(Job) \in Nat \ {0}
<1>1. Job \in job
  BY JobIs
<1>2. IsLayout(Job.layout, Job.plan.tiled.geometry, Len(Job.rows))
  BY <1>1 DEF ReadLaidOut
<1>3. CASE Job.layout.kind = "Bands"
  <2>1. BandsOf(Job.plan.tiled.geometry).tiles \in Nat \ {0}
    BY <1>2, <1>3 DEF IsLayout
  <2>2. Len(TilesOfBand(Job.plan.tiled.geometry, i)) = BandsOf(Job.plan.tiled.geometry).tiles
    <3>1. PICK n : n = BandsOf(Job.plan.tiled.geometry).tiles
      OBVIOUS
    <3> QED BY <2>1, <3>1, FunIsSeq DEF TilesOfBand
  <2> QED BY <1>3, <2>1, <2>2 DEF TilesOf, TilesEach
<1>4. CASE Job.layout.kind # "Bands"
  BY <1>4 DEF TilesOf, TilesEach
<1> QED BY <1>3, <1>4

\* The tile a worker takes of an item: the first, or the one its band is at.
LEMMA TakenAt ==
    ASSUME ReadInv, Running, NEW w \in Workers, NEW i \in DOMAIN items, Takes(w, i),
           NEW at, at = OrElse({h.next : h \in holds[w]}, 1)
    PROVE  /\ items[i] = "todo" /\ at \in 1..TilesEach(Job)
           /\ \A h \in holds[w] : h.item = i /\ h.next = at
           /\ \A v \in Workers \ {w} : \A h \in holds[v] : h.item # i
           /\ holds[w] = {} => at = 1
<1>0. Job \in job /\ TilesEach(Job) \in Nat \ {0}
  BY JobIs, TilesAre DEF ReadInv
<1>1. CASE \E h \in holds[w] : h.item = i
  <2>1. PICK h \in holds[w] : h.item = i
    BY <1>1
  <2>2. /\ items[i] = "todo" /\ h.next \in 2..TilesEach(Job)
        /\ \A k \in holds[w] : k = h
        /\ \A v \in Workers : \A k \in holds[v] : k.item = i => v = w
    BY <1>0, <2>1 DEF ReadInv, WorkShared
  <2>3. {k.next : k \in holds[w]} = {h.next}
    BY <2>2
  <2>4. at = h.next
    BY <2>3 DEF OrElse
  <2> QED BY <1>0, <2>1, <2>2, <2>4
<1>2. CASE ~\E h \in holds[w] : h.item = i
  <2>1. holds[w] = {} /\ items[i] = "todo" /\ \A v \in Workers : \A h \in holds[v] : h.item # i
    BY <1>2 DEF Takes
  <2>2. at = 1
    BY <2>1 DEF OrElse
  <2> QED BY <1>0, <2>1, <2>2
<1> QED BY <1>1, <1>2

\* Decoding the next tile of an item.
LEMMA DecodeReadInv ==
    ASSUME ReadInv, NEW w \in Workers, NEW i, Decodes(w, i), unit' = unit, handle' = handle
    PROVE  ReadInv'
<1> DEFINE at == OrElse({h.next : h \in holds[w]}, 1)
           last == at = Len(TilesOf(Job, i))
<1>1. /\ Running /\ i \in DOMAIN items /\ Takes(w, i) /\ job' = job
  BY DEF Decodes
<1>2. PICK ok \in BOOLEAN :
            /\ items' = [items EXCEPT ![i] = IF ~ok THEN "failed" ELSE IF last THEN "done" ELSE @]
            /\ holds' = [holds EXCEPT ![w] = IF ok /\ ~last THEN {[item |-> i, next |-> at + 1]} ELSE {}]
  BY DEF Decodes
<1>3. (last <=> at = TilesEach(Job)) /\ TilesEach(Job) \in Nat \ {0}
  BY <1>1, TilesAre DEF ReadInv
<1>4. /\ items[i] = "todo" /\ at \in 1..TilesEach(Job)
      /\ \A h \in holds[w] : h.item = i /\ h.next = at
      /\ \A v \in Workers \ {w} : \A h \in holds[v] : h.item # i
  BY <1>1, TakenAt
<1>5. HandleOfUnit' /\ OneRead'
  BY <1>1 DEF ReadInv, HandleOfUnit, OneRead, IsPlain, IsOpen, Running
<1>6. ReadLaidOut'
  <2>1. SUFFICES ASSUME NEW j \in job
                 PROVE  items' = [k \in 0..ItemCount(j) - 1 |-> items'[k]]
    BY <1>1 DEF ReadLaidOut, ReadInv
  <2>2. items = [k \in 0..ItemCount(j) - 1 |-> items[k]]
    BY DEF ReadLaidOut, ReadInv
  <2> HIDE DEF at, last
  <2> QED BY <1>2, <2>2
<1> HIDE DEF at, last
<1>7. WorkShared'
  <2>1. holds' = [v \in Workers |-> holds'[v]]
    BY <1>2 DEF ReadInv, WorkShared
  <2>2. \A v \in Workers \ {w} : holds'[v] = holds[v]
    BY <1>2 DEF ReadInv, WorkShared
  <2>3. \A h \in holds'[w] : /\ h = [item |-> i, next |-> at + 1]
                             /\ ok /\ ~last
    BY <1>2 DEF ReadInv, WorkShared
  <2>4. \A k \in DOMAIN items : k # i => items'[k] = items[k]
    BY <1>2
  <2>5. DOMAIN items' = DOMAIN items
    BY <1>2
  <2>6. ASSUME NEW v \in Workers, NEW h \in holds'[v]
        PROVE  /\ Running' /\ h.item \in DOMAIN items' /\ items'[h.item] = "todo"
               /\ \A j \in job : h.next \in 2..TilesEach(j)
               /\ \A u \in Workers : \A k \in holds'[u] : k.item = h.item => u = v
               /\ \A k \in holds'[v] : k = h
    <3>1. CASE v = w
      <4>1. h.item = i /\ h.next = at + 1 /\ ok /\ ~last
        BY <2>3, <3>1
      <4>2. items'[i] = items[i]
        BY <1>1, <1>2, <4>1
      <4>3. at + 1 \in 2..TilesEach(Job)
        BY <1>3, <1>4, <4>1
      <4>4. \A j \in job : j = Job
        BY <1>1, JobIs DEF ReadInv
      <4>5. \A u \in Workers : \A k \in holds'[u] : k.item = h.item => u = v
        BY <1>4, <2>2, <3>1, <4>1
      <4>6. \A k \in holds'[v] : k = h
        BY <2>3, <3>1
      <4>7. Running' /\ h.item \in DOMAIN items'
        BY <1>1, <2>5, <4>1 DEF Running
      <4>8. \A j \in job : h.next \in 2..TilesEach(j)
        BY <4>1, <4>3, <4>4
      <4>9. items'[h.item] = "todo"
        BY <1>4, <4>1, <4>2
      <4> QED BY <4>5, <4>6, <4>7, <4>8, <4>9
    <3>2. CASE v # w
      <4>1. h \in holds[v]
        BY <2>2, <3>2
      <4>2. /\ h.item \in DOMAIN items /\ items[h.item] = "todo"
            /\ \A j \in job : h.next \in 2..TilesEach(j)
            /\ \A u \in Workers : \A k \in holds[u] : k.item = h.item => u = v
            /\ \A k \in holds[v] : k = h
        BY <4>1 DEF ReadInv, WorkShared
      <4>3. h.item # i
        BY <1>4, <3>2, <4>1
      <4>4. \A u \in Workers : \A k \in holds'[u] : k.item = h.item => u = v
        <5>1. \A k \in holds'[w] : k.item = i
          BY <2>3
        <5> QED BY <2>2, <4>2, <4>3, <5>1
      <4>5. \A k \in holds'[v] : k = h
        BY <2>2, <3>2, <4>2
      <4>6. items'[h.item] = "todo" /\ h.item \in DOMAIN items'
        BY <2>4, <2>5, <4>2, <4>3
      <4>7. Running'
        BY <1>1 DEF Running
      <4> QED BY <4>2, <4>4, <4>5, <4>6, <4>7
    <3> QED BY <3>1, <3>2
  <2> QED BY <1>1, <2>1, <2>6 DEF WorkShared, TilesEach
<1> QED BY <1>5, <1>6, <1>7 DEF ReadInv

\* Leaving an item out.
LEMMA SkipReadInv ==
    ASSUME ReadInv, NEW i, Skip(i)
    PROVE  ReadInv'
<1>1. /\ Running /\ i \in DOMAIN items /\ unit' = unit /\ handle' = handle
      /\ job' = job /\ holds' = holds
      /\ \A w \in Workers : \A h \in holds[w] : h.item # i
      /\ items' = [items EXCEPT ![i] = "skipped"]
  BY DEF Skip
<1>2. HandleOfUnit' /\ OneRead'
  BY <1>1 DEF ReadInv, HandleOfUnit, OneRead, IsPlain, IsOpen, Running
<1>3. ReadLaidOut'
  <2>1. SUFFICES ASSUME NEW j \in job
                 PROVE  items' = [k \in 0..ItemCount(j) - 1 |-> items'[k]]
    BY <1>1 DEF ReadLaidOut, ReadInv
  <2>2. items = [k \in 0..ItemCount(j) - 1 |-> items[k]]
    BY DEF ReadLaidOut, ReadInv
  <2> QED BY <1>1, <2>2
<1>4. WorkShared'
  <2>1. \A k \in DOMAIN items : k # i => items'[k] = items[k]
    BY <1>1
  <2>2. DOMAIN items' = DOMAIN items
    BY <1>1
  <2> QED BY <1>1, <2>1, <2>2 DEF ReadInv, WorkShared, Running, TilesEach
<1> QED BY <1>2, <1>3, <1>4 DEF ReadInv

\* The end of a read.
LEMMA EndJobReadInv ==
    ASSUME ReadInv, NEW r, NEW o, EndJob(r, o), unit' = unit, handle' = handle
    PROVE  ReadInv'
<1>1. job' = {} /\ holds' = NoHolds
  BY DEF EndJob
<1>2. HandleOfUnit'
  BY DEF ReadInv, HandleOfUnit, IsPlain
<1> QED BY <1>1, <1>2 DEF ReadInv, OneRead, Running, ReadLaidOut, WorkShared, NoHolds

\* What EndItems does: the next wave of the read, or its end.
NextWave ==
    LET j == Job
    IN  /\ j.layout.kind = "Waves" /\ NextFrom(j) < Len(j.rows)
        /\ job' = {[j EXCEPT !.from = NextFrom(j)]}
        /\ items' = ItemsOf(j.layout, Len(j.rows), NextFrom(j))
        /\ holds' = NoHolds

LEMMA EndItemsEnds ==
    ASSUME EndItems
    PROVE  /\ Running /\ unit' = unit /\ handle' = handle
           /\ NextWave \/ \E r, o : EndJob(r, o)
<1> DEFINE j == Job
           scattered ==
            IF j.layout.kind = "Bands" THEN out
            ELSE FoldLeft(LAMBDA o, i : Scatter(j, o, TileInto(j.plan.tiled.geometry,
                                                               RowsAt(j, j.from + i).grid), wave[i]),
                          out, Places(Cardinality(DOMAIN items)))
           more == j.layout.kind = "Waves" /\ NextFrom(j) < Len(j.rows)
<1>1. Running /\ unit' = unit /\ handle' = handle
  BY DEF EndItems
<1>2. CASE more
  <2>1. /\ job' = {[j EXCEPT !.from = NextFrom(j)]}
        /\ items' = ItemsOf(j.layout, Len(j.rows), NextFrom(j))
        /\ holds' = NoHolds
    BY <1>2 DEF EndItems
  <2> QED BY <1>1, <1>2, <2>1 DEF NextWave
<1>3. CASE ~more
  <2>1. \E r, o : EndJob(r, o)
    <3>1. EndJob([kind |-> "done", mode |-> j.mode, region |-> j.region,
                  out |-> IF j.mode = "view" THEN SubSeq(scattered, 1, j.count) ELSE scattered],
                 scattered)
      BY <1>3 DEF EndItems
    <3> QED BY <3>1
  <2> QED BY <1>1, <2>1
<1> QED BY <1>2, <1>3

\* A wave after another begins past the tiles of the one before.
LEMMA NextWaveIs ==
    ASSUME ReadInv, Running, NextWave
    PROVE  \E j : /\ job' = {j} /\ IsJob(j) /\ j.from = Job.from + Job.layout.wave
                  /\ j.rows = Job.rows /\ j.layout = Job.layout /\ j.plan = Job.plan
                  /\ items' = [i \in 0..ItemCount(j) - 1 |-> "todo"]
                  /\ j.from \in 0..Len(j.rows) /\ Job.layout.wave \in Nat \ {0}
                  /\ Job.from < j.from /\ j.from < Len(j.rows)
<1> DEFINE j == [Job EXCEPT !.from = NextFrom(Job)]
<1>0. Job \in job
  BY JobIs DEF ReadInv
<1>1. /\ IsLayout(Job.layout, Job.plan.tiled.geometry, Len(Job.rows))
      /\ Len(Job.rows) \in Nat /\ Job.from \in 0..Len(Job.rows)
  BY <1>0 DEF ReadInv, ReadLaidOut
<1>2. /\ Job.layout.kind = "Waves" /\ NextFrom(Job) < Len(Job.rows)
      /\ job' = {j} /\ items' = ItemsOf(Job.layout, Len(Job.rows), NextFrom(Job))
  BY DEF NextWave
<1>3. Job.layout.wave \in Nat /\ (Len(Job.rows) > 0 => Job.layout.wave > 0)
  BY <1>1, <1>2 DEF IsLayout
<1>4. NextFrom(Job) = Job.from + Job.layout.wave /\ Len(Job.rows) > 0
  <2>1. NextFrom(Job) = Job.from + Job.layout.wave
    BY DEF NextFrom
  <2> QED BY <1>1, <1>2, <1>3, <2>1
<1>5. /\ j.rows = Job.rows /\ j.layout = Job.layout /\ j.plan = Job.plan
      /\ j.from = NextFrom(Job)
  <2>1. Job = [field \in JobFields |-> Job[field]]
    BY <1>0 DEF ReadInv, ReadLaidOut, IsJob
  <2>2. DOMAIN Job = JobFields /\ {"from", "rows", "layout", "plan"} \subseteq JobFields
    BY <2>1 DEF JobFields
  <2> QED BY <2>2
<1>j. IsJob(j)
  <2>1. Job = [field \in JobFields |-> Job[field]]
    BY <1>0 DEF ReadInv, ReadLaidOut, IsJob
  <2> QED BY <2>1 DEF IsJob
<1> HIDE DEF j
<1>6. items' = [i \in 0..ItemCount(j) - 1 |-> "todo"]
  BY <1>2, <1>5, ItemsAre
<1>7. /\ j.from = Job.from + Job.layout.wave /\ Job.layout.wave \in Nat \ {0}
      /\ j.from < Len(j.rows) /\ Job.from < j.from /\ j.from \in 0..Len(j.rows)
  BY <1>1, <1>2, <1>3, <1>4, <1>5
<1> QED BY <1>2, <1>5, <1>j, <1>6, <1>7

\* The end of the items of a wave, or of the bands.
LEMMA EndItemsReadInv ==
    ASSUME ReadInv, EndItems
    PROVE  ReadInv'
<1>1. /\ Running /\ unit' = unit /\ handle' = handle
      /\ NextWave \/ \E r, o : EndJob(r, o)
  BY EndItemsEnds
<1>2. CASE \E r, o : EndJob(r, o)
  BY <1>1, <1>2, EndJobReadInv
<1>3. CASE NextWave
  <2>1. PICK j : /\ job' = {j} /\ IsJob(j) /\ j.from = Job.from + Job.layout.wave
                 /\ j.rows = Job.rows /\ j.layout = Job.layout /\ j.plan = Job.plan
                 /\ items' = [i \in 0..ItemCount(j) - 1 |-> "todo"]
                 /\ j.from \in 0..Len(j.rows)
    BY <1>1, <1>3, NextWaveIs
  <2>2. HandleOfUnit' /\ OneRead'
    BY <1>1, <2>1 DEF ReadInv, HandleOfUnit, OneRead, IsPlain, IsOpen, Running
  <2>3. ReadLaidOut'
    <3>1. Job \in job
      BY <1>1, JobIs DEF ReadInv
    <3>2. IsLayout(j.layout, j.plan.tiled.geometry, Len(j.rows)) /\ Len(j.rows) \in Nat
      BY <2>1, <3>1 DEF ReadInv, ReadLaidOut
    <3> QED BY <2>1, <3>2 DEF ReadLaidOut
  <2>4. WorkShared'
    BY <1>3 DEF NextWave, WorkShared, NoHolds
  <2> QED BY <2>2, <2>3, <2>4 DEF ReadInv
<1> QED BY <1>1, <1>2, <1>3

\* Reading plain images changes nothing of a read of tiles.
LEMMA PlainReadInv ==
    ASSUME ReadInv, PlainReads
    PROVE  ReadInv' /\ ~Running
<1>1. /\ IsPlain /\ unit' = unit /\ handle' = handle /\ job' = job /\ items' = items
      /\ holds' = holds
  <2>1. PICK k \in DOMAIN RegionsOf(unit), mode \in PlainModes : ReadPlain(RegionsOf(unit)[k], mode)
    BY DEF PlainReads
  <2>2. IsPlain /\ unit' = unit /\ handle' = handle
    BY <2>1 DEF ReadPlain
  <2>3. \E r, resized : NoDecode(r, resized)
    BY <2>1, Zenon DEF ReadPlain
  <2> QED BY <2>2, <2>3 DEF NoDecode
<1>2. ~Running
  BY <1>1 DEF ReadInv, OneRead
<1>3. job' = {} /\ holds' = NoHolds
  BY <1>1, <1>2, IdleHolds
<1>4. HandleOfUnit'
  BY <1>1 DEF ReadInv, HandleOfUnit, IsPlain
<1> QED BY <1>2, <1>3, <1>4 DEF ReadInv, OneRead, Running, ReadLaidOut, WorkShared, NoHolds

LEMMA NextReadInv ==
    ASSUME ReadInv, [Next]_vars
    PROVE  ReadInv'
<1>1. CASE Open \/ OpenPlain \/ Close
  BY <1>1, OpenReadInv
<1>2. CASE PlainReads
  BY <1>2, PlainReadInv
<1>3. CASE Read
  BY <1>3, StartReadInv
<1>4. CASE Work
  <2>1. PICK w \in Workers, i \in DOMAIN items : DecodeNext(w, i)
    BY <1>4 DEF Work
  <2> QED BY <2>1, DecodeNextDecodes, DecodeReadInv
<1>5. CASE Leave
  BY <1>5, SkipReadInv DEF Leave
<1>6. CASE EndFailed
  <2>1. \E r, o : EndJob(r, o)
    BY <1>6 DEF EndFailed
  <2>2. unit' = unit /\ handle' = handle
    BY <1>6 DEF EndFailed
  <2> QED BY <2>1, <2>2, EndJobReadInv
<1>7. CASE EndItems
  BY <1>7, EndItemsReadInv
<1>8. CASE UNCHANGED vars
  BY <1>8 DEF vars, ReadInv, HandleOfUnit, OneRead, ReadLaidOut, WorkShared, IsPlain, IsOpen,
              Running, ItemCount, TilesEach
<1> QED BY <1>1, <1>2, <1>3, <1>4, <1>5, <1>6, <1>7, <1>8 DEF Next

\* A reader opens, reads and closes one unit; a read of tiles is laid out over at least
\* one tile a wave or a band, and no two workers are in one band.
THEOREM ReadIsShared == Spec => []ReadInv
<1>1. Init => ReadInv
  BY InitReadInv
<1>2. ReadInv /\ [Next]_vars => ReadInv'
  BY NextReadInv
<1> QED BY <1>1, <1>2, PTL DEF Spec

-----------------------------------------------------------------------------
(* The progress of a read. *)

\* Step k of item i is left to be taken.
IsPending(i, k) ==
    /\ i \in DOMAIN items /\ items[i] = "todo"
    /\ k \in 1..Len(TilesOf(Job, i)) + 1
    /\ \A w \in Workers : \A h \in holds[w] : h.item = i => h.next <= k

LEMMA PendingIs ==
    /\ \A x : x \in Pending <=> \E i, k : x = <<i, k>> /\ IsPending(i, k)
    /\ \A x : x \in Pending' <=> \E i, k : x = <<i, k>> /\ IsPending(i, k)'
<1>1. \A x : x \in Pending <=> \E i, k : x = <<i, k>> /\ IsPending(i, k)
  BY DEF Pending, StepsOf, IsPending
<1>2. \A x : x \in Pending' <=> \E i, k : x = <<i, k>> /\ IsPending(i, k)'
  BY DEF Pending, StepsOf, IsPending
<1> QED BY <1>1, <1>2

\* The steps left are finitely many, no more of each item than its tiles and its end.
LEMMA PendingIsFinite ==
    ASSUME ReadInv, Running
    PROVE  /\ IsFiniteSet(Pending) /\ Cardinality(Pending) \in Nat
           /\ Cardinality(Pending) <= ItemCount(Job) * (TilesEach(Job) + 1)
           /\ ItemCount(Job) \in Nat
<1> DEFINE n == ItemCount(Job)
           t == TilesEach(Job) + 1
           All == (0..n - 1) \X (1..t)
<1>0. Job \in job
  BY JobIs DEF ReadInv
<1>1. t \in Nat /\ \A i : Len(TilesOf(Job, i)) + 1 = t
  BY TilesAre DEF ReadInv
<1>2. DOMAIN items = 0..n - 1
  BY <1>0 DEF ReadInv, ReadLaidOut
<1>3. n \in Nat
  <2>1. /\ IsLayout(Job.layout, Job.plan.tiled.geometry, Len(Job.rows))
        /\ Len(Job.rows) - Job.from \in Nat
    BY <1>0 DEF ReadInv, ReadLaidOut
  <2> QED BY <2>1, MinIs DEF IsLayout, ItemCount
<1> HIDE DEF n, t
<1>4. Pending \subseteq All
  BY <1>1, <1>2, PendingIs DEF IsPending
<1>5. IsFiniteSet(0..n - 1) /\ Cardinality(0..n - 1) = n
      /\ IsFiniteSet(1..t) /\ Cardinality(1..t) = t
  <2>1. 0 \in Int /\ n - 1 \in Int /\ 1 \in Int /\ t \in Int
    BY <1>1, <1>3
  <2>2. Cardinality(0..n - 1) = IF 0 > n - 1 THEN 0 ELSE n - 1 - 0 + 1
    BY <2>1, FS_Interval
  <2>3. Cardinality(1..t) = IF 1 > t THEN 0 ELSE t - 1 + 1
    BY <2>1, FS_Interval
  <2>4. IsFiniteSet(0..n - 1) /\ IsFiniteSet(1..t)
    BY <2>1, FS_Interval
  <2> QED BY <1>1, <1>3, <2>2, <2>3, <2>4
<1>6. IsFiniteSet(All) /\ Cardinality(All) = n * t
  <2>1. IsFiniteSet((0..n - 1) \X (1..t))
        /\ Cardinality((0..n - 1) \X (1..t)) = Cardinality(0..n - 1) * Cardinality(1..t)
    BY <1>5, FS_Product
  <2> QED BY <1>5, <2>1
<1>7. IsFiniteSet(Pending) /\ Cardinality(Pending) <= Cardinality(All)
  BY <1>4, <1>6, FS_Subset
<1> QED BY <1>3, <1>6, <1>7, FS_CardinalityType DEF n, t

\* Fewer steps are left when those left were so before and one of those is not.
LEMMA FewerPending ==
    ASSUME ReadInv, Running, Pending' \subseteq Pending, NEW x \in Pending, x \notin Pending',
           job' = job
    PROVE  Left' < Left
<1>0. Job \in job
  BY JobIs DEF ReadInv
<1>1. IsFiniteSet(Pending) /\ Cardinality(Pending) \in Nat
  BY PendingIsFinite
<1>2. Cardinality(Pending') <= Cardinality(Pending) /\ Cardinality(Pending') # Cardinality(Pending)
      /\ IsFiniteSet(Pending')
  BY <1>1, FS_Subset
<1>3. Cardinality(Pending') \in Nat
  BY <1>2, FS_CardinalityType
<1>4. Job' = Job /\ Running'
  BY DEF Job, Running
<1>5. Len(Job.rows) \in Nat /\ Job.from \in 0..Len(Job.rows)
  BY <1>0 DEF ReadInv, ReadLaidOut
<1>6. Left = 1 + 3 * (Len(Job.rows) - Job.from) + Cardinality(Pending)
  BY DEF Left
<1>7. Left' = 1 + 3 * (Len(Job.rows) - Job.from) + Cardinality(Pending')
  BY <1>4 DEF Left
<1> QED BY <1>1, <1>2, <1>3, <1>5, <1>6, <1>7

LEMMA SkipProgresses ==
    ASSUME ReadInv, NEW i, Skip(i)
    PROVE  Left' < Left
<1>1. /\ Running /\ i \in DOMAIN items /\ job' = job /\ holds' = holds /\ items[i] = "todo"
      /\ \A w \in Workers : \A h \in holds[w] : h.item # i
      /\ items' = [items EXCEPT ![i] = "skipped"]
  BY DEF Skip
<1>2. Job' = Job
  BY <1>1 DEF Job
<1>3. \A m, k : IsPending(m, k)' => IsPending(m, k)
  BY <1>1, <1>2 DEF IsPending, TilesOf
<1>4. Pending' \subseteq Pending
  BY <1>3, PendingIs
<1>5. IsPending(i, 1)
  <2>1. Len(TilesOf(Job, i)) \in Nat
    BY <1>1, TilesAre DEF ReadInv
  <2> QED BY <1>1, <2>1 DEF IsPending
<1>6. \A k : ~IsPending(i, k)'
  BY <1>1 DEF IsPending
<1>7. <<i, 1>> \in Pending /\ <<i, 1>> \notin Pending'
  BY <1>5, <1>6, PendingIs
<1> QED BY <1>1, <1>4, <1>7, FewerPending

LEMMA DecodeProgresses ==
    ASSUME ReadInv, NEW w \in Workers, NEW i, Decodes(w, i)
    PROVE  Left' < Left
<1>0. PICK at : at = OrElse({h.next : h \in holds[w]}, 1)
  OBVIOUS
<1>l. PICK last \in BOOLEAN : last <=> at = Len(TilesOf(Job, i))
  OBVIOUS
<1>1. /\ Running /\ i \in DOMAIN items /\ Takes(w, i) /\ job' = job
  BY DEF Decodes
<1>2. PICK ok \in BOOLEAN :
            /\ items' = [items EXCEPT ![i] = IF ~ok THEN "failed" ELSE IF last THEN "done" ELSE @]
            /\ holds' = [holds EXCEPT ![w] = IF ok /\ ~last THEN {[item |-> i, next |-> at + 1]} ELSE {}]
  BY <1>0, <1>l DEF Decodes
<1>3. /\ items[i] = "todo" /\ at \in 1..TilesEach(Job)
      /\ \A h \in holds[w] : h.item = i /\ h.next = at
      /\ \A v \in Workers \ {w} : \A h \in holds[v] : h.item # i
  BY <1>0, <1>1, TakenAt
<1>4. TilesEach(Job) \in Nat \ {0} /\ \A m : Len(TilesOf(Job, m)) = TilesEach(Job)
  BY <1>1, TilesAre DEF ReadInv
<1>5. Job' = Job
  BY <1>1 DEF Job
<1>6. /\ DOMAIN holds = Workers
      /\ \A v \in Workers : \A h \in holds[v] : h.next \in Nat
  <2>1. Job \in job
    BY <1>1, JobIs DEF ReadInv
  <2> QED BY <1>4, <2>1 DEF ReadInv, WorkShared
<1>7. items'[i] = "todo" => ok /\ ~last
  BY <1>1, <1>2
<1>8. \A v \in Workers \ {w} : holds'[v] = holds[v]
  BY <1>2, <1>6
<1>9. ok /\ ~last => [item |-> i, next |-> at + 1] \in holds'[w]
  BY <1>2, <1>6
<1>10. /\ DOMAIN items' = DOMAIN items
       /\ \A m \in DOMAIN items : m # i => items'[m] = items[m]
  BY <1>2
<1>11. ASSUME NEW m, NEW k, IsPending(m, k)'
       PROVE  IsPending(m, k)
  <2>1. /\ m \in DOMAIN items /\ items'[m] = "todo" /\ k \in 1..Len(TilesOf(Job, m)) + 1
        /\ \A v \in Workers : \A h \in holds'[v] : h.item = m => h.next <= k
    BY <1>5, <1>10, <1>11 DEF IsPending, TilesOf
  <2>2. items[m] = "todo"
    BY <1>3, <1>10, <2>1
  <2>3. k \in Nat
    BY <1>4, <2>1
  <2>4. ASSUME NEW v \in Workers, NEW h \in holds[v], h.item = m PROVE h.next <= k
    <3>1. CASE v # w
      BY <1>8, <2>1, <2>4, <3>1
    <3>2. CASE v = w
      <4>1. m = i /\ h.next = at
        BY <1>3, <2>4, <3>2
      <4>2. at + 1 <= k
        BY <1>7, <1>9, <2>1, <4>1
      <4> QED BY <1>3, <2>3, <4>1, <4>2
    <3> QED BY <3>1, <3>2
  <2> QED BY <2>1, <2>2, <2>4 DEF IsPending
<1>12. Pending' \subseteq Pending
  BY <1>11, PendingIs
<1>13. IsPending(i, at)
  <2>1. at \in 1..Len(TilesOf(Job, i)) + 1
    BY <1>3, <1>4
  <2>2. \A v \in Workers : \A h \in holds[v] : h.item = i => h.next <= at
    BY <1>3
  <2> QED BY <1>1, <1>3, <2>1, <2>2 DEF IsPending
<1>14. ~IsPending(i, at)'
  <2>1. SUFFICES ASSUME IsPending(i, at)' PROVE FALSE
    OBVIOUS
  <2>2. items'[i] = "todo" /\ \A h \in holds'[w] : h.item = i => h.next <= at
    BY <2>1 DEF IsPending
  <2>3. at + 1 <= at
    BY <1>7, <1>9, <2>2
  <2> QED BY <1>3, <2>3
<1>15. <<i, at>> \in Pending /\ <<i, at>> \notin Pending'
  BY <1>13, <1>14, PendingIs
<1> QED BY <1>1, <1>12, <1>15, FewerPending

LEMMA EndProgresses ==
    ASSUME ReadInv, Running, NEW r, NEW o, EndJob(r, o)
    PROVE  Left' < Left
<1>0. Job \in job
  BY JobIs DEF ReadInv
<1>1. Left' = 0
  BY DEF EndJob, Left, Running
<1>2. Left = 1 + 3 * (Len(Job.rows) - Job.from) + Cardinality(Pending)
  BY DEF Left
<1>3. Len(Job.rows) \in Nat /\ Job.from \in 0..Len(Job.rows)
  BY <1>0 DEF ReadInv, ReadLaidOut
<1>4. Cardinality(Pending) \in Nat
  BY PendingIsFinite
<1> QED BY <1>1, <1>2, <1>3, <1>4

\* A wave of n tiles, no more than its slots, has at most two steps a tile: fewer than
\* the three counted for each before.
LEMMA FewerLeft ==
    ASSUME NEW rows \in Nat, NEW from \in Nat, NEW slots \in Nat \ {0}, NEW n \in Nat, n <= slots,
           NEW before \in Nat, NEW after \in Nat, after <= n * 2
    PROVE  1 + 3 * (rows - (from + slots)) + after < 1 + 3 * (rows - from) + before
OBVIOUS

LEMMA NextWaveProgresses ==
    ASSUME ReadInv, ReadInv', Running, NextWave
    PROVE  Left' < Left
<1>1. PICK j : /\ job' = {j} /\ j.from = Job.from + Job.layout.wave
               /\ j.rows = Job.rows /\ j.layout = Job.layout /\ j.plan = Job.plan
               /\ Job.layout.wave \in Nat \ {0} /\ j.from < Len(j.rows)
  BY NextWaveIs
<1>2. Job' = j /\ Running'
  BY <1>1 DEF Job, Running
<1>0. Job \in job
  BY JobIs DEF ReadInv
<1>3. Len(Job.rows) \in Nat /\ Job.from \in 0..Len(Job.rows)
  BY <1>0 DEF ReadInv, ReadLaidOut
<1>4. Cardinality(Pending) \in Nat
  BY PendingIsFinite
<1>5. (/\ Cardinality(Pending) \in Nat
       /\ Cardinality(Pending) <= ItemCount(Job) * (TilesEach(Job) + 1)
       /\ ItemCount(Job) \in Nat)'
  BY <1>2, PendingIsFinite, PTL
<1>6. TilesEach(j) = 1 /\ ItemCount(j) = MinOf(Job.layout.wave, Len(Job.rows) - j.from)
  BY <1>1 DEF NextWave, TilesEach, ItemCount
<1>7. Cardinality(Pending') <= ItemCount(j) * 2 /\ ItemCount(j) \in Nat
      /\ Cardinality(Pending') \in Nat
  BY <1>2, <1>5, <1>6 DEF TilesEach, ItemCount
<1>8. ItemCount(j) <= Job.layout.wave
  <2>1. Len(Job.rows) - j.from \in Nat
    BY <1>1, <1>3
  <2> QED BY <1>1, <1>6, <2>1, MinIs
<1>9. Left = 1 + 3 * (Len(Job.rows) - Job.from) + Cardinality(Pending)
  BY DEF Left
<1>10. Left' = 1 + 3 * (Len(j.rows) - j.from) + Cardinality(Pending')
  BY <1>2 DEF Left
<1>11. /\ Job.layout.wave \in Nat \ {0} /\ Len(j.rows) = Len(Job.rows)
       /\ j.from = Job.from + Job.layout.wave
  BY <1>1
<1>12. /\ Left = 1 + 3 * (Len(Job.rows) - Job.from) + Cardinality(Pending)
       /\ Left' = 1 + 3 * (Len(Job.rows) - (Job.from + Job.layout.wave)) + Cardinality(Pending')
  BY <1>9, <1>10, <1>11
<1>13. Job.from \in Nat
  BY <1>3
<1>14. 1 + 3 * (Len(Job.rows) - (Job.from + Job.layout.wave)) + Cardinality(Pending')
        < 1 + 3 * (Len(Job.rows) - Job.from) + Cardinality(Pending)
  BY <1>3, <1>4, <1>7, <1>8, <1>11, <1>13, FewerLeft
<1> QED BY <1>12, <1>14

\* Every step of a read takes one of the steps left, or ends the read: a band advances
\* past the tile it was at, a failure or an omission ends its item, and a wave that
\* follows another has fewer steps than its tiles were counted for.
THEOREM ReadsProgress == Spec => ReadProgresses
<1>1. ReadInv /\ ReadInv' /\ [Next]_vars => [Running => Left' < Left]_vars
  <2>1. SUFFICES ASSUME ReadInv, ReadInv', Next, Running
                 PROVE  Left' < Left
    OBVIOUS
  <2>2. CASE Open \/ OpenPlain \/ Close \/ PlainReads \/ Read
    <3>1. IsOpen /\ ~IsPlain
      BY <2>1 DEF ReadInv, OneRead
    <3>2. ~(Open \/ OpenPlain \/ Close \/ PlainReads)
      BY <2>1, <3>1, PlainReadInv DEF Open, OpenPlain, Close
    <3>3. ~Read
      BY <2>1 DEF Read, StartRead
    <3> QED BY <2>2, <3>2, <3>3
  <2>3. CASE Work
    <3>1. PICK w \in Workers, i \in DOMAIN items : DecodeNext(w, i)
      BY <2>3 DEF Work
    <3> QED BY <2>1, <3>1, DecodeNextDecodes, DecodeProgresses
  <2>4. CASE Leave
    BY <2>1, <2>4, SkipProgresses DEF Leave
  <2>5. CASE EndFailed
    <3>1. \E r, o : EndJob(r, o)
      BY <2>5 DEF EndFailed
    <3> QED BY <2>1, <3>1, EndProgresses
  <2>6. CASE EndItems
    BY <2>1, <2>6, EndItemsEnds, EndProgresses, NextWaveProgresses
  <2> QED BY <2>1, <2>2, <2>3, <2>4, <2>5, <2>6 DEF Next
<1> QED BY <1>1, ReadIsShared, PTL DEF Spec, ReadProgresses

-----------------------------------------------------------------------------
(* The plan of a read. *)

\* The decoder of an image: a codec there is, integers of a size there is.
LEMMA NewDecoderIs ==
    ASSUME NEW h, TypedHeader(h), NEW image, image.bitpix \in Bitpixes, NEW codec, IsCodec(codec),
           NEW decoder, decoder = NewDecoder(h, image, codec), decoder.error = "none"
    PROVE  IsCodec(decoder.codec) /\ decoder.intWidth \in ElementSizes
<1>1. PICK read : read = ReadParameters(codec, h.params)
  OBVIOUS
<1>2. PICK plio : plio = PlioCodec(PlioOffset(image.bitpix, image.scaling))
  OBVIOUS
<1>3. PICK c : c = IF read.codec.kind = "Plio" THEN plio ELSE read.codec
  OBVIOUS
<1>4. decoder = IF read.error # "none" THEN read
                ELSE [error |-> "none", codec |-> c,
                      intWidth |-> IF ~IsFloat(image.bitpix) THEN ElemSize(image.bitpix)
                                   ELSE IF c.kind = "Rice" THEN c.bytepix ELSE 4]
  BY <1>1, <1>2, <1>3 DEF NewDecoder, With
<1>5. read.error = "none" /\ decoder.codec = c
      /\ decoder.intWidth = IF ~IsFloat(image.bitpix) THEN ElemSize(image.bitpix)
                            ELSE IF c.kind = "Rice" THEN c.bytepix ELSE 4
  BY <1>4
<1>6. Len(h.params) \in Nat /\ DOMAIN h.params = 1..Len(h.params)
  BY DEF TypedHeader
<1>7. IsCodec(read.codec)
  BY <1>1, <1>5, <1>6, ReadParametersIs DEF ParameterKept
<1>8. IsCodec(c)
  <2>1. IsCodec(plio)
    BY <1>2 DEF PlioCodec, IsCodec, CodecKinds
  <2> QED BY <1>3, <1>7, <2>1
<1>9. ElemSize(image.bitpix) \in ElementSizes
  BY SizesAre
<1> QED BY <1>5, <1>8, <1>9 DEF IsCodec, Widths, ElementSizes

\* What TiledImage::new makes of a header it accepts.
LEMMA TiledImageParts ==
    ASSUME NEW h, NEW image, image = CompressedGeometry(h),
           NEW named, named = CodecOfName(OrElse(h.zcmptype, "none")),
           NEW mask, mask = CodecOfName(OrElse(h.zmaskcmp, "none")),
           NEW shape, shape = HeaderTileShape(h.ztile, image.shape),
           NEW fitted, fitted = Fitted2(OrElse(named, GzipPlain), image.shape, shape.tiles),
           NEW decoder, decoder = NewDecoder(h, image, fitted.codec),
           NEW tiled, tiled = TiledImage(h), tiled.error = "none"
    PROVE  /\ named # {} /\ fitted.ok /\ decoder.error = "none"
           /\ h.naxis2 = NTiles(tiled.geometry)
           /\ tiled.image = image /\ tiled.decoder = decoder /\ tiled.maskCodec = mask
           /\ tiled.header = h
BY DEF TiledImage, With, Refused

LEMMA TiledImageHas ==
    ASSUME NEW h, TypedHeader(h), NEW tiled, tiled = TiledImage(h), tiled.error = "none"
    PROVE  /\ IsGrid(tiled.geometry) /\ tiled.geometry.dims = tiled.image.shape
           /\ tiled.image.bitpix \in Bitpixes
           /\ tiled.decoder.codec.kind \in CodecKinds /\ tiled.decoder.intWidth \in ElementSizes
           /\ \A c, d \in tiled.maskCodec : IsCodec(c) /\ c.kind = d.kind
           /\ h.naxis2 = NTiles(tiled.geometry)
<1>1. PICK image : image = CompressedGeometry(h)
  OBVIOUS
<1>2. PICK named : named = CodecOfName(OrElse(h.zcmptype, "none"))
  OBVIOUS
<1>3. PICK mask : mask = CodecOfName(OrElse(h.zmaskcmp, "none"))
  OBVIOUS
<1>4. PICK shape : shape = HeaderTileShape(h.ztile, image.shape)
  OBVIOUS
<1>5. PICK fitted : fitted = Fitted2(OrElse(named, GzipPlain), image.shape, shape.tiles)
  OBVIOUS
<1>6. PICK decoder : decoder = NewDecoder(h, image, fitted.codec)
  OBVIOUS
<1>7. /\ named # {} /\ fitted.ok /\ decoder.error = "none"
      /\ h.naxis2 = NTiles(tiled.geometry)
      /\ tiled.image = image /\ tiled.decoder = decoder /\ tiled.maskCodec = mask
  BY <1>1, <1>2, <1>3, <1>4, <1>5, <1>6, TiledImageParts
<1>8. IsGrid(tiled.geometry) /\ tiled.geometry.dims = tiled.image.shape /\ tiled.image.bitpix \in Bitpixes
  BY TiledImageIs
<1>9. PICK codec : codec = OrElse(named, GzipPlain)
  OBVIOUS
<1>10. codec \in named
  BY <1>7, <1>9 DEF OrElse
<1>11. IsCodec(codec)
  BY <1>2, <1>10, CodecsNamed
<1>12. IsCodec(fitted.codec)
  BY <1>5, <1>7, <1>9, <1>11, FittedIs
<1>13. IsCodec(decoder.codec) /\ decoder.intWidth \in ElementSizes
  BY <1>6, <1>7, <1>8, <1>12, NewDecoderIs
<1>14. \A c, d \in mask : IsCodec(c) /\ c.kind = d.kind
  BY <1>3, CodecsNamed
<1> QED BY <1>7, <1>8, <1>13, <1>14 DEF IsCodec

LEMMA PlanIs ==
    ASSUME NEW h, TypedHeader(h), NEW tiled, tiled = TiledImage(h), tiled.error = "none",
           NEW columns, NEW index,
           NEW plan, plan = PlanOf(tiled, columns, index), plan.error = "none"
    PROVE  IsPlan(plan) /\ plan.tiled = tiled /\ plan.columns = columns
<1> DEFINE float == IsFloat(tiled.image.bitpix)
           blank == tiled.image.scaling.blank
           scaled == h.zscale \cup h.zzero # {} \/ index.zscale # {} \/ index.zzero # {}
           quantization ==
               FloatQuantization(OrElse(h.zquantiz, "None"), OrElse(h.zdither0, 1), scaled,
                                 StoresLosslessFloats(tiled.decoder.codec))
           zblank(t) == TileValueAt(h.zblank, index.zblank, IF float THEN {} ELSE blank, t)
           encoding == [t \in 1..NTiles(tiled.geometry) |->
                IF ~float \/ quantization = "Lossless" THEN {}
                ELSE {DequantOf(OrElse(h.zquantiz, "None"), OrElse(h.zdither0, 1),
                                TileValueAt(h.zscale, index.zscale, {}, t - 1),
                                TileValueAt(h.zzero, index.zzero, {}, t - 1),
                                zblank(t - 1), t - 1)}]
           stored == [t \in 1..NTiles(tiled.geometry) |-> IF float THEN {} ELSE zblank(t - 1)]
           hmask == columns.mask # {} /\ \E c \in tiled.maskCodec : c.kind = "Hcompress"
<1>1. plan.tiled = tiled
  BY PlanIsOf
<1>2. quantization # "none"
  BY DEF FloatQuantization
<1>3. tiled.header = h
  BY TiledImageParts
<1>4. plan = IF float /\ quantization \notin {"Lossless", "Quantized"} THEN Refused(quantization)
             ELSE IF hmask THEN Refused("HcompressNullMask")
             ELSE [error |-> "none", tiled |-> tiled, columns |-> columns,
                   lossless |-> float /\ quantization = "Lossless", blank |-> blank,
                   stored |-> stored, encoding |-> encoding,
                   maskCodec |-> MaskCodec(tiled.maskCodec)]
  BY <1>3 DEF PlanOf
<1>5. \A t \in 1..NTiles(tiled.geometry) : encoding[t] = {} <=> (~float \/ quantization = "Lossless")
  OBVIOUS
<1> HIDE DEF quantization, encoding, stored, hmask, float
<1>6. /\ plan.columns = columns /\ plan.encoding = encoding /\ plan.maskCodec = MaskCodec(tiled.maskCodec)
      /\ plan.lossless <=> (float /\ quantization = "Lossless")
  <2>1. ~(float /\ quantization \notin {"Lossless", "Quantized"}) /\ ~hmask
    BY <1>2, <1>4 DEF Refused
  <2>2. PICK lossless \in BOOLEAN : lossless <=> (float /\ quantization = "Lossless")
    OBVIOUS
  <2>3. lossless = (float /\ quantization = "Lossless")
    BY <2>2
  <2>4. plan = [error |-> "none", tiled |-> tiled, columns |-> columns, lossless |-> lossless,
                blank |-> blank, stored |-> stored, encoding |-> encoding,
                maskCodec |-> MaskCodec(tiled.maskCodec)]
    BY <1>4, <2>1, <2>3, Zenon
  <2> QED BY <2>2, <2>4
<1>7. /\ IsGrid(tiled.geometry) /\ tiled.image.bitpix \in Bitpixes
      /\ tiled.decoder.codec.kind \in CodecKinds /\ tiled.decoder.intWidth \in ElementSizes
      /\ \A c, d \in tiled.maskCodec : IsCodec(c) /\ c.kind = d.kind
  BY TiledImageHas
<1>8. \A c, d \in plan.maskCodec : c.kind \in CodecKinds /\ c.kind = d.kind
  <2>1. ASSUME NEW c \in plan.maskCodec PROVE \E d \in tiled.maskCodec : c.kind = d.kind
    <3>1. PICK d \in tiled.maskCodec : c = IF d.kind = "Rice" THEN [d EXCEPT !.bytepix = 1] ELSE d
      BY <1>6 DEF MaskCodec
    <3>2. PICK e : e = [d EXCEPT !.bytepix = 1]
      OBVIOUS
    <3>3. "kind" \in DOMAIN d
      BY <1>7 DEF IsCodec
    <3>4. e.kind = d.kind
      BY <3>2, <3>3
    <3> QED BY <3>1, <3>2, <3>4
  <2> QED BY <1>7, <2>1 DEF IsCodec
<1>9. IsFloat(plan.tiled.image.bitpix) <=> float
  BY <1>1 DEF float
<1> QED BY <1>1, <1>5, <1>6, <1>7, <1>8, <1>9 DEF IsPlan

-----------------------------------------------------------------------------
(* The tiles of a read are tiles of the grid. *)

\* A region that has a sample is one of a grid of tiles, and has one on every axis.
LEMMA RegionHasTiles ==
    ASSUME NEW g, IsGrid(g), NEW region, TypedRegion(region),
           NEW ranges, ranges = RangesIn(g.dims, region),
           RegionError(ranges, g.dims) = "none", ShapeProduct(RegionShape(ranges)) # 0
    PROVE  HasTiles(g) /\ (region.kind = "Section" => IsSection(g, ranges))
<1> DEFINE n == Len(g.dims)
           shape == RegionShape(ranges)
<1>1. n \in Nat /\ DOMAIN g.dims = 1..n /\ \A i \in 1..n : g.dims[i] \in Nat
  BY DEF IsGrid
<1>2. CASE region.kind = "Section"
  <2>1. ranges \in Seq([lo : Nat, hi : Nat]) /\ Len(ranges) = n /\ DOMAIN ranges = 1..n
    BY <1>2 DEF RangesIn, TypedRegion, RegionError
  <2>2. \A i \in 1..n : ranges[i].lo \in Nat /\ ranges[i].hi \in Nat
    <3>1. \A i \in 1..n : ranges[i] \in [lo : Nat, hi : Nat]
      BY <2>1, ElementOfSeq
    <3> QED BY <3>1
  <2>3. \A i \in 1..n : ranges[i].lo <= ranges[i].hi /\ ranges[i].hi <= g.dims[i]
    BY <1>1, <2>2, SMTT(30) DEF RegionError
  <2>4. DOMAIN shape = 1..n /\ \A i \in 1..n : shape[i] = ranges[i].hi - ranges[i].lo
    BY <2>1 DEF RegionShape
  <2>5. \A i \in 1..n : shape[i] \in Nat
    BY <2>2, <2>3, <2>4
  <2> HIDE DEF shape
  <2>6. shape # <<>> /\ Product(shape) # 0
    BY DEF ShapeProduct, shape
  <2>7. \A i \in 1..n : shape[i] # 0
    BY <1>1, <2>4, <2>5, <2>6, ProductZero
  <2>8. n # 0
    <3>1. SUFFICES ASSUME n = 0 PROVE FALSE
      OBVIOUS
    <3>2. shape = [i \in 1..0 |-> ranges[i].hi - ranges[i].lo]
      BY <2>1, <3>1 DEF shape, RegionShape
    <3> QED BY <2>6, <3>2
  <2>9. \A i \in 1..n : ranges[i].lo < ranges[i].hi /\ g.dims[i] > 0
    <3>1. SUFFICES ASSUME NEW i \in 1..n PROVE ranges[i].lo < ranges[i].hi /\ g.dims[i] > 0
      OBVIOUS
    <3>2. PICK lo, hi, dim \in Nat : lo = ranges[i].lo /\ hi = ranges[i].hi /\ dim = g.dims[i]
      BY <1>1, <2>2
    <3>3. lo <= hi /\ hi <= dim
      BY <2>3, <3>2
    <3>4. hi - lo # 0
      BY <2>4, <2>7, <3>2
    <3> QED BY <3>2, <3>3, <3>4
  <2> QED BY <1>1, <2>1, <2>3, <2>8, <2>9 DEF HasTiles, IsSection
<1>3. CASE region.kind # "Section"
  <2>1. g.dims \in Seq(Nat)
    BY DEF IsGrid
  <2>2. \A i \in 1..n : g.dims[i] > 0
    BY <1>3, <2>1, WholeHasAxes
  <2>3. n # 0
    <3>1. SUFFICES ASSUME n = 0 PROVE FALSE
      OBVIOUS
    <3>2. DOMAIN ranges = 1..0
      BY <1>1, <1>3, <3>1 DEF RangesIn
    <3>3. shape = <<>>
      BY <3>2 DEF RegionShape
    <3> QED BY <3>3 DEF ShapeProduct
  <2> QED BY <1>1, <1>3, <2>2, <2>3 DEF HasTiles
<1> QED BY <1>2, <1>3

\* A region without a sample touches no tile.
LEMMA NoTilesTouched ==
    ASSUME NEW g, IsGrid(g), NEW region, TypedRegion(region),
           NEW ranges, ranges = RangesIn(g.dims, region),
           RegionError(ranges, g.dims) = "none", ShapeProduct(RegionShape(ranges)) = 0
    PROVE  IF region.kind = "Section" THEN TileCount(ranges, g.tiles) = 0 ELSE NTiles(g) = 0
<1> DEFINE n == Len(g.dims)
           shape == RegionShape(ranges)
<1>1. n \in Nat /\ DOMAIN g.dims = 1..n /\ \A i \in 1..n : g.dims[i] \in Nat
  BY DEF IsGrid
<1>2. CASE region.kind = "Section"
  <2>1. SUFFICES ASSUME ranges # <<>>, \A i \in DOMAIN ranges : ~EmptyRange(ranges[i])
                 PROVE  FALSE
    BY <1>2 DEF TileCount
  <2>2. ranges \in Seq([lo : Nat, hi : Nat]) /\ Len(ranges) = n /\ DOMAIN ranges = 1..n
    BY <1>2 DEF RangesIn, TypedRegion, RegionError
  <2>3. \A i \in 1..n : ranges[i].lo \in Nat /\ ranges[i].hi \in Nat /\ ranges[i].lo < ranges[i].hi
    <3>1. \A i \in 1..n : ranges[i] \in [lo : Nat, hi : Nat]
      BY <2>2, ElementOfSeq
    <3> QED BY <2>1, <2>2, <3>1 DEF EmptyRange
  <2>4. DOMAIN shape = 1..n /\ \A i \in 1..n : shape[i] = ranges[i].hi - ranges[i].lo
    BY <2>2 DEF RegionShape
  <2>5. \A i \in 1..n : shape[i] \in Nat \ {0}
    <3>1. SUFFICES ASSUME NEW i \in 1..n PROVE shape[i] \in Nat \ {0}
      OBVIOUS
    <3>2. PICK lo, hi \in Nat : lo = ranges[i].lo /\ hi = ranges[i].hi /\ lo < hi
      BY <2>3
    <3>3. shape[i] = hi - lo
      BY <2>4, <3>2
    <3> QED BY <3>2, <3>3
  <2>6. shape # <<>>
    <3>1. n # 0
      BY <2>1, <2>2
    <3>2. 1 \in DOMAIN shape /\ 1 \notin DOMAIN <<>>
      BY <1>1, <2>4, <3>1
    <3> QED BY <3>2
  <2> HIDE DEF shape
  <2>7. Product(shape) \in Nat \ {0}
    BY <1>1, <2>4, <2>5, ProductIs
  <2> QED BY <2>6, <2>7 DEF ShapeProduct, shape
<1>3. CASE region.kind # "Section"
  <2>1. SUFFICES ASSUME g.dims # <<>> PROVE NTiles(g) = 0
    BY <1>3 DEF NTiles
  <2>2. DOMAIN shape = 1..n /\ \A i \in 1..n : shape[i] = g.dims[i] - 0
    BY <1>1, <1>3 DEF RangesIn, RegionShape
  <2>3. \A i \in 1..n : shape[i] = g.dims[i]
    BY <1>1, <2>2
  <2>4. n # 0
    BY <2>1 DEF IsGrid
  <2>5. shape # <<>>
    <3>1. 1 \in DOMAIN shape /\ 1 \notin DOMAIN <<>>
      BY <1>1, <2>2, <2>4
    <3> QED BY <3>1
  <2> HIDE DEF shape
  <2>6. Product(shape) = 0
    BY <2>5 DEF ShapeProduct, shape
  <2>7. PICK i \in 1..n : g.dims[i] = 0
    <3>1. SUFFICES ASSUME \A i \in 1..n : g.dims[i] # 0 PROVE FALSE
      OBVIOUS
    <3>2. \A i \in 1..n : shape[i] \in Nat \ {0}
      BY <1>1, <2>3, <3>1
    <3>3. Product(shape) \in Nat \ {0}
      BY <1>1, <2>2, <3>2, ProductIs
    <3> QED BY <2>6, <3>3
  <2>8. g.ntilesAxis[i] = CeilDiv(0, g.tiles[i]) /\ g.tiles[i] \in Nat \ {0}
    BY <1>1, <2>7 DEF IsGrid, NewGeometry
  <2>9. g.ntilesAxis[i] = 0
    BY <2>8, DivisionBelow
  <2>10. g.ntilesAxis \in Seq(Nat) /\ Len(g.ntilesAxis) = n
    BY GridAxes
  <2>11. Product(g.ntilesAxis) = 0
    <3>1. DOMAIN g.ntilesAxis = 1..n /\ \A k \in 1..n : g.ntilesAxis[k] \in Nat
      BY <2>10
    <3> QED BY <1>1, <2>9, <3>1, ProductZero
  <2> QED BY <2>1, <2>11 DEF NTiles
<1> QED BY <1>2, <1>3

\* The tiles of a region, wherever it lies: those of the grid, none if it is empty.
LEMMA RegionRowsAre ==
    ASSUME NEW g, IsGrid(g), NEW region, TypedRegion(region),
           NEW ranges, ranges = RangesIn(g.dims, region), RegionError(ranges, g.dims) = "none",
           NEW rows, rows = IF region.kind = "Section" THEN SelectRows(g, ranges) ELSE Places(NTiles(g))
    PROVE  /\ IsSeq(rows) /\ Len(rows) \in Nat
           /\ ShapeProduct(RegionShape(ranges)) = 0 => Len(rows) = 0
           /\ ShapeProduct(RegionShape(ranges)) # 0 => InGrid(g, rows, Len(rows))
           /\ region.kind # "Section" => Len(rows) = NTiles(g) /\ \A i \in 1..Len(rows) : rows[i] = i - 1
<1>1. NTiles(g) \in Nat
  BY NTilesIs
<1>2. CASE region.kind = "Section"
  <2>1. ranges = region.ranges /\ region.ranges \in Seq([lo : Nat, hi : Nat]) /\ Len(ranges) = Len(g.dims)
    BY <1>2 DEF TypedRegion, RegionError, RangesIn
  <2>2. g.tiles \in Seq(Nat \ {0}) /\ Len(g.tiles) = Len(ranges)
    BY <2>1 DEF IsGrid
  <2>3. PICK n \in Nat : n = TileCount(ranges, g.tiles)
    BY <2>1, <2>2, TileCountIs
  <2>4. IsSeq(rows) /\ Len(rows) = n /\ rows = SelectRows(g, ranges)
    BY <1>2, <2>3, SelectRowsIs
  <2>5. ShapeProduct(RegionShape(ranges)) = 0 => n = 0
    BY <1>2, <2>3, NoTilesTouched
  <2>6. ShapeProduct(RegionShape(ranges)) # 0 => InGrid(g, rows, n)
    BY <1>2, <2>3, <2>4, RegionHasTiles, SelectedInGrid
  <2> QED BY <1>2, <2>4, <2>5, <2>6
<1>3. CASE region.kind # "Section"
  <2>1. rows = Places(NTiles(g)) /\ IsSeq(rows) /\ Len(rows) = NTiles(g)
    BY <1>1, <1>3, PlacesIs
  <2>2. \A i \in 1..NTiles(g) : rows[i] = i - 1 /\ i - 1 \in Nat /\ i - 1 < NTiles(g)
    BY <1>1, <2>1 DEF Places
  <2>3. InGrid(g, rows, Len(rows))
    BY <2>1, <2>2 DEF InGrid
  <2>4. ShapeProduct(RegionShape(ranges)) = 0 => NTiles(g) = 0
    BY <1>3, NoTilesTouched
  <2> QED BY <1>1, <1>3, <2>1, <2>2, <2>3, <2>4
<1> QED BY <1>2, <1>3

-----------------------------------------------------------------------------
(* The cells of a table, and of a copy of some of its rows. *)

LEMMA NoCopyIs == IsCopy(NoCopy) /\ NoCopy.error = "none" /\ NoCopy.rows = <<>>
<1>1. <<>> \in Seq(Nat) /\ Len(<<>>) = 0
  OBVIOUS
<1>2. IsSeq(<<>>)
  BY <1>1, SeqIsSeq
<1>3. UsizeMax \in Nat
  BY DescriptorAssumption
<1>4. NoCopy.heap = <<>> /\ NoCopy.len = 0 /\ NoCopy.error = "none" /\ NoCopy.rows = <<>>
      /\ NoCopy = [f \in {"error", "out", "rows", "heap", "len"} |-> NoCopy[f]]
  BY DEF NoCopy
<1> QED BY <1>1, <1>2, <1>3, <1>4 DEF IsCopy

-----------------------------------------------------------------------------
(* The copy of the rows of a section. *)

LEMMA CopyCellIs ==
    ASSUME NEW table, NEW r, NEW s, IsCopy(s), s.error = "none",
           NEW name, name \in DOMAIN s.out, table.columns[name] # {},
           NEW kind \in ElementKinds, kind = OrElse(table.columns[name], "U8"),
           NEW d, d = table.rows[r + 1][name], d.count \in Nat, d.offset \in Nat,
           NEW x, x = CopyCell(table, r, s, name), x.error = "none"
    PROVE  CellCopied(s, x, name, kind, d.count, VlaCell(table, name, r))
<1>1. PICK cell : cell = VlaCell(table, name, r)
  OBVIOUS
<1>2. PICK len : len = OrElse(PayloadLen(kind, d.count), 0)
  OBVIOUS
<1>3. x = IF cell.error # "none" THEN [s EXCEPT !.error = cell.error]
          ELSE IF s.len + len > UsizeMax THEN [s EXCEPT !.error = "DataUnitOverflow"]
          ELSE Copied(s, name, d.count, len, cell.stream)
  BY <1>1, <1>2 DEF CopyCell, Copied, With
<1>4. s = [f \in {"error", "out", "rows", "heap", "len"} |-> s[f]]
  BY DEF IsCopy
<1>5. cell.error = "none" /\ ~(s.len + len > UsizeMax) /\ x = Copied(s, name, d.count, len, cell.stream)
  <2>1. \A e : [s EXCEPT !.error = e].error = e
    BY <1>4
  <2> QED BY <1>3, <2>1
<1>6. PICK size \in Nat :
                /\ PayloadLen(kind, d.count) = {size} /\ (size = 0 <=> d.count = 0)
                /\ d.count = 0 => cell = CellOf(kind, 0, <<>>)
                /\ d.count > 0 => \E k \in StoredAt(table.heap, d.offset, size) :
                                    cell = CellOf(kind, d.count, table.heap[k].stream)
  <2>1. cell.error = "none"
    BY <1>5
  <2>2. StoredCell(table, d, kind, cell)
    BY <1>1, <2>1, VlaCellIs
  <2> QED BY <2>2 DEF StoredCell
<1>7. len = size
  BY <1>2, <1>6 DEF OrElse
<1>8. s.len \in Nat /\ UsizeMax \in Nat /\ s.len + size <= UsizeMax
  BY <1>5, <1>6, <1>7, DescriptorAssumption DEF IsCopy
<1>9. PICK place : place = [count |-> d.count, offset |-> s.len]
  OBVIOUS
<1>10. /\ x = [f \in {"error", "out", "rows", "heap", "len"} |-> x[f]]
       /\ x.error = s.error /\ x.rows = s.rows /\ x.len = s.len + size
       /\ x.heap = IF size = 0 THEN s.heap
                           ELSE Append(s.heap, [at |-> s.len, len |-> size, stream |-> cell.stream])
       /\ x.out = [s.out EXCEPT ![name] = place]
  BY <1>5, <1>7, <1>9, CopiedIs
<1>11. x.out[name] = place /\ place.count = d.count /\ place.offset = s.len
  BY <1>9, <1>10
<1>12. CASE size = 0
  <2>1. x.heap = s.heap /\ x.len = s.len
    BY <1>8, <1>10, <1>12
  <2>2. IsCopy(x) /\ Grows(s, x)
    <3>1. Len(s.heap) \in Nat
      BY DEF IsCopy, IsSeq
    <3>2. x.len \in Nat /\ x.len <= UsizeMax
      BY <1>8, <2>1 DEF IsCopy
    <3>3. IsCopy(x)
      BY <1>10, <2>1, <3>2 DEF IsCopy
    <3>4. s.len <= x.len /\ Len(s.heap) <= Len(x.heap)
      BY <1>8, <2>1, <3>1
    <3>5. \A k \in 1..Len(s.heap) : x.heap[k] = s.heap[k]
      BY <2>1
    <3> QED BY <3>3, <3>4, <3>5 DEF Grows
  <2>3. Reads(x, kind, place, cell)
    BY <1>6, <1>8, <1>11, <1>12 DEF Reads
  <2> QED BY <1>1, <1>9, <1>10, <1>11, <2>2, <2>3 DEF CellCopied
<1>13. CASE size # 0
  <2>1. PICK piece : piece = [at |-> s.len, len |-> size, stream |-> cell.stream]
    OBVIOUS
  <2>2. x.heap = Append(s.heap, piece)
    BY <1>10, <1>13, <2>1
  <2>3. /\ IsCopy(x) /\ Grows(s, x)
        /\ Len(s.heap) + 1 \in 1..Len(x.heap) /\ x.heap[Len(s.heap) + 1] = piece
    BY <1>8, <1>10, <1>13, <2>1, <2>2, AppendCopy
  <2>4. cell = CellOf(kind, d.count, cell.stream) /\ d.count > 0
    <3>1. PICK k \in StoredAt(table.heap, d.offset, size) :
                cell = CellOf(kind, d.count, table.heap[k].stream)
      BY <1>6, <1>13
    <3>2. cell.stream = table.heap[k].stream
      BY <3>1 DEF CellOf
    <3> QED BY <1>6, <1>13, <3>1, <3>2
  <2>5. PICK k \in 1..Len(x.heap) :
            x.heap[k].at = place.offset /\ x.heap[k].len = size /\ x.heap[k].stream = cell.stream
    BY <1>11, <2>1, <2>3
  <2>6. place.offset + size <= x.len
    BY <1>8, <1>10, <1>11
  <2>7. Reads(x, kind, place, cell)
    BY <1>6, <1>8, <1>11, <1>13, <2>4, <2>5, <2>6 DEF Reads
  <2> QED BY <1>1, <1>9, <1>10, <1>11, <2>3, <2>7 DEF CellCopied
<1> QED BY <1>12, <1>13

\* A column the table has not, and a copy that failed, are left alone.
LEMMA CopyCellSkips ==
    ASSUME NEW table, NEW r, NEW s, NEW name, table.columns[name] = {} \/ s.error # "none"
    PROVE  CopyCell(table, r, s, name) = s
BY DEF CopyCell, With

CellStep(c, a, name) == CopyCell(c[1], c[2], a, name)

RowCells == INSTANCE Folding WITH Step <- CellStep, Kept <- CellsCopied

LEMMA RowCellsOrdered == RowCells!WellOrdered
BY LeastMember DEF RowCells!WellOrdered

LEMMA CopyCellState ==
    ASSUME NEW table, NEW r, NEW a, IsState(a), NEW name
    PROVE  IsState(CopyCell(table, r, a, name))
<1>1. PICK x : x = CopyCell(table, r, a, name)
  OBVIOUS
<1>2. PICK cell : cell = VlaCell(table, name, r)
  OBVIOUS
<1>3. PICK len : len = OrElse(PayloadLen(OrElse(table.columns[name], "U8"), table.rows[r + 1][name].count), 0)
  OBVIOUS
<1>4. PICK count : count = table.rows[r + 1][name].count
  OBVIOUS
<1>5. x = IF table.columns[name] = {} \/ a.error # "none" THEN a
          ELSE IF cell.error # "none" THEN [a EXCEPT !.error = cell.error]
          ELSE IF a.len + len > UsizeMax THEN [a EXCEPT !.error = "DataUnitOverflow"]
          ELSE Copied(a, name, count, len, cell.stream)
  BY <1>1, <1>2, <1>3, <1>4 DEF CopyCell, Copied, With
<1>6. \A e : IsState([a EXCEPT !.error = e])
  BY DEF IsState
<1>7. IsState(Copied(a, name, count, len, cell.stream))
  <2>1. PICK h, o, n : Copied(a, name, count, len, cell.stream) = [a EXCEPT !.heap = h, !.out = o, !.len = n]
    BY DEF Copied
  <2> QED BY <2>1 DEF IsState
<1> QED BY <1>1, <1>5, <1>6, <1>7

\* One more cell of a row.
LEMMA CellStepKeeps ==
    ASSUME NEW table, NEW r, TypedRow(table, r), NEW s, s.out = table.rows[r + 1],
           NEW k \in 1..4, NEW a, CellsCopied(<<table, r, s>>, VlaColumns, k - 1, a)
    PROVE  CellsCopied(<<table, r, s>>, VlaColumns, k, CopyCell(table, r, a, VlaColumns[k]))
<1>1. PICK c : c = <<table, r, s>>
  OBVIOUS
<1>2. c[1] = table /\ c[2] = r /\ c[3] = s
  BY <1>1
<1>3. PICK name : name = VlaColumns[k]
  OBVIOUS
<1>4. name \in VlaNames /\ \A i \in 1..k - 1 : VlaColumns[i] # name
  BY <1>3 DEF VlaNames, VlaColumns
<1>5. PICK x : x = CopyCell(table, r, a, name)
  OBVIOUS
<1>0. IsState(x)
  BY <1>5, CopyCellState DEF CellsCopied
<1>6. SUFFICES ASSUME x.error = "none" PROVE CellsCopied(c, VlaColumns, k, x)
  BY <1>0, <1>1, <1>3, <1>5 DEF CellsCopied
<1>7. a.error = "none"
  BY <1>5, <1>6, CopyCellSkips
<1>8. /\ s.error = "none" /\ IsCopy(s) /\ IsCopy(a) /\ Grows(s, a)
      /\ a.rows = s.rows /\ DOMAIN a.out = DOMAIN s.out
      /\ \A i \in 1..k - 1 : table.columns[VlaColumns[i]] # {} =>
            Reads(a, KindOf(table, VlaColumns[i]), a.out[VlaColumns[i]], VlaCell(table, VlaColumns[i], r))
  BY <1>1, <1>2, <1>7 DEF CellsCopied
<1>9. CASE table.columns[name] = {}
  <2>1. x = a
    BY <1>5, <1>9, CopyCellSkips
  <2>2. \A i \in 1..k : i = k \/ i \in 1..k - 1
    OBVIOUS
  <2> QED BY <1>0, <1>1, <1>2, <1>3, <1>8, <1>9, <2>1, <2>2 DEF CellsCopied
<1>10. CASE table.columns[name] # {}
  <2>1. PICK d : d = table.rows[r + 1][name]
    OBVIOUS
  <2>2. d.count \in Nat /\ d.offset \in Nat /\ name \in DOMAIN s.out
        /\ table.columns[name] \subseteq ElementKinds
    BY <1>4, <1>10, <2>1 DEF TypedRow
  <2>3. PICK kind \in ElementKinds : kind = KindOf(table, name)
    BY <1>10, <2>2 DEF KindOf, OrElse
  <2>4. /\ IsCopy(x) /\ Grows(a, x) /\ x.rows = a.rows
        /\ x.out = [a.out EXCEPT ![name] = [count |-> d.count, offset |-> a.len]]
        /\ Reads(x, kind, x.out[name], VlaCell(table, name, r))
    <3>1. name \in DOMAIN a.out /\ kind = OrElse(table.columns[name], "U8")
      BY <1>8, <2>2, <2>3 DEF KindOf
    <3>2. IsCopy(a) /\ a.error = "none" /\ x.error = "none"
      BY <1>6, <1>7, <1>8
    <3>3. d.count \in Nat /\ d.offset \in Nat
      BY <2>2
    <3>4. CellCopied(a, x, name, kind, d.count, VlaCell(table, name, r))
      BY <1>5, <1>10, <2>1, <3>1, <3>2, <3>3, CopyCellIs
    <3> QED BY <3>4 DEF CellCopied
  <2>5. Grows(s, x)
    BY <1>8, <2>4, GrowsOn
  <2>6. DOMAIN x.out = DOMAIN s.out
    BY <1>8, <2>4
  <2>7. ASSUME NEW i \in 1..k, table.columns[VlaColumns[i]] # {}
        PROVE  Reads(x, KindOf(table, VlaColumns[i]), x.out[VlaColumns[i]], VlaCell(table, VlaColumns[i], r))
    <3>1. CASE i = k
      BY <1>3, <2>3, <2>4, <3>1
    <3>2. CASE i \in 1..k - 1
      <4>1. x.out[VlaColumns[i]] = a.out[VlaColumns[i]]
        <5>1. VlaColumns[i] # name
          BY <1>4, <3>2
        <5>2. VlaColumns[i] \in DOMAIN a.out
          <6>1. VlaColumns[i] \in VlaNames
            BY <3>2 DEF VlaColumns, VlaNames
          <6> QED BY <1>8, <2>7, <6>1 DEF TypedRow
        <5>3. \A f, other, v : other \in DOMAIN f /\ other # name => ([f EXCEPT ![name] = v])[other] = f[other]
          OBVIOUS
        <5> QED BY <2>4, <5>1, <5>2, <5>3
      <4>2. Reads(a, KindOf(table, VlaColumns[i]), a.out[VlaColumns[i]], VlaCell(table, VlaColumns[i], r))
        BY <1>8, <2>7, <3>2
      <4>3. Reads(x, KindOf(table, VlaColumns[i]), a.out[VlaColumns[i]], VlaCell(table, VlaColumns[i], r))
        BY <1>8, <2>4, <4>2, GrowsOn
      <4> QED BY <4>1, <4>3
    <3> QED BY <3>1, <3>2
  <2> QED BY <1>0, <1>1, <1>2, <1>8, <2>4, <2>5, <2>6, <2>7 DEF CellsCopied
<1> QED BY <1>9, <1>10

LEMMA CopyRowIs ==
    ASSUME NEW table, NEW r, TypedRow(table, r), NEW s, IsState(s), s.error = "none" => IsCopy(s),
           NEW x, x = CopyRow(table, s, r)
    PROVE  IsState(x) /\ (x.error = "none" => RowCopied(table, r, s, x))
<1> DEFINE base == [s EXCEPT !.out = table.rows[r + 1]]
<1>1. PICK c : c = <<table, r, base>>
  OBVIOUS
<1> DEFINE done == RowCells!Fold(c, base, VlaColumns)
<1>2. x = [done EXCEPT !.rows = Append(@, done.out)]
  BY <1>1 DEF CopyRow, With, RowCells!Fold, CellStep, FoldLeft, MapThenFoldSet, Max,
         RowCells!Greatest
<1>3. IsState(base) /\ base.error = s.error /\ base.out = table.rows[r + 1]
      /\ base.rows = s.rows /\ base.heap = s.heap /\ base.len = s.len
  <2>1. PICK row : row = table.rows[r + 1]
    OBVIOUS
  <2>2. base = [s EXCEPT !.out = row]
    BY <2>1
  <2> HIDE DEF base
  <2> QED BY <2>1, <2>2 DEF IsState
<1>4. DOMAIN VlaColumns = 1..4
  BY DEF VlaColumns
<1> HIDE DEF base
<1>5. ASSUME base.error = "none" PROVE IsCopy(base) /\ Grows(s, base)
  <2>2. IsCopy(s)
    BY <1>3, <1>5
  <2>3. IsCopy(base)
    BY <1>3, <2>2 DEF IsCopy, IsState
  <2>4. Grows(s, s)
    BY <2>2, GrowsSelf
  <2> QED BY <1>3, <2>3, <2>4 DEF Grows
<1>6. CellsCopied(c, VlaColumns, 0, base)
  <2>1. c[3] = base /\ 1..0 = {}
    BY <1>1
  <2>2. base.error = "none" => IsCopy(base) /\ Grows(base, base)
    BY <1>5, GrowsSelf
  <2> QED BY <1>3, <2>1, <2>2 DEF CellsCopied
<1>7. ASSUME NEW k \in 1..4, NEW a, CellsCopied(c, VlaColumns, k - 1, a)
      PROVE  CellsCopied(c, VlaColumns, k, CellStep(c, a, VlaColumns[k]))
  <2>1. CellStep(c, a, VlaColumns[k]) = CopyCell(table, r, a, VlaColumns[k])
    BY <1>1 DEF CellStep
  <2> QED BY <1>1, <1>3, <1>7, <2>1, CellStepKeeps
<1>8. CellsCopied(c, VlaColumns, 4, done)
  <2> HIDE DEF done
  <2>1. CellsCopied(c, VlaColumns, 4, RowCells!Fold(c, base, VlaColumns))
    BY <1>4, <1>6, <1>7, RowCellsOrdered, RowCells!FoldKeeps
  <2> QED BY <2>1 DEF done
<1> HIDE DEF done
<1>9. IsState(done)
  BY <1>8 DEF CellsCopied
<1>10. /\ IsState(x) /\ x.error = done.error /\ x.out = done.out /\ x.heap = done.heap /\ x.len = done.len
       /\ x.rows = Append(done.rows, done.out)
  <2>1. PICK row : row = Append(done.rows, done.out)
    OBVIOUS
  <2>2. x = [done EXCEPT !.rows = row]
    BY <1>2, <2>1
  <2> QED BY <1>9, <2>1, <2>2 DEF IsState
<1>11. ASSUME x.error = "none" PROVE RowCopied(table, r, s, x)
  <2>1. /\ base.error = "none" /\ IsCopy(done) /\ Grows(base, done) /\ done.rows = s.rows
        /\ \A i \in 1..4 : table.columns[VlaColumns[i]] # {} =>
            Reads(done, KindOf(table, VlaColumns[i]), done.out[VlaColumns[i]], VlaCell(table, VlaColumns[i], r))
    BY <1>1, <1>3, <1>8, <1>10, <1>11 DEF CellsCopied
  <2>2. IsCopy(x) /\ Grows(done, x)
    <3>1. IsCopy(x)
      BY <1>10, <2>1 DEF IsCopy, IsState
    <3>2. Grows(done, done)
      BY <2>1, GrowsSelf
    <3> QED BY <1>10, <3>1, <3>2 DEF Grows
  <2>3. Grows(s, x)
    <3>1. IsCopy(base) /\ Grows(s, base)
      BY <1>5, <2>1
    <3>2. Grows(base, x)
      BY <2>1, <2>2, <3>1, GrowsOn
    <3>3. IsCopy(s)
      BY <1>3, <2>1
    <3> QED BY <2>2, <3>1, <3>2, <3>3, GrowsOn
  <2>4. ASSUME NEW name \in VlaNames, table.columns[name] # {}
        PROVE  Reads(x, KindOf(table, name), x.out[name], VlaCell(table, name, r))
    <3>1. PICK i \in 1..4 : VlaColumns[i] = name
      BY DEF VlaNames, VlaColumns
    <3>2. Reads(done, KindOf(table, name), done.out[name], VlaCell(table, name, r))
      BY <2>1, <2>4, <3>1
    <3>3. Reads(x, KindOf(table, name), done.out[name], VlaCell(table, name, r))
      BY <2>1, <2>2, <3>2, GrowsOn
    <3> QED BY <1>10, <3>3
  <2>5. RowRead(table, r, x, x.out)
    BY <2>4 DEF RowRead
  <2>6. s.error = "none" /\ x.rows = Append(s.rows, x.out)
    BY <1>3, <1>10, <2>1
  <2> QED BY <2>2, <2>3, <2>5, <2>6 DEF RowCopied
<1> QED BY <1>10, <1>11

RowStep(c, s, r) == CopyRow(c, s, r)

RowFolds == INSTANCE Folding WITH Step <- RowStep, Kept <- RowsCopied

LEMMA RowFoldsOrdered == RowFolds!WellOrdered
BY LeastMember DEF RowFolds!WellOrdered

\* One more row.
LEMMA RowStepKeeps ==
    ASSUME NEW table, NEW rows, NEW k \in Nat \ {0}, TypedRow(table, rows[k]),
           NEW s, RowsCopied(table, rows, k - 1, s)
    PROVE  RowsCopied(table, rows, k, CopyRow(table, s, rows[k]))
<1>1. PICK r : r = rows[k]
  OBVIOUS
<1>2. PICK x : x = CopyRow(table, s, r)
  OBVIOUS
<1>3. IsState(s) /\ (s.error = "none" => IsCopy(s))
  BY DEF RowsCopied
<1>4. IsState(x) /\ (x.error = "none" => RowCopied(table, r, s, x))
  BY <1>1, <1>2, <1>3, CopyRowIs
<1>5. ASSUME x.error = "none"
      PROVE  /\ IsCopy(x) /\ IsSeq(x.rows) /\ Len(x.rows) = k
             /\ \A i \in 1..k : RowRead(table, rows[i], x, x.rows[i])
  <2>1. /\ s.error = "none" /\ IsCopy(x) /\ Grows(s, x)
        /\ x.rows = Append(s.rows, x.out) /\ RowRead(table, r, x, x.out)
    BY <1>4, <1>5 DEF RowCopied
  <2>2. /\ IsCopy(s) /\ IsSeq(s.rows) /\ Len(s.rows) = k - 1
        /\ \A i \in 1..k - 1 : RowRead(table, rows[i], s, s.rows[i])
    BY <2>1 DEF RowsCopied
  <2>3. /\ IsSeq(x.rows) /\ Len(x.rows) = Len(s.rows) + 1
        /\ x.rows[Len(s.rows) + 1] = x.out /\ \A i \in 1..Len(s.rows) : x.rows[i] = s.rows[i]
    BY <2>1, <2>2, AppendIsSeq
  <2>4. Len(x.rows) = k /\ x.rows[k] = x.out /\ \A i \in 1..k - 1 : x.rows[i] = s.rows[i]
    BY <2>2, <2>3
  <2>5. ASSUME NEW i \in 1..k PROVE RowRead(table, rows[i], x, x.rows[i])
    <3>1. CASE i = k
      BY <1>1, <2>1, <2>4, <3>1
    <3>2. CASE i \in 1..k - 1
      <4>1. RowRead(table, rows[i], s, x.rows[i])
        BY <2>2, <2>4, <3>2
      <4>2. \A kind, d, cell : Reads(s, kind, d, cell) => Reads(x, kind, d, cell)
        BY <2>1, <2>2, GrowsOn
      <4> QED BY <4>1, <4>2 DEF RowRead
    <3> QED BY <3>1, <3>2
  <2> QED BY <2>1, <2>3, <2>4, <2>5
<1>6. RowsCopied(table, rows, k, x)
  BY <1>4, <1>5 DEF RowsCopied
<1> QED BY <1>1, <1>2, <1>6

\* What the copy's loop ends with.
CopyOf(table, rows, n, x) ==
    \E all : /\ RowsCopied(table, rows, n, all)
             /\ x.error = all.error /\ x.columns = table.columns
             /\ x.rows = all.rows /\ x.heap = all.heap /\ x.heapLen = all.len

LEMMA CompactTableIs ==
    ASSUME NEW table, NEW rows, NEW n \in Nat, DOMAIN rows = 1..n,
           \A i \in 1..n : TypedRow(table, rows[i]), NEW x, x = CompactTable(table, rows)
    PROVE  CopyOf(table, rows, n, x)
<1> DEFINE all == RowFolds!Fold(table, NoCopy, rows)
<1>1. x = [error |-> all.error, columns |-> table.columns, rows |-> all.rows, heap |-> all.heap,
           heapLen |-> all.len]
  BY DEF CompactTable, With, RowFolds!Fold, RowStep, FoldLeft, MapThenFoldSet, Max,
         RowFolds!Greatest
<1>2. RowsCopied(table, rows, 0, NoCopy)
  <2>1. IsState(NoCopy)
    BY DEF NoCopy, IsState
  <2>2. IsCopy(NoCopy) /\ NoCopy.rows = <<>>
    BY NoCopyIs
  <2>3. <<>> \in Seq(Nat) /\ Len(<<>>) = 0
    OBVIOUS
  <2>4. IsSeq(<<>>)
    BY <2>3, SeqIsSeq
  <2>5. 1..0 = {}
    OBVIOUS
  <2> QED BY <2>1, <2>2, <2>3, <2>4, <2>5 DEF RowsCopied
<1>3. ASSUME NEW k \in 1..n, NEW s, RowsCopied(table, rows, k - 1, s)
      PROVE  RowsCopied(table, rows, k, RowStep(table, s, rows[k]))
  <2>1. TypedRow(table, rows[k]) /\ k \in Nat \ {0}
    OBVIOUS
  <2> QED BY <1>3, <2>1, RowStepKeeps DEF RowStep
<1>4. RowsCopied(table, rows, n, all)
  BY <1>2, <1>3, RowFoldsOrdered, RowFolds!FoldKeeps
<1>5. /\ x.error = all.error /\ x.columns = table.columns
      /\ x.rows = all.rows /\ x.heap = all.heap /\ x.heapLen = all.len
  <2> HIDE DEF all
  <2> QED BY <1>1
<1> HIDE DEF all
<1> QED BY <1>4, <1>5 DEF CopyOf

\* The copy of the rows a section touches, packed without what lies between them, reads
\* as the table does: row for row, each column's cell has its elements and its stream.
THEOREM CompactTableReads ==
    ASSUME NEW table, NEW rows, NEW n \in Nat, DOMAIN rows = 1..n,
           \A i \in 1..n : TypedRow(table, rows[i]),
           NEW x, x = CompactTable(table, rows), x.error = "none"
    PROVE  x.columns = table.columns /\ \A i \in 1..n : CellsAlike(table, rows[i], x, i - 1)
<1>1. PICK all : /\ RowsCopied(table, rows, n, all)
                 /\ x.error = all.error /\ x.columns = table.columns
                 /\ x.rows = all.rows /\ x.heap = all.heap /\ x.heapLen = all.len
  <2>1. CopyOf(table, rows, n, x)
    BY CompactTableIs
  <2> QED BY <2>1 DEF CopyOf
<1>2. /\ x.error = all.error /\ x.columns = table.columns /\ x.rows = all.rows /\ x.heap = all.heap
      /\ x.heapLen = all.len
  BY <1>1
<1>3. IsCopy(all) /\ \A i \in 1..n : RowRead(table, rows[i], all, all.rows[i])
  BY <1>1, <1>2 DEF RowsCopied
<1>4. ASSUME NEW i \in 1..n, NEW name \in VlaNames, table.columns[name] # {}
      PROVE  VlaCell(table, name, rows[i]) = VlaCell(x, name, i - 1)
  <2>1. PICK cell : cell = VlaCell(table, name, rows[i])
    OBVIOUS
  <2>2. PICK kind \in ElementKinds : kind = OrElse(table.columns[name], "U8")
    <3>1. TypedRow(table, rows[i])
      OBVIOUS
    <3>2. table.columns[name] \subseteq ElementKinds
      BY <1>4, <3>1 DEF TypedRow
    <3> QED BY <1>4, <3>2 DEF OrElse
  <2>3. PICK d : d = all.rows[i][name]
    OBVIOUS
  <2>4. Reads(all, kind, d, cell)
    <3>1. RowRead(table, rows[i], all, all.rows[i])
      BY <1>3
    <3> QED BY <1>4, <2>1, <2>2, <2>3, <3>1 DEF RowRead, KindOf
  <2>5. d = x.rows[(i - 1) + 1][name]
    <3>1. (i - 1) + 1 = i
      OBVIOUS
    <3> QED BY <1>2, <2>3, <3>1
  <2>6. kind = OrElse(x.columns[name], "U8")
    BY <1>2, <2>2
  <2>7. x.heap = all.heap /\ x.heapLen = all.len
    BY <1>2
  <2>8. VlaCell(x, name, i - 1) = cell
    <3>1. PICK row : row = i - 1
      OBVIOUS
    <3>2. d = x.rows[row + 1][name]
      BY <2>5, <3>1
    <3>3. VlaCell(x, name, row) = cell
      <4>1. PICK copy : copy = all
        OBVIOUS
      <4>2. IsCopy(copy) /\ x.heap = copy.heap /\ x.heapLen = copy.len /\ Reads(copy, kind, d, cell)
        BY <1>3, <2>4, <2>7, <4>1
      <4> QED BY <2>6, <3>2, <4>2, CopyReads
    <3> QED BY <3>1, <3>3
  <2> QED BY <2>1, <2>8
<1>5. ASSUME NEW i \in 1..n PROVE CellsAlike(table, rows[i], x, i - 1)
  BY <1>2, <1>4 DEF CellsAlike, VlaNames
<1> QED BY <1>2, <1>5

-----------------------------------------------------------------------------
(* The invariant of what a read has found of its tiles. *)

Whole == WholeTable(unit.container)

\* The reader's slot and handle hold the index of the unit.
IndexOfUnit ==
    ~IsPlain => slot \subseteq {TileIndex(Whole)} /\ \A h \in handle : h.index = TileIndex(Whole)

\* A read of a region that is not empty, with the table and plan of it.
ReadOfRegion(j) ==
    LET tiled == TiledImage(unit.container.header)
        ranges == RangesIn(tiled.image.shape, j.region)
    IN  /\ \E k \in DOMAIN unit.regions : j.region = unit.regions[k]
        /\ RegionError(ranges, tiled.image.shape) = "none" /\ ShapeProduct(RegionShape(ranges)) # 0
        /\ j.plan = PlanOf(tiled, unit.container.columns, TileIndex(Whole)) /\ j.plan.error = "none"
        /\ j.rows = RowsOfRead(tiled, j.region)
        /\ j.section \in BOOLEAN /\ (j.section <=> j.region.kind = "Section")
        /\ j.table = IF j.section THEN CompactTable(Whole, j.rows) ELSE Whole
        /\ j.table.error = "none"
        /\ j.layout = LayoutOf(j.plan, j.section, Len(j.rows))
        /\ j.layout.kind = "Bands" => j.from = 0

JobOfRegion == \A j \in job : ReadOfRegion(j)

SetsSized == \A j \in job : sets = [w \in Workers |-> sets[w]] /\ \A w \in Workers : Sized(j.plan, sets[w])

\* What a decode of the k-th tile of a read gives.
TileErr(j, k) == ErrorAt(j.plan, j.table, RowsAt(j, k))

\* The tiles of an item before its n-th decode.
CleanUpTo(j, i, n) == \A m \in 1..n - 1 : TileErr(j, TilesOf(j, i)[m]) = "none"

\* The n-th tile of an item is its first that does not decode.
FailsAt(j, i, n) == CleanUpTo(j, i, n) /\ TileErr(j, TilesOf(j, i)[n]) # "none"

\* An item that is done has tiles that decode, one that failed has left its first
\* error, and one left out is behind one that failed.
ItemJudged(j, i) ==
    /\ items[i] \in {"todo", "done", "failed", "skipped"}
    /\ items[i] = "done" => CleanUpTo(j, i, TilesEach(j) + 1)
    /\ items[i] = "failed" =>
        \E n \in 1..TilesEach(j) : FailsAt(j, i, n) /\ wave[i] = <<TileErr(j, TilesOf(j, i)[n])>>
    /\ items[i] = "skipped" => FailedBefore(i)

TilesJudged ==
    \A j \in job :
        /\ DOMAIN wave = DOMAIN items
        /\ \A k \in 0..j.from - 1 : TileErr(j, k) = "none"
        /\ \A i \in DOMAIN items : ItemJudged(j, i)
        /\ \A w \in Workers : \A h \in holds[w] : CleanUpTo(j, h.item, h.next)

JudgedInv == IndexOfUnit /\ JobOfRegion /\ SetsSized /\ TilesJudged /\ FirstBadTile

\* The places of rows of a fixed length.
LEMMA PlaceInRows ==
    ASSUME NEW count \in Nat, NEW tiles \in Nat \ {0}, NEW i \in 0..count - 1, NEW n \in 1..tiles
    PROVE  i * tiles + n - 1 \in 0..count * tiles - 1
<1>1. PICK more \in Nat : more = count - 1 - i
  OBVIOUS
<1>2. PICK a \in Nat, b \in Nat : a = i * tiles /\ b = more * tiles
  OBVIOUS
<1>3. count = i + more + 1
  BY <1>1
<1>4. count * tiles = a + b + tiles
  BY <1>2, <1>3
<1>5. i * tiles + n - 1 = a + n - 1 /\ a + n - 1 >= 0 /\ a + n - 1 <= a + b + tiles - 1
  BY <1>2
<1> QED BY <1>2, <1>4, <1>5

\* The bands of an image share its tiles.
LEMMA BandsShare ==
    ASSUME NEW g, HasTiles(g)
    PROVE  /\ BandsOf(g).count \in Nat /\ BandsOf(g).tiles \in Nat \ {0}
           /\ BandsOf(g).count * BandsOf(g).tiles = NTiles(g)
<1>0. PICK n \in Nat \ {0} : n = Len(g.dims)
  BY DEF HasTiles, IsGrid
<1>1. /\ g.ntilesAxis \in Seq(Nat) /\ Len(g.ntilesAxis) = n
      /\ \A i \in 1..n : g.ntilesAxis[i] \in Nat
  <2>1. g.ntilesAxis \in Seq(Nat) /\ Len(g.ntilesAxis) = Len(g.dims)
    BY GridAxes DEF HasTiles
  <2> QED BY <1>0, <2>1
<1>2. BandsOf(g).count \in Nat /\ BandsOf(g).tiles \in Nat \ {0}
  <2>1. IsGrid(g) /\ \A i \in 1..Len(g.dims) : g.dims[i] > 0
    BY DEF HasTiles
  <2> QED BY <2>1, BandsAre
<1>3. BandsOf(g).count = g.ntilesAxis[n] /\ BandsOf(g).tiles = Product(SubSeq(g.ntilesAxis, 1, n - 1))
  <2>1. n # 0
    OBVIOUS
  <2> QED BY <1>0, <2>1 DEF BandsOf
<1>4. NTiles(g) = Product(g.ntilesAxis)
  <2>1. g.dims # <<>>
    BY <1>0
  <2> QED BY <2>1 DEF NTiles
<1>5. /\ Product(SubSeq(g.ntilesAxis, 1, n - 1)) = UpTo(g.ntilesAxis, n - 1)
      /\ Product(g.ntilesAxis) = UpTo(g.ntilesAxis, n)
  <2>1. n - 1 \in 0..n
    OBVIOUS
  <2> QED BY <1>1, <2>1, ProductOfFirst
<1>6. UpTo(g.ntilesAxis, n) = UpTo(g.ntilesAxis, n - 1) * g.ntilesAxis[n]
  BY UpToNext
<1>7. PICK count \in Nat, tiles \in Nat : count = BandsOf(g).count /\ tiles = BandsOf(g).tiles
  BY <1>2
<1>8. NTiles(g) = tiles * count
  BY <1>3, <1>4, <1>5, <1>6, <1>7
<1>9. tiles * count = count * tiles
  BY <1>7
<1> QED BY <1>2, <1>7, <1>8, <1>9

\* What a read is made of.
LEMMA ReadHas ==
    ASSUME HandleOfUnit, ~IsPlain, IsOpen, NEW j, ReadOfRegion(j)
    PROVE  /\ IsPlan(j.plan) /\ HasTiles(j.plan.tiled.geometry)
           /\ j.plan.tiled = TiledImage(unit.container.header)
           /\ j.plan.columns = unit.container.columns
           /\ unit.container.header.naxis2 = NTiles(j.plan.tiled.geometry)
           /\ IsSeq(j.rows) /\ Len(j.rows) \in Nat
           /\ InGrid(j.plan.tiled.geometry, j.rows, Len(j.rows))
           /\ ~j.section => Len(j.rows) = NTiles(j.plan.tiled.geometry)
<1>1. unit \in Units /\ TypedHeader(unit.container.header)
  BY UnitsAssumption DEF HandleOfUnit, IsPlain
<1>2. PICK tiled : tiled = TiledImage(unit.container.header)
  OBVIOUS
<1>3. tiled.error = "none"
  BY <1>2, HandleIs DEF HandleOfUnit
<1>4. PICK g : g = tiled.geometry
  OBVIOUS
<1>5. IsGrid(g) /\ g.dims = tiled.image.shape /\ unit.container.header.naxis2 = NTiles(g)
  BY <1>1, <1>2, <1>3, <1>4, TiledImageHas
<1>6. PICK ranges : ranges = RangesIn(tiled.image.shape, j.region)
  OBVIOUS
<1>7. /\ \E k \in DOMAIN unit.regions : j.region = unit.regions[k]
      /\ RegionError(ranges, tiled.image.shape) = "none" /\ ShapeProduct(RegionShape(ranges)) # 0
      /\ j.plan = PlanOf(tiled, unit.container.columns, TileIndex(Whole)) /\ j.plan.error = "none"
      /\ j.rows = RowsOfRead(tiled, j.region)
      /\ j.section \in BOOLEAN /\ (j.section <=> j.region.kind = "Section")
  BY <1>2, <1>6 DEF ReadOfRegion
<1>8. TypedRegion(j.region)
  BY <1>1, <1>7, UnitsAssumption DEF IsPlain
<1>9. IsPlan(j.plan) /\ j.plan.tiled = tiled /\ j.plan.columns = unit.container.columns
  BY <1>1, <1>2, <1>3, <1>7, PlanIs
<1>10. ranges = RangesIn(g.dims, j.region) /\ RegionError(ranges, g.dims) = "none"
  BY <1>5, <1>6, <1>7
<1>11. HasTiles(g)
  BY <1>5, <1>7, <1>8, <1>10, RegionHasTiles
<1>12. j.rows = IF j.region.kind = "Section" THEN SelectRows(g, ranges) ELSE Places(NTiles(g))
  BY <1>4, <1>6, <1>7 DEF RowsOfRead
<1>13. /\ IsSeq(j.rows) /\ Len(j.rows) \in Nat
       /\ ShapeProduct(RegionShape(ranges)) # 0 => InGrid(g, j.rows, Len(j.rows))
       /\ j.region.kind # "Section" => Len(j.rows) = NTiles(g)
  BY <1>5, <1>8, <1>10, <1>12, RegionRowsAre
<1> QED BY <1>2, <1>4, <1>5, <1>7, <1>9, <1>11, <1>13

\* The tiles of an item are of those the read has left.
LEMMA TileOfItem ==
    ASSUME ReadInv, JobOfRegion, Running, NEW i \in DOMAIN items, NEW n \in 1..TilesEach(Job)
    PROVE  /\ TilesOf(Job, i)[n] \in 0..Len(Job.rows) - 1
           /\ TilesOf(Job, i)[n] =
                IF Job.layout.kind = "Bands" THEN i * TilesEach(Job) + n - 1 ELSE Job.from + i
<1>1. PICK j : j = Job
  OBVIOUS
<1>2. j \in job /\ ~IsPlain /\ IsOpen /\ HandleOfUnit
  BY <1>1, JobIs DEF ReadInv, OneRead
<1>3. ReadOfRegion(j)
  BY <1>2 DEF JobOfRegion
<1>4. PICK g : g = j.plan.tiled.geometry
  OBVIOUS
<1>5. HasTiles(g) /\ Len(j.rows) \in Nat /\ (~j.section => Len(j.rows) = NTiles(g))
  BY <1>2, <1>3, <1>4, ReadHas
<1>6. /\ IsLayout(j.layout, g, Len(j.rows)) /\ j.from \in 0..Len(j.rows)
      /\ items = [k \in 0..ItemCount(j) - 1 |-> items[k]]
  BY <1>2, <1>4 DEF ReadInv, ReadLaidOut
<1>7. i \in 0..ItemCount(j) - 1
  BY <1>6
<1>8. j.layout = LayoutOf(j.plan, j.section, Len(j.rows)) /\ j.section \in BOOLEAN
  BY <1>3 DEF ReadOfRegion
<1>9. CASE j.layout.kind = "Bands"
  <2>1. j.layout.count = BandsOf(g).count /\ ~j.section
    BY <1>4, <1>8, <1>9 DEF LayoutOf
  <2>2. PICK count \in Nat, tiles \in Nat \ {0} : count = BandsOf(g).count /\ tiles = BandsOf(g).tiles
    BY <1>5, BandsShare
  <2>3. count * tiles = Len(j.rows)
    BY <1>5, <2>1, <2>2, BandsShare
  <2>4. i \in 0..count - 1 /\ TilesEach(j) = tiles
    BY <1>4, <1>7, <1>9, <2>1, <2>2 DEF ItemCount, TilesEach
  <2>5. n \in 1..tiles
    BY <1>1, <2>4
  <2>6. TilesOf(j, i) = [k \in 1..tiles |-> i * tiles + k - 1]
    BY <1>4, <1>9, <2>2 DEF TilesOf, TilesOfBand
  <2>7. TilesOf(j, i)[n] = i * tiles + n - 1
    BY <2>5, <2>6
  <2>8. i * tiles + n - 1 \in 0..count * tiles - 1
    BY <2>2, <2>4, <2>5, PlaceInRows
  <2> QED BY <1>1, <1>9, <2>3, <2>4, <2>7, <2>8
<1>10. CASE j.layout.kind # "Bands"
  <2>1. TilesOf(j, i) = <<j.from + i>> /\ TilesEach(j) = 1
    BY <1>10 DEF TilesOf, TilesEach
  <2>2. n = 1
    BY <1>1, <2>1
  <2>3. j.layout.wave \in Nat
    BY <1>6, <1>10 DEF IsLayout
  <2>4. i \in 0..MinOf(j.layout.wave, Len(j.rows) - j.from) - 1
    BY <1>7, <1>10 DEF ItemCount
  <2>5. j.from + i \in 0..Len(j.rows) - 1
    <3>1. PICK from \in Nat, rows \in Nat : from = j.from /\ rows = Len(j.rows) /\ from <= rows
      BY <1>5, <1>6
    <3>2. MinOf(j.layout.wave, rows - from) <= rows - from /\ MinOf(j.layout.wave, rows - from) \in Nat
      <4>1. rows - from \in Nat
        BY <3>1
      <4> QED BY <2>3, <4>1, MinIs
    <3>3. i \in 0..MinOf(j.layout.wave, rows - from) - 1
      BY <2>4, <3>1
    <3> QED BY <3>1, <3>2, <3>3
  <2> QED BY <1>1, <1>10, <2>1, <2>2, <2>5
<1> QED BY <1>9, <1>10

LEMMA WholeIs ==
    Whole.columns = unit.container.columns /\ Whole.rows = unit.container.rows
BY DEF Whole, WholeTable

\* The rows of a unit's table are as a table's are.
LEMMA WholeRows ==
    ASSUME HandleOfUnit, ~IsPlain, unit.container.header.naxis2 \in Nat,
           NEW r \in Nat, r < unit.container.header.naxis2
    PROVE  TypedRow(Whole, r)
<1>1. TypedTable(unit.container)
  BY UnitsAssumption DEF HandleOfUnit, IsPlain
<1>2. PICK c : c = unit.container
  OBVIOUS
<1>3. Whole.columns = c.columns /\ Whole.rows = c.rows
  BY <1>2, WholeIs
<1>4. ASSUME NEW name \in VlaNames, c.columns[name] # {}
      PROVE  /\ c.columns[name] \subseteq ElementKinds
             /\ name \in DOMAIN c.rows[r + 1]
             /\ c.rows[r + 1][name].count \in Nat /\ c.rows[r + 1][name].offset \in Nat
  <2>1. PICK i \in 1..4 : VlaColumns[i] = name
    BY DEF VlaNames, VlaColumns
  <2>2. DOMAIN VlaColumns = 1..4
    BY DEF VlaColumns
  <2>3. c.columns[name] \subseteq ElementKinds /\
        \A k \in DOMAIN c.rows : name \in DOMAIN c.rows[k] /\ c.rows[k][name] \in [count : Nat, offset : Nat]
    BY <1>1, <1>2, <1>4, <2>1, <2>2 DEF TypedTable
  <2>4. r + 1 \in DOMAIN c.rows
    <3>1. PICK n \in Nat : n = c.header.naxis2
      BY <1>2
    <3>2. DOMAIN c.rows = 1..n /\ r < n
      BY <1>1, <1>2, <3>1 DEF TypedTable
    <3> QED BY <3>2
  <2> QED BY <2>3, <2>4
<1> QED BY <1>3, <1>4 DEF TypedRow

\* What a read finds of a tile is what the whole table has there.
LEMMA TileErrIs ==
    ASSUME HandleOfUnit, ~IsPlain, IsOpen, NEW j, ReadOfRegion(j), NEW k \in 0..Len(j.rows) - 1
    PROVE  TileErr(j, k) = ErrorAt(j.plan, Whole, [table |-> j.rows[k + 1], grid |-> j.rows[k + 1]])
<1>1. /\ IsPlan(j.plan) /\ unit.container.header.naxis2 = NTiles(j.plan.tiled.geometry)
      /\ IsSeq(j.rows) /\ Len(j.rows) \in Nat
      /\ InGrid(j.plan.tiled.geometry, j.rows, Len(j.rows))
  BY ReadHas
<1>2. PICK n \in Nat : n = Len(j.rows)
  BY <1>1
<1>3. DOMAIN j.rows = 1..n
  BY <1>1, <1>2 DEF IsSeq
<1>4. \A i \in 1..n : TypedRow(Whole, j.rows[i])
  <2>1. \A i \in 1..n : j.rows[i] \in Nat /\ j.rows[i] < unit.container.header.naxis2
    BY <1>1, <1>2 DEF InGrid
  <2>2. unit.container.header.naxis2 \in Nat
    <3>1. IsGrid(j.plan.tiled.geometry)
      BY <1>1, ReadHas DEF HasTiles
    <3> QED BY <1>1, <3>1, NTilesIs
  <2> QED BY <2>1, <2>2, WholeRows
<1>5. /\ j.table = IF j.section THEN CompactTable(Whole, j.rows) ELSE Whole
      /\ j.table.error = "none" /\ j.section \in BOOLEAN
  BY DEF ReadOfRegion
<1>6. PICK at : at = [table |-> j.rows[k + 1], grid |-> j.rows[k + 1]]
  OBVIOUS
<1>7. PICK to : to = RowsAt(j, k)
  OBVIOUS
<1>8. at.table = j.rows[k + 1] /\ at.grid = to.grid
      /\ to.table = IF j.section THEN k ELSE j.rows[k + 1]
  BY <1>6, <1>7 DEF RowsAt
<1>9. k + 1 \in 1..n /\ (k + 1) - 1 = k
  BY <1>2
<1>10. CellsAlike(Whole, at.table, j.table, to.table)
  <2>1. CASE j.section
    <3>1. \A i \in 1..n : CellsAlike(Whole, j.rows[i], j.table, i - 1)
      BY <1>3, <1>4, <1>5, <2>1, CompactTableReads
    <3>2. CellsAlike(Whole, j.rows[k + 1], j.table, (k + 1) - 1)
      BY <1>9, <3>1
    <3> QED BY <1>8, <1>9, <2>1, <3>2
  <2>2. CASE ~j.section
    <3>1. j.table = Whole
      BY <1>5, <2>2
    <3> QED BY <1>8, <2>2, <3>1 DEF CellsAlike
  <2> QED BY <1>5, <2>1, <2>2
<1>11. PICK fresh : fresh = ReserveSet(NoSet, SetCapacities(j.plan))
  OBVIOUS
<1>12. SetsAlike(fresh, fresh)
  <2>1. Sized(j.plan, NoSet)
    BY DEF Sized
  <2> QED BY <1>1, <1>11, <2>1, ReservedIs, WorkSetAlike
<1>13. TilesAlike(DecodeTile(j.plan, Whole, at, fresh), DecodeTile(j.plan, j.table, to, fresh))
  <2>1. j.plan.tiled.decoder.codec.kind \in CodecKinds /\ \A c \in j.plan.maskCodec : c.kind \in CodecKinds
    BY <1>1 DEF IsPlan
  <2> QED BY <1>8, <1>10, <1>12, <2>1, DecodeTileAlike
<1> QED BY <1>6, <1>7, <1>11, <1>13 DEF TilesAlike, TileErr, ErrorAt

\* The tiles of a region that fail are those a read of it finds to.
LEMMA FailingTilesAre ==
    ASSUME HandleOfUnit, ~IsPlain, IsOpen, NEW j, ReadOfRegion(j)
    PROVE  FailingTiles(j.region) = [k \in 1..Len(j.rows) |-> TileErr(j, k - 1)]
<1>1. PICK tiled : tiled = TiledImage(unit.container.header)
  OBVIOUS
<1>2. PICK rows : rows = TilesOfRegion(tiled.geometry, j.region)
  OBVIOUS
<1>3. PICK plan : plan = PlanOf(tiled, unit.container.columns, TileIndex(Whole))
  OBVIOUS
<1>4. FailingTiles(j.region) =
        [k \in DOMAIN rows |-> ErrorAt(plan, Whole, [table |-> rows[k], grid |-> rows[k]])]
  BY <1>1, <1>2, <1>3 DEF FailingTiles, With, ErrorAt, Whole
<1>5. plan = j.plan /\ j.rows = RowsOfRead(tiled, j.region)
  BY <1>1, <1>3 DEF ReadOfRegion
<1>6. rows = j.rows
  BY <1>2, <1>5 DEF TilesOfRegion, RowsOfRead, RangesIn
<1>7. PICK n \in Nat : n = Len(j.rows)
  BY ReadHas
<1>8. DOMAIN rows = 1..n
  BY <1>6, <1>7, ReadHas DEF IsSeq
<1>9. ASSUME NEW k \in 1..n
      PROVE  TileErr(j, k - 1) = ErrorAt(plan, Whole, [table |-> rows[k], grid |-> rows[k]])
  <2>1. k - 1 \in 0..Len(j.rows) - 1 /\ (k - 1) + 1 = k
    BY <1>7
  <2>2. TileErr(j, k - 1) = ErrorAt(j.plan, Whole, [table |-> j.rows[(k - 1) + 1], grid |-> j.rows[(k - 1) + 1]])
    BY <2>1, TileErrIs
  <2> QED BY <1>5, <1>6, <2>1, <2>2
<1> QED BY <1>4, <1>7, <1>8, <1>9

\* The first of the errors of some tiles.
LEMMA FirstFailingIs ==
    ASSUME NEW n \in Nat, NEW errors, DOMAIN errors = 1..n,
           NEW k \in 1..n, errors[k] # "none", \A m \in 1..k - 1 : errors[m] = "none"
    PROVE  FirstFailing(errors) = errors[k]
<1>1. PICK bad : bad = {m \in DOMAIN errors : errors[m] # "none"}
  OBVIOUS
<1>2. k \in bad /\ \A m \in bad : k <= m
  BY <1>1
<1>3. \A m \in bad : (\A l \in bad : m <= l) => m = k
  <2>1. bad \subseteq Int
    BY <1>1
  <2> QED BY <1>2, <2>1
<1>4. (CHOOSE m \in bad : \A l \in bad : m <= l) = k
  BY <1>2, <1>3
<1> QED BY <1>1, <1>2, <1>4 DEF FirstFailing

LEMMA NoneFails ==
    ASSUME NEW errors, \A k \in DOMAIN errors : errors[k] = "none"
    PROVE  FirstFailing(errors) = "none"
BY DEF FirstFailing

\* What the tiles of a region give is of the unit.
FailingIn(u, region) ==
    With(TiledImage(u.container.header), LAMBDA tiled :
        With(TilesOfRegion(tiled.geometry, region), LAMBDA rows :
    LET table == WholeTable(u.container)
    IN  With(PlanOf(tiled, u.container.columns, TileIndex(table)), LAMBDA plan :
        [k \in DOMAIN rows |->
            DecodeTile(plan, table, [table |-> rows[k], grid |-> rows[k]],
                       ReserveSet(NoSet, SetCapacities(plan))).error])))

\* An outcome that stays.
LEMMA SameOutcome ==
    ASSUME unit' = unit, result' = result, FirstBadTile
    PROVE  FirstBadTile'
<1>1. FailingTiles(result.region) = FailingIn(unit, result.region)
  BY Zenon DEF FailingTiles, FailingIn
<1>2. FailingTiles(result.region)' = FailingIn(unit', result'.region)
  BY Zenon DEF FailingTiles, FailingIn, With
<1>3. PICK tiles : tiles = FailingIn(unit, result.region)
  OBVIOUS
<1>4. FailingTiles(result.region) = tiles /\ FailingTiles(result.region)' = tiles
  BY <1>1, <1>2, <1>3
<1>5. /\ result.kind = "failed" =>
              result.error = FirstFailing(tiles) /\ (result.mode = "physical" => result.out = Prefix)
      /\ result.kind = "done" /\ ~IsPlain => FirstFailing(tiles) = "none"
  BY <1>4 DEF FirstBadTile
<1>6. IsPlain' <=> IsPlain
  BY DEF IsPlain
<1> QED BY <1>4, <1>5, <1>6 DEF FirstBadTile

\* An outcome that is not of a read's end.
LEMMA OtherOutcome ==
    ASSUME result'.kind # "failed", result'.kind # "done" \/ IsPlain'
    PROVE  FirstBadTile'
BY DEF FirstBadTile

\* Without a read there is nothing to judge.
LEMMA IdleJudged ==
    ASSUME IndexOfUnit', job' = {}, FirstBadTile'
    PROVE  JudgedInv'
BY DEF JudgedInv, JobOfRegion, SetsSized, TilesJudged

LEMMA SameIndex ==
    ASSUME IndexOfUnit, unit' = unit, slot' = slot, handle' = handle
    PROVE  IndexOfUnit'
BY DEF IndexOfUnit, IsPlain, Whole

LEMMA InitJudged ==
    ASSUME Init
    PROVE  JudgedInv
<1>1. IndexOfUnit
  BY DEF Init, IndexOfUnit
<1>2. FirstBadTile
  BY DEF Init, FirstBadTile
<1> QED BY <1>1, <1>2 DEF JudgedInv, JobOfRegion, SetsSized, TilesJudged, Init

LEMMA OpenJudged ==
    ASSUME ReadInv, JudgedInv, Open \/ OpenPlain \/ Close
    PROVE  JudgedInv'
<1>1. ~Running /\ unit' = unit
  BY DEF Open, OpenPlain, Close, ReadInv, OneRead
<1>2. job' = {}
  BY <1>1, IdleHolds DEF Open, OpenPlain, Close
<1>3. IndexOfUnit
  BY DEF JudgedInv
<1>4. CASE Open
  <2>1. PICK index : index = TileIndex(Whole)
    OBVIOUS
  <2>2. Whole' = Whole /\ (IsPlain' <=> IsPlain)
    BY <1>1 DEF Whole, IsPlain
  <2>3. slot \subseteq {index}
    BY <1>3, <1>4, <2>1 DEF Open, IndexOfUnit
  <2>4. slot' \subseteq {index} /\ \A h \in handle' : h.index = index
    <3>1. PICK read : /\ read \in {{}, slot, {index}} /\ slot' = read
                      /\ \A h \in handle' : h.index \in read
      <4>1. PICK io \in BOOLEAN :
              LET read == IF TiledImage(unit.container.header).error # "none" THEN {}
                          ELSE LoadedIndex(IF io /\ index.error = "none" THEN {index} ELSE {})
              IN  slot' = read /\ \A h \in handle' : h.index \in read
        BY <1>4, <2>1 DEF Open, Whole
      <4> QED BY <4>1 DEF LoadedIndex
    <3> QED BY <2>3, <3>1
  <2>5. IndexOfUnit'
    BY <2>1, <2>2, <2>4 DEF IndexOfUnit
  <2>6. result'.kind \in {"refused", "open"}
    BY <1>4 DEF Open
  <2> QED BY <1>2, <2>5, <2>6, OtherOutcome, IdleJudged
<1>5. CASE OpenPlain
  <2>1. IsPlain'
    BY <1>1, <1>5 DEF OpenPlain, IsPlain
  <2>2. result'.kind \in {"refused", "open"}
    BY <1>5 DEF OpenPlain
  <2> QED BY <1>2, <2>1, <2>2, OtherOutcome, IdleJudged DEF IndexOfUnit
<1>6. CASE Close
  <2>1. IndexOfUnit'
    BY <1>3, <1>6 DEF Close, IndexOfUnit, IsPlain, Whole
  <2>2. result'.kind = "closed"
    BY <1>6 DEF Close
  <2> QED BY <1>2, <2>1, <2>2, OtherOutcome, IdleJudged
<1> QED BY <1>4, <1>5, <1>6

LEMMA PlainJudged ==
    ASSUME ReadInv, PlainReads
    PROVE  JudgedInv'
<1>1. PICK k \in DOMAIN RegionsOf(unit), mode \in PlainModes : ReadPlain(RegionsOf(unit)[k], mode)
  BY DEF PlainReads
<1>2. IsPlain /\ unit' = unit
  BY <1>1 DEF ReadPlain
<1>3. \E r, resized : NoDecode(r, resized) /\ r.kind \in {"refused", "done"}
  <2> DEFINE region == RegionsOf(unit)[k]
             g == Handle.image
             size == ElemSize(g.bitpix)
             ranges == RangesIn(g.shape, region)
             bad == RegionError(ranges, g.shape)
             runs == IF bad # "none" THEN <<>> ELSE StoredRuns(g.shape, region)
             short == IF unit.resident THEN {Len(runs)} ELSE 0..Len(runs)
             Done(o) == [kind |-> "done", mode |-> mode, region |-> region, out |-> o]
  <2>1. \E n \in short : \E o, resized :
           IF bad # "none" THEN NoDecode(RefusedRead(bad), words) /\ UNCHANGED buffers
           ELSE /\ buffers' = IF region.kind = "All" THEN buffers
                              ELSE [buffers EXCEPT !.shape = MaxOf(@, Len(ranges))]
                /\ NoDecode(IF n < Len(runs) THEN RefusedRead("Io") ELSE Done(o), resized)
    BY <1>1, ZenonT(60) DEF ReadPlain
  <2> HIDE DEF region, g, size, ranges, bad, runs, short
  <2>2. PICK n, o, resized :
           \/ NoDecode(RefusedRead(bad), words)
           \/ NoDecode(RefusedRead("Io"), resized)
           \/ NoDecode(Done(o), resized)
    <3> HIDE DEF Done
    <3> QED BY <2>1, Zenon
  <2> QED BY <2>2 DEF RefusedRead
<1>4. job' = {}
  BY <1>3, PlainReadInv, IdleHolds DEF NoDecode
<1>5. result'.kind # "failed"
  BY <1>3 DEF NoDecode
<1>6. IsPlain' /\ IndexOfUnit'
  BY <1>2 DEF IsPlain, IndexOfUnit
<1> QED BY <1>4, <1>5, <1>6, OtherOutcome, IdleJudged

\* A read of tiles as it begins.
Starts(j) ==
    /\ ReadOfRegion(j) /\ j.from = 0
    /\ job' = {j} /\ items' = ItemsOf(j.layout, Len(j.rows), 0)
    /\ wave' = [i \in DOMAIN items' |-> <<>>]
    /\ sets' = FreshSets /\ holds' = NoHolds
    /\ result'.kind = "reading"

\* A region without samples that a read is done with at once.
NothingToRead(region) ==
    LET tiled == TiledImage(unit.container.header)
        ranges == RangesIn(tiled.image.shape, region)
    IN  RegionError(ranges, tiled.image.shape) = "none" /\ ShapeProduct(RegionShape(ranges)) = 0

LEMMA StartReadIs ==
    ASSUME HandleOfUnit, IndexOfUnit, ~IsPlain, NEW k \in DOMAIN unit.regions, NEW mode,
           StartRead(unit.regions[k], mode)
    PROVE  /\ unit' = unit /\ slot' = slot /\ handle' = handle
           /\ \/ job' = job /\ result'.kind = "refused"
              \/ job' = job /\ result'.region = unit.regions[k] /\ result'.kind = "done"
                 /\ NothingToRead(unit.regions[k])
              \/ \E j : Starts(j)
<1> DEFINE c == unit.container
           region == unit.regions[k]
           tiled == Handle.tiled
           g == tiled.geometry
           dims == tiled.image.shape
           section == region.kind = "Section"
           ranges == RangesIn(dims, region)
           rows == IF section THEN SelectRows(g, ranges) ELSE Places(NTiles(g))
           table == IF section THEN CompactTable(WholeTable(c), rows) ELSE WholeTable(c)
           shape == RegionShape(ranges)
           count == ShapeProduct(shape)
           plan == PlanOf(tiled, c.columns, Handle.index)
           layout == LayoutOf(plan, section, Len(rows))
           bad == RegionError(ranges, dims)
           j == [mode |-> mode, region |-> region, ranges |-> ranges, shape |-> shape,
                 section |-> section, rows |-> rows, table |-> table,
                 plan |-> plan, layout |-> layout, from |-> 0, count |-> count]
<1>1. unit' = unit /\ slot' = slot /\ handle' = handle /\ IsOpen
  BY DEF StartRead
<1>2. \/ \E e, r : NoDecode(RefusedRead(e), r)
      \/ \E o, r : NoDecode([kind |-> "done", mode |-> mode, region |-> region, out |-> o], r)
                   /\ bad = "none" /\ count = 0
      \/ /\ bad = "none" /\ count # 0 /\ plan.error = "none" /\ table.error = "none"
         /\ job' = {j} /\ items' = ItemsOf(layout, Len(rows), 0)
         /\ wave' = [i \in DOMAIN items' |-> <<>>]
         /\ sets' = FreshSets /\ holds' = NoHolds /\ result' = [kind |-> "reading"]
  BY DEF StartRead
<1>3. tiled = TiledImage(unit.container.header) /\ Handle.index = TileIndex(Whole)
  BY <1>1, HandleIs DEF HandleOfUnit, IndexOfUnit
<1>4. CASE \E e, r : NoDecode(RefusedRead(e), r)
  BY <1>1, <1>4 DEF NoDecode, RefusedRead
<1>5. CASE /\ bad = "none" /\ count = 0
           /\ \E o, r : NoDecode([kind |-> "done", mode |-> mode, region |-> region, out |-> o], r)
  BY <1>1, <1>3, <1>5 DEF NoDecode, NothingToRead
<1>6. CASE /\ bad = "none" /\ count # 0 /\ plan.error = "none" /\ table.error = "none"
           /\ job' = {j} /\ items' = ItemsOf(layout, Len(rows), 0)
           /\ wave' = [i \in DOMAIN items' |-> <<>>]
           /\ sets' = FreshSets /\ holds' = NoHolds /\ result' = [kind |-> "reading"]
  <2>1. /\ j.region = region /\ j.section = section /\ j.rows = rows /\ j.table = table
        /\ j.plan = plan /\ j.layout = layout /\ j.from = 0
    OBVIOUS
  <2>2. plan = PlanOf(TiledImage(unit.container.header), unit.container.columns, TileIndex(Whole))
    BY <1>3
  <2>3. rows = RowsOfRead(TiledImage(unit.container.header), region)
    BY <1>3 DEF RowsOfRead
  <2>4. table = IF section THEN CompactTable(Whole, rows) ELSE Whole
    BY DEF Whole
  <2>5. bad = "none" /\ count # 0 /\ bad = RegionError(RangesIn(TiledImage(unit.container.header).image.shape, region),
                                             TiledImage(unit.container.header).image.shape)
        /\ count = ShapeProduct(RegionShape(RangesIn(TiledImage(unit.container.header).image.shape, region)))
    BY <1>3, <1>6
  <2>6. section \in BOOLEAN /\ (section <=> region.kind = "Section")
    OBVIOUS
  <2>7. layout = LayoutOf(plan, section, Len(rows))
    OBVIOUS
  <2> HIDE DEF j, plan, rows, table, layout, bad, count, section
  <2>8. ReadOfRegion(j)
    BY <1>6, <2>1, <2>2, <2>3, <2>4, <2>5, <2>6, <2>7 DEF ReadOfRegion
  <2> QED BY <1>1, <1>6, <2>1, <2>8 DEF Starts
<1> QED BY <1>2, <1>4, <1>5, <1>6

\* A region without samples has no tiles that could fail.
LEMMA NothingFails ==
    ASSUME HandleOfUnit, ~IsPlain, IsOpen, NEW k \in DOMAIN unit.regions,
           NothingToRead(unit.regions[k])
    PROVE  FirstFailing(FailingTiles(unit.regions[k])) = "none"
<1>0. PICK region : region = unit.regions[k]
  OBVIOUS
<1>1. TypedRegion(region) /\ TypedHeader(unit.container.header)
  BY <1>0, UnitsAssumption DEF HandleOfUnit, IsPlain
<1>2. PICK tiled : tiled = TiledImage(unit.container.header)
  OBVIOUS
<1>3. PICK g : g = tiled.geometry
  OBVIOUS
<1>4. IsGrid(g) /\ g.dims = tiled.image.shape
  <2>1. tiled.error = "none"
    BY <1>2, HandleIs DEF HandleOfUnit
  <2> QED BY <1>1, <1>2, <1>3, <2>1, TiledImageHas
<1>5. PICK ranges : ranges = RangesIn(g.dims, region)
  OBVIOUS
<1>6. RegionError(ranges, g.dims) = "none" /\ ShapeProduct(RegionShape(ranges)) = 0
  BY <1>0, <1>2, <1>4, <1>5 DEF NothingToRead
<1>7. PICK rows : rows = TilesOfRegion(g, region)
  OBVIOUS
<1>8. rows = IF region.kind = "Section" THEN SelectRows(g, ranges) ELSE Places(NTiles(g))
  BY <1>5, <1>7 DEF TilesOfRegion, RangesIn
<1>9. IsSeq(rows) /\ Len(rows) = 0
  BY <1>1, <1>4, <1>5, <1>6, <1>8, RegionRowsAre
<1>10. DOMAIN rows = {}
  BY <1>9 DEF IsSeq
<1>11. PICK plan : plan = PlanOf(tiled, unit.container.columns, TileIndex(Whole))
  OBVIOUS
<1>12. FailingTiles(region) =
         [m \in DOMAIN rows |-> ErrorAt(plan, Whole, [table |-> rows[m], grid |-> rows[m]])]
  BY <1>2, <1>3, <1>7, <1>11 DEF FailingTiles, With, ErrorAt, Whole
<1>13. DOMAIN FailingTiles(region) = {}
  BY <1>10, <1>12
<1> QED BY <1>0, <1>13, NoneFails

LEMMA StartJudged ==
    ASSUME ReadInv, JudgedInv, Read
    PROVE  JudgedInv'
<1>1. PICK k \in DOMAIN unit.regions, mode \in Modes : StartRead(unit.regions[k], mode)
  BY DEF Read, RegionsOf
<1>2. ~IsPlain /\ HandleOfUnit /\ IndexOfUnit /\ IsOpen /\ ~Running
  BY <1>1 DEF Read, ReadInv, JudgedInv, StartRead
<1>3. /\ unit' = unit /\ slot' = slot /\ handle' = handle
      /\ \/ job' = job /\ result'.kind = "refused"
         \/ job' = job /\ result'.region = unit.regions[k] /\ result'.kind = "done"
            /\ NothingToRead(unit.regions[k])
         \/ \E j : Starts(j)
  BY <1>1, <1>2, StartReadIs
<1>4. IndexOfUnit'
  BY <1>2, <1>3, SameIndex
<1>5. job = {}
  BY <1>2, IdleHolds
<1>6. CASE job' = job /\ result'.kind = "refused"
  BY <1>4, <1>5, <1>6, OtherOutcome, IdleJudged
<1>7. CASE job' = job /\ result'.region = unit.regions[k] /\ result'.kind = "done"
           /\ NothingToRead(unit.regions[k])
  <2>1. FirstFailing(FailingTiles(unit.regions[k])) = "none"
    BY <1>2, <1>7, NothingFails
  <2>2. FailingTiles(result.region)' = FailingTiles(unit.regions[k])
    <3>1. FailingTiles(result.region)' = FailingIn(unit', result'.region)
      BY Zenon DEF FailingTiles, FailingIn, With
    <3>2. FailingTiles(unit.regions[k]) = FailingIn(unit, unit.regions[k])
      BY Zenon DEF FailingTiles, FailingIn, With
    <3> QED BY <1>3, <1>7, <3>1, <3>2
  <2>3. FirstBadTile'
    BY <1>7, <2>1, <2>2 DEF FirstBadTile
  <2> QED BY <1>4, <1>5, <1>7, <2>3, IdleJudged
<1>8. CASE \E j : Starts(j)
  <2>1. PICK j : Starts(j)
    BY <1>8
  <2>2. job' = {j} /\ j.from = 0 /\ ReadOfRegion(j)
    BY <2>1 DEF Starts
  <2>3. JobOfRegion'
    BY <1>3, <2>2 DEF JobOfRegion, ReadOfRegion, Whole
  <2>4. SetsSized'
    <3>1. sets' = [w \in Workers |-> NoSet]
      BY <2>1 DEF Starts, FreshSets
    <3> QED BY <2>2, <3>1 DEF SetsSized, Sized
  <2>5. TilesJudged'
    <3>1. \A i \in DOMAIN items' : items'[i] = "todo"
      BY <2>1 DEF Starts, ItemsOf
    <3>2. DOMAIN wave' = DOMAIN items' /\ \A w \in Workers : holds'[w] = {}
      BY <2>1 DEF Starts, NoHolds
    <3>3. \A i \in DOMAIN items' : ItemJudged(j, i)'
      BY <3>1 DEF ItemJudged
    <3>4. \A m \in 0..j.from - 1 : (TileErr(j, m) = "none")'
      BY <2>2
    <3> QED BY <2>2, <3>2, <3>3, <3>4 DEF TilesJudged
  <2>6. FirstBadTile'
    <3>1. result'.kind = "reading"
      BY <2>1 DEF Starts
    <3> QED BY <3>1, OtherOutcome
  <2> QED BY <1>4, <2>3, <2>4, <2>5, <2>6 DEF JudgedInv
<1> QED BY <1>3, <1>6, <1>7, <1>8

\* A read's table has the columns of its unit's.
LEMMA TableColumns ==
    ASSUME NEW j, ReadOfRegion(j)
    PROVE  j.table.columns = unit.container.columns
<1>1. j.table = (IF j.section THEN CompactTable(Whole, j.rows) ELSE Whole) /\ j.section \in BOOLEAN
  BY DEF ReadOfRegion
<1>2. \E all : CompactTable(Whole, j.rows) =
        [error |-> all.error, columns |-> Whole.columns, rows |-> all.rows, heap |-> all.heap,
         heapLen |-> all.len]
  BY Zenon DEF CompactTable, With
<1> QED BY <1>1, <1>2, WholeIs

\* What the decode of the tile a worker is at does: e is what it finds.
Decided(w, i, at, e) ==
    LET last == at = TilesEach(Job)
    IN  /\ items' = [items EXCEPT ![i] = IF e # "none" THEN "failed" ELSE IF last THEN "done" ELSE @]
        /\ holds' = [holds EXCEPT ![w] =
                        IF e = "none" /\ ~last THEN {[item |-> i, next |-> at + 1]} ELSE {}]
        /\ DOMAIN wave' = DOMAIN items
        /\ \A m \in DOMAIN items : m # i => wave'[m] = wave[m]
        /\ e # "none" => wave'[i] = <<e>>

LEMMA DecodeNextIs ==
    ASSUME ReadInv, JudgedInv, NEW w \in Workers, NEW i, DecodeNext(w, i),
           NEW at, at = OrElse({h.next : h \in holds[w]}, 1)
    PROVE  /\ unit' = unit /\ slot' = slot /\ handle' = handle /\ job' = job /\ result' = result
           /\ Running /\ i \in DOMAIN items /\ Takes(w, i)
           /\ \E s : Sized(Job.plan, s) /\ sets' = [sets EXCEPT ![w] = s]
           /\ Decided(w, i, at, TileErr(Job, TilesOf(Job, i)[at]))
<1> DEFINE tiles == TilesOf(Job, i)
           rows == RowsAt(Job, tiles[at])
           last == at = Len(tiles)
<1>1. /\ unit' = unit /\ slot' = slot /\ handle' = handle /\ job' = job /\ result' = result
      /\ Running /\ i \in DOMAIN items /\ Takes(w, i)
  BY DEF DecodeNext
<1>2. PICK j : j = Job
  OBVIOUS
<1>3. j \in job /\ ~IsPlain /\ IsOpen /\ HandleOfUnit
  BY <1>1, <1>2, JobIs DEF ReadInv, OneRead
<1>4. ReadOfRegion(j) /\ sets = [v \in Workers |-> sets[v]] /\ Sized(j.plan, sets[w])
      /\ DOMAIN wave = DOMAIN items
  BY <1>3 DEF JudgedInv, JobOfRegion, SetsSized, TilesJudged
<1>5. PICK base, d :
        /\ base \in {sets[w]} \cup {NoSet : v \in {u \in {w} : holds[u] = {}}}
        /\ d = DecodeTile(Job.plan, Job.table, rows, ReserveSet(base, SetCapacities(Job.plan)))
        /\ sets' = [sets EXCEPT ![w] = d.set]
        /\ items' = [items EXCEPT ![i] = IF ~(d.error = "none") THEN "failed" ELSE IF last THEN "done" ELSE @]
        /\ holds' = [holds EXCEPT ![w] =
                        IF d.error = "none" /\ ~last THEN {[item |-> i, next |-> at + 1]} ELSE {}]
        /\ wave' = [wave EXCEPT ![i] =
                        IF ~(d.error = "none") THEN <<d.error>>
                        ELSE IF Job.layout.kind = "Waves" THEN d.set.values.held ELSE @]
  BY DEF DecodeNext
<1>6. Len(tiles) = TilesEach(Job)
  BY <1>1, TilesAre DEF ReadInv
<1>7. at \in 1..TilesEach(Job)
  BY <1>1, TakenAt
<1>8. PICK t : t = tiles[at]
  OBVIOUS
<1>9. t \in 0..Len(j.rows) - 1
  BY <1>1, <1>2, <1>7, <1>8, TileOfItem DEF JudgedInv
<1> HIDE DEF tiles
<1>10. d.error = TileErr(j, t) /\ Sized(j.plan, d.set)
  <2>1. PICK to : to = RowsAt(j, t)
    OBVIOUS
  <2>2. to.grid = j.rows[t + 1]
    BY <2>1 DEF RowsAt
  <2>3. /\ IsPlan(j.plan) /\ HasTiles(j.plan.tiled.geometry)
        /\ j.plan.columns = unit.container.columns /\ Len(j.rows) \in Nat
        /\ InGrid(j.plan.tiled.geometry, j.rows, Len(j.rows))
    BY <1>3, <1>4, ReadHas
  <2>4. to.grid \in Nat /\ to.grid < NTiles(j.plan.tiled.geometry)
    <3>1. t + 1 \in 1..Len(j.rows)
      BY <1>9, <2>3
    <3> QED BY <2>2, <2>3, <3>1 DEF InGrid
  <2>5. j.table.columns = j.plan.columns
    BY <1>4, <2>3, TableColumns
  <2>6. Sized(j.plan, base)
    <3>1. base = sets[w] \/ base = NoSet
      BY <1>5
    <3> QED BY <1>4, <3>1 DEF Sized
  <2>7. d = DecodeTile(j.plan, j.table, to, ReserveSet(base, SetCapacities(j.plan)))
    BY <1>2, <1>5, <1>8, <2>1
  <2>8. d.error = ErrorAt(j.plan, j.table, to) /\ Sized(j.plan, d.set)
    <3>1. PICK plan, table : plan = j.plan /\ table = j.table
      OBVIOUS
    <3>2. /\ IsPlan(plan) /\ HasTiles(plan.tiled.geometry) /\ table.columns = plan.columns
          /\ to.grid \in Nat /\ to.grid < NTiles(plan.tiled.geometry) /\ Sized(plan, base)
          /\ d = DecodeTile(plan, table, to, ReserveSet(base, SetCapacities(plan)))
      BY <2>3, <2>4, <2>5, <2>6, <2>7, <3>1
    <3>3. d.error = ErrorAt(plan, table, to) /\ Sized(plan, d.set)
      BY <3>2, DecodedInTurn
    <3> QED BY <3>1, <3>3
  <2> QED BY <2>1, <2>8 DEF TileErr
<1>11. PICK e : e = d.error
  OBVIOUS
<1>12. Decided(w, i, at, e)
  <2>1. PICK last1 \in BOOLEAN : last1 <=> at = TilesEach(Job)
    OBVIOUS
  <2>2. /\ items' = [items EXCEPT ![i] = IF e # "none" THEN "failed" ELSE IF last1 THEN "done" ELSE @]
        /\ holds' = [holds EXCEPT ![w] =
                        IF e = "none" /\ ~last1 THEN {[item |-> i, next |-> at + 1]} ELSE {}]
    BY <1>5, <1>6, <1>11, <2>1
  <2>3. DOMAIN wave' = DOMAIN items /\ \A m \in DOMAIN items : m # i => wave'[m] = wave[m]
    BY <1>4, <1>5
  <2>4. e # "none" => wave'[i] = <<e>>
    <3>1. PICK x : wave' = [wave EXCEPT ![i] = x] /\ (e # "none" => x = <<e>>)
      BY <1>5, <1>11
    <3> QED BY <1>1, <1>4, <3>1
  <2> QED BY <2>1, <2>2, <2>3, <2>4 DEF Decided
<1> QED BY <1>1, <1>2, <1>5, <1>8, <1>10, <1>11, <1>12 DEF tiles

\* A failed item stays one.
LEMMA StaysFailedBefore ==
    ASSUME NEW i, DOMAIN items' = DOMAIN items,
           \A m \in DOMAIN items : items[m] = "failed" => items'[m] = "failed", FailedBefore(i)
    PROVE  FailedBefore(i)'
BY DEF FailedBefore

\* What is known of an item that stays as it was.
LEMMA StaysJudged ==
    ASSUME NEW j, NEW m \in DOMAIN items, ItemJudged(j, m), DOMAIN items' = DOMAIN items,
           \A k \in DOMAIN items : items[k] = "failed" => items'[k] = "failed",
           items'[m] = items[m], wave'[m] = wave[m]
    PROVE  ItemJudged(j, m)'
<1>1. FailedBefore(m) => FailedBefore(m)'
  BY StaysFailedBefore
<1>2. PICK state, error : state = items[m] /\ error = wave[m]
  OBVIOUS
<1>3. /\ state \in {"todo", "done", "failed", "skipped"}
      /\ state = "done" => CleanUpTo(j, m, TilesEach(j) + 1)
      /\ state = "failed" => \E n \in 1..TilesEach(j) : FailsAt(j, m, n) /\ error = <<TileErr(j, TilesOf(j, m)[n])>>
      /\ state = "skipped" => FailedBefore(m)
  BY <1>2 DEF ItemJudged
<1>4. items'[m] = state /\ wave'[m] = error
  BY <1>2
<1>5. ItemJudged(j, m)' <=>
        /\ items'[m] \in {"todo", "done", "failed", "skipped"}
        /\ items'[m] = "done" => CleanUpTo(j, m, TilesEach(j) + 1)
        /\ items'[m] = "failed" =>
              \E n \in 1..TilesEach(j) : FailsAt(j, m, n) /\ wave'[m] = <<TileErr(j, TilesOf(j, m)[n])>>
        /\ items'[m] = "skipped" => FailedBefore(m)'
  BY DEF ItemJudged
<1> QED BY <1>1, <1>3, <1>4, <1>5

LEMMA DecodeJudged ==
    ASSUME ReadInv, JudgedInv, NEW w \in Workers, NEW i, DecodeNext(w, i)
    PROVE  JudgedInv'
<1>1. PICK at : at = OrElse({h.next : h \in holds[w]}, 1)
  OBVIOUS
<1>2. PICK j : j = Job
  OBVIOUS
<1>3. PICK e : e = TileErr(j, TilesOf(j, i)[at])
  OBVIOUS
<1>4. /\ unit' = unit /\ slot' = slot /\ handle' = handle /\ job' = job /\ result' = result
      /\ Running /\ i \in DOMAIN items /\ Takes(w, i)
      /\ \E s : Sized(Job.plan, s) /\ sets' = [sets EXCEPT ![w] = s]
      /\ Decided(w, i, at, e)
  BY <1>1, <1>2, <1>3, DecodeNextIs
<1>5. job = {j}
  BY <1>2, <1>4, JobIs DEF ReadInv
<1>6. /\ items[i] = "todo" /\ at \in 1..TilesEach(j)
      /\ \A h \in holds[w] : h.item = i /\ h.next = at
      /\ \A v \in Workers \ {w} : \A h \in holds[v] : h.item # i
      /\ holds[w] = {} => at = 1
  BY <1>1, <1>2, <1>4, TakenAt
<1>7. TilesEach(j) \in Nat \ {0}
  BY <1>2, <1>4, TilesAre DEF ReadInv
<1>8. /\ DOMAIN wave = DOMAIN items
      /\ \A k \in 0..j.from - 1 : TileErr(j, k) = "none"
      /\ \A m \in DOMAIN items : ItemJudged(j, m)
      /\ \A v \in Workers : \A h \in holds[v] : CleanUpTo(j, h.item, h.next)
  BY <1>5 DEF JudgedInv, TilesJudged
<1>9. DOMAIN holds = Workers
  BY DEF ReadInv, WorkShared
<1>10. PICK last \in BOOLEAN, ok \in BOOLEAN : (last <=> at = TilesEach(j)) /\ (ok <=> e = "none")
  OBVIOUS
<1>11. /\ items' = [items EXCEPT ![i] = IF ~ok THEN "failed" ELSE IF last THEN "done" ELSE @]
       /\ holds' = [holds EXCEPT ![w] = IF ok /\ ~last THEN {[item |-> i, next |-> at + 1]} ELSE {}]
       /\ DOMAIN wave' = DOMAIN items
       /\ \A m \in DOMAIN items : m # i => wave'[m] = wave[m]
       /\ ~ok => wave'[i] = <<e>>
  BY <1>2, <1>4, <1>10 DEF Decided
<1>12. /\ DOMAIN items' = DOMAIN items
       /\ \A m \in DOMAIN items : m # i => items'[m] = items[m]
       /\ items'[i] = IF ~ok THEN "failed" ELSE IF last THEN "done" ELSE "todo"
  BY <1>4, <1>6, <1>11
<1>13. CleanUpTo(j, i, at)
  <2>1. CASE holds[w] = {}
    <3>1. at = 1
      BY <1>6, <2>1
    <3> QED BY <3>1 DEF CleanUpTo
  <2>2. CASE holds[w] # {}
    <3>1. PICK h \in holds[w] : h.item = i /\ h.next = at
      BY <1>6, <2>2
    <3> QED BY <1>8, <3>1
  <2> QED BY <2>1, <2>2
<1>14. ok => CleanUpTo(j, i, at + 1)
  <2>1. SUFFICES ASSUME ok, NEW m \in 1..(at + 1) - 1 PROVE TileErr(j, TilesOf(j, i)[m]) = "none"
    BY DEF CleanUpTo
  <2>2. m = at \/ m \in 1..at - 1
    BY <1>6, <1>7
  <2> QED BY <1>3, <1>10, <1>13, <2>1, <2>2 DEF CleanUpTo
<1>15. ItemJudged(j, i)'
  <2>1. CASE ~ok
    <3>1. FailsAt(j, i, at) /\ wave'[i] = <<TileErr(j, TilesOf(j, i)[at])>>
      BY <1>3, <1>10, <1>11, <1>13, <2>1 DEF FailsAt
    <3>2. items'[i] = "failed"
      BY <1>12, <2>1
    <3> QED BY <1>6, <3>1, <3>2 DEF ItemJudged
  <2>2. CASE ok /\ last
    <3>1. CleanUpTo(j, i, TilesEach(j) + 1) /\ items'[i] = "done"
      BY <1>10, <1>12, <1>14, <2>2
    <3> QED BY <3>1 DEF ItemJudged
  <2>3. CASE ok /\ ~last
    <3>1. items'[i] = "todo"
      BY <1>12, <2>3
    <3> QED BY <3>1 DEF ItemJudged
  <2> QED BY <2>1, <2>2, <2>3
<1>16. \A m \in DOMAIN items : ItemJudged(j, m)'
  <2>1. \A m \in DOMAIN items : items[m] = "failed" => items'[m] = "failed"
    BY <1>6, <1>12
  <2>2. ASSUME NEW m \in DOMAIN items, m # i PROVE ItemJudged(j, m)'
    BY <1>8, <1>11, <1>12, <2>1, <2>2, StaysJudged
  <2> QED BY <1>15, <2>2
<1>17. \A v \in Workers : \A h \in holds'[v] : CleanUpTo(j, h.item, h.next)
  <2>1. SUFFICES ASSUME NEW v \in Workers, NEW h \in holds'[v] PROVE CleanUpTo(j, h.item, h.next)
    OBVIOUS
  <2>2. CASE v # w
    <3>1. h \in holds[v]
      BY <1>9, <1>11, <2>2
    <3> QED BY <1>8, <3>1
  <2>3. CASE v = w
    <3>1. h = [item |-> i, next |-> at + 1] /\ ok
      BY <1>9, <1>11, <2>3
    <3>2. h.item = i /\ h.next = at + 1
      BY <3>1
    <3> QED BY <1>14, <3>1, <3>2
  <2> QED BY <2>2, <2>3
<1>18. TilesJudged'
  <2>1. job' = {j} /\ DOMAIN wave' = DOMAIN items'
    BY <1>4, <1>5, <1>11, <1>12
  <2>2. \A m \in DOMAIN items' : ItemJudged(j, m)'
    BY <1>12, <1>16
  <2> QED BY <1>8, <1>17, <2>1, <2>2 DEF TilesJudged
<1>19. SetsSized'
  <2>1. PICK s : Sized(j.plan, s) /\ sets' = [sets EXCEPT ![w] = s]
    BY <1>2, <1>4
  <2>2. sets = [v \in Workers |-> sets[v]] /\ \A v \in Workers : Sized(j.plan, sets[v])
    BY <1>5 DEF JudgedInv, SetsSized
  <2>3. sets' = [v \in Workers |-> sets'[v]] /\ \A v \in Workers : Sized(j.plan, sets'[v])
    BY <2>1, <2>2
  <2> QED BY <1>4, <1>5, <2>3 DEF SetsSized
<1>20. JobOfRegion'
  BY <1>4 DEF JudgedInv, JobOfRegion, ReadOfRegion, Whole
<1>21. IndexOfUnit' /\ FirstBadTile'
  BY <1>4, SameIndex, SameOutcome DEF JudgedInv
<1> QED BY <1>18, <1>19, <1>20, <1>21 DEF JudgedInv

LEMMA SkipJudged ==
    ASSUME ReadInv, JudgedInv, NEW i, Skip(i)
    PROVE  JudgedInv'
<1>1. /\ unit' = unit /\ slot' = slot /\ handle' = handle /\ job' = job /\ result' = result
      /\ sets' = sets /\ wave' = wave /\ holds' = holds
      /\ Running /\ i \in DOMAIN items /\ items[i] = "todo" /\ FailedBefore(i)
      /\ items' = [items EXCEPT ![i] = "skipped"]
  BY DEF Skip
<1>2. PICK j : j = Job /\ job = {j}
  BY <1>1, JobIs DEF ReadInv
<1>3. /\ DOMAIN wave = DOMAIN items
      /\ \A k \in 0..j.from - 1 : TileErr(j, k) = "none"
      /\ \A m \in DOMAIN items : ItemJudged(j, m)
      /\ \A v \in Workers : \A h \in holds[v] : CleanUpTo(j, h.item, h.next)
  BY <1>2 DEF JudgedInv, TilesJudged
<1>4. /\ DOMAIN items' = DOMAIN items /\ items'[i] = "skipped"
      /\ \A m \in DOMAIN items : m # i => items'[m] = items[m]
      /\ \A m \in DOMAIN items : items[m] = "failed" => items'[m] = "failed"
  BY <1>1
<1>5. ItemJudged(j, i)'
  <2>1. FailedBefore(i)'
    BY <1>1, <1>4, StaysFailedBefore
  <2> QED BY <1>4, <2>1 DEF ItemJudged
<1>6. ASSUME NEW m \in DOMAIN items, m # i PROVE ItemJudged(j, m)'
  <2>1. wave'[m] = wave[m]
    BY <1>1
  <2> QED BY <1>3, <1>4, <1>6, <2>1, StaysJudged
<1>7. TilesJudged'
  <2>1. job' = {j} /\ DOMAIN wave' = DOMAIN items' /\ \A m \in DOMAIN items' : ItemJudged(j, m)'
    BY <1>1, <1>2, <1>3, <1>4, <1>5, <1>6
  <2> QED BY <1>1, <1>3, <2>1 DEF TilesJudged
<1>8. SetsSized' /\ JobOfRegion'
  BY <1>1 DEF JudgedInv, SetsSized, JobOfRegion, ReadOfRegion, Whole
<1>9. IndexOfUnit' /\ FirstBadTile'
  BY <1>1, SameIndex, SameOutcome DEF JudgedInv
<1> QED BY <1>7, <1>8, <1>9 DEF JudgedInv

\* A place among rows of a fixed length is in one of the rows.
LEMMA RowOfPlace ==
    ASSUME NEW t \in Nat \ {0}, NEW f \in Nat, NEW k \in Nat, k < f * t
    PROVE  \E m \in 0..f - 1, l \in 1..t : k = m * t + l - 1
<1>1. PICK m \in Int, r \in 0..t - 1 : k = t * m + r
  <2>1. k \div t \in Int /\ k % t \in 0..t - 1 /\ k = t * (k \div t) + (k % t)
    OBVIOUS
  <2> QED BY <2>1
<1>2. PICK a \in Int : a = m * t
  OBVIOUS
<1>3. t * m = a
  BY <1>2
<1>4. k = a + r
  BY <1>1, <1>3
<1>5. m >= 0
  <2>1. SUFFICES ASSUME m < 0 PROVE FALSE
    OBVIOUS
  <2>2. PICK u \in Nat : u = 0 - m - 1
    BY <2>1
  <2>3. PICK b \in Nat : b = u * t
    OBVIOUS
  <2>4. m = 0 - u - 1
    BY <2>2
  <2>5. a = 0 - b - t
    BY <1>2, <2>3, <2>4
  <2> QED BY <1>4, <2>5
<1>6. m < f
  <2>1. SUFFICES ASSUME m >= f PROVE FALSE
    OBVIOUS
  <2>2. PICK u \in Nat : u = m - f
    BY <2>1
  <2>3. PICK b \in Nat, c \in Nat : b = u * t /\ c = f * t
    OBVIOUS
  <2>4. m = f + u
    BY <2>2
  <2>5. a = c + b
    BY <1>2, <2>3, <2>4
  <2> QED BY <1>4, <2>3, <2>5
<1>7. m \in 0..f - 1 /\ r + 1 \in 1..t /\ k = m * t + (r + 1) - 1
  BY <1>2, <1>4, <1>5, <1>6
<1> QED BY <1>7

\* The number of the tiles a read has decoded when its items before f are done.
TilesDone(j, f) == IF j.layout.kind = "Bands" THEN f * TilesEach(j) ELSE j.from + f

LEMMA TilesBefore ==
    ASSUME ReadInv, JudgedInv, Running, NEW f \in Nat, f <= ItemCount(Job),
           \A m \in 0..f - 1 : items[m] = "done",
           NEW k \in Nat, k < TilesDone(Job, f)
    PROVE  TileErr(Job, k) = "none"
<1>1. PICK j : j = Job
  OBVIOUS
<1>2. job = {j} /\ ~IsPlain /\ IsOpen
  BY <1>1, JobIs DEF ReadInv, OneRead
<1>3. /\ IsLayout(j.layout, j.plan.tiled.geometry, Len(j.rows))
      /\ Len(j.rows) \in Nat /\ j.from \in 0..Len(j.rows)
      /\ items = [i \in 0..ItemCount(j) - 1 |-> items[i]]
  BY <1>2 DEF ReadInv, ReadLaidOut
<1>4. TilesEach(j) \in Nat \ {0}
  BY <1>1, TilesAre DEF ReadInv
<1>5. ItemCount(j) \in Nat
  <2>1. Len(j.rows) - j.from \in Nat
    BY <1>3
  <2> QED BY <1>3, <2>1, MinIs DEF IsLayout, ItemCount
<1>6. ASSUME NEW m \in 0..f - 1, NEW l \in 1..TilesEach(j)
      PROVE  TileErr(j, TilesOf(j, m)[l]) = "none" /\ m \in DOMAIN items
  <2>1. m \in 0..ItemCount(j) - 1
    BY <1>1, <1>5
  <2>2. m \in DOMAIN items
    BY <1>3, <2>1
  <2>3. CleanUpTo(j, m, TilesEach(j) + 1)
    BY <1>2, <2>2 DEF JudgedInv, TilesJudged, ItemJudged
  <2>4. l \in 1..(TilesEach(j) + 1) - 1
    BY <1>4
  <2> QED BY <2>2, <2>3, <2>4 DEF CleanUpTo
<1>7. JobOfRegion
  BY DEF JudgedInv
<1>8. CASE j.layout.kind = "Bands"
  <2>1. PICK t \in Nat \ {0} : t = TilesEach(j)
    BY <1>4
  <2>2. k < f * t
    BY <1>1, <1>8, <2>1 DEF TilesDone
  <2>3. PICK m \in 0..f - 1, l \in 1..t : k = m * t + l - 1
    BY <2>1, <2>2, RowOfPlace
  <2>4. m \in DOMAIN items /\ l \in 1..TilesEach(Job) /\ TileErr(j, TilesOf(j, m)[l]) = "none"
    BY <1>1, <1>6, <2>1
  <2>5. TilesOf(Job, m)[l] =
          IF Job.layout.kind = "Bands" THEN m * TilesEach(Job) + l - 1 ELSE Job.from + m
    BY <1>7, <2>4, TileOfItem
  <2>6. TilesOf(j, m)[l] = k
    BY <1>1, <1>8, <2>1, <2>3, <2>5
  <2> QED BY <1>1, <2>4, <2>6
<1>9. CASE j.layout.kind # "Bands"
  <2>1. PICK from \in Nat : from = j.from
    BY <1>3
  <2>2. k < from + f
    BY <1>1, <1>9, <2>1 DEF TilesDone
  <2>3. CASE k < from
    <3>1. k \in 0..j.from - 1
      BY <2>1, <2>3
    <3> QED BY <1>1, <1>2, <3>1 DEF JudgedInv, TilesJudged
  <2>4. CASE k >= from
    <3>1. PICK m \in 0..f - 1 : k = from + m
      <4>1. k - from \in 0..f - 1 /\ k = from + (k - from)
        BY <2>2, <2>4
      <4> QED BY <4>1
    <3>2. TilesEach(j) = 1
      BY <1>9 DEF TilesEach
    <3>3. m \in DOMAIN items /\ 1 \in 1..TilesEach(Job) /\ TileErr(j, TilesOf(j, m)[1]) = "none"
      BY <1>1, <1>6, <3>2
    <3>4. TilesOf(Job, m)[1] =
            IF Job.layout.kind = "Bands" THEN m * TilesEach(Job) + 1 - 1 ELSE Job.from + m
      BY <1>7, <3>3, TileOfItem
    <3>5. TilesOf(j, m)[1] = k
      BY <1>1, <1>9, <2>1, <3>1, <3>4
    <3> QED BY <1>1, <3>3, <3>5
  <2> QED BY <2>1, <2>3, <2>4
<1> QED BY <1>8, <1>9

\* The errors a read's end is to be told by.
LEMMA OutcomeOf ==
    ASSUME ReadInv, JudgedInv, Running, unit' = unit, result'.region = Job.region
    PROVE  FailingTiles(result.region)' = [k \in 1..Len(Job.rows) |-> TileErr(Job, k - 1)]
<1>1. PICK j : j = Job
  OBVIOUS
<1>2. j \in job /\ HandleOfUnit /\ ~IsPlain /\ IsOpen
  BY <1>1, JobIs DEF ReadInv, OneRead
<1>3. ReadOfRegion(j)
  BY <1>2 DEF JudgedInv, JobOfRegion
<1>4. FailingTiles(j.region) = [k \in 1..Len(j.rows) |-> TileErr(j, k - 1)]
  BY <1>2, <1>3, FailingTilesAre
<1>5. FailingTiles(result.region)' = FailingIn(unit', result'.region)
  BY Zenon DEF FailingTiles, FailingIn, With
<1>6. FailingTiles(j.region) = FailingIn(unit, j.region)
  BY Zenon DEF FailingTiles, FailingIn, With
<1> QED BY <1>1, <1>4, <1>5, <1>6

\* What the end of a read leaves to judge: its outcome.
LEMMA EndJudged ==
    ASSUME JudgedInv, NEW r, NEW o, EndJob(r, o), unit' = unit, slot' = slot, handle' = handle,
           FirstBadTile'
    PROVE  JudgedInv'
<1>1. job' = {}
  BY DEF EndJob
<1>2. IndexOfUnit'
  BY SameIndex DEF JudgedInv
<1> QED BY <1>1, <1>2, IdleJudged

\* The first of the items that failed: those before it are done.
LEMMA FirstFailedItem ==
    ASSUME ReadInv, JudgedInv, Running, ItemsEnded, FailedItems # {},
           NEW first, first = CHOOSE i \in FailedItems : \A k \in FailedItems : i <= k
    PROVE  /\ first \in DOMAIN items /\ first \in Nat /\ items[first] = "failed"
           /\ first < ItemCount(Job)
           /\ \A m \in 0..first - 1 : items[m] = "done"
<1>1. PICK j : j = Job /\ job = {j}
  BY JobIs DEF ReadInv
<1>2. items = [i \in 0..ItemCount(j) - 1 |-> items[i]]
  BY <1>1 DEF ReadInv, ReadLaidOut
<1>3. ItemCount(j) \in Nat
  BY <1>1, PendingIsFinite
<1>4. DOMAIN items = 0..ItemCount(j) - 1
  BY <1>2
<1>5. FailedItems \in SUBSET Nat
  BY <1>3, <1>4 DEF FailedItems
<1>6. \E i \in FailedItems : \A k \in FailedItems : i <= k
  BY <1>5, LeastMember
<1>7. first \in FailedItems /\ \A k \in FailedItems : first <= k
  BY <1>6
<1>8. first \in DOMAIN items /\ items[first] = "failed" /\ first \in Nat
  BY <1>5, <1>7 DEF FailedItems
<1>9. ASSUME NEW m \in 0..first - 1
      PROVE  items[m] = "done"
  <2>1. m \in DOMAIN items
    BY <1>3, <1>4, <1>8
  <2>2. items[m] # "todo"
    BY <2>1 DEF ItemsEnded
  <2>3. \A k \in Nat : k <= m => k \notin FailedItems
    BY <1>7, <1>8
  <2>4. items[m] # "failed"
    BY <2>1, <2>3 DEF FailedItems
  <2>5. ~FailedBefore(m)
    <3>1. \A k \in DOMAIN items : k \in Nat
      BY <1>3, <1>4
    <3> QED BY <2>3, <3>1 DEF FailedBefore, FailedItems
  <2>6. items[m] \in {"todo", "done", "failed", "skipped"} /\ (items[m] = "skipped" => FailedBefore(m))
    BY <1>1, <2>1 DEF JudgedInv, TilesJudged, ItemJudged
  <2> QED BY <2>2, <2>4, <2>5, <2>6
<1> QED BY <1>1, <1>3, <1>4, <1>8, <1>9

LEMMA FailedJudged ==
    ASSUME ReadInv, JudgedInv, EndFailed
    PROVE  JudgedInv'
<1>1. PICK first : first = CHOOSE i \in FailedItems : \A k \in FailedItems : i <= k
  OBVIOUS
<1>2. PICK r : r = [kind |-> "failed", mode |-> Job.mode, region |-> Job.region,
                    error |-> wave[first][1], out |-> AfterFailure(Job, out)]
  OBVIOUS
<1>3. /\ Running /\ ItemsEnded /\ FailedItems # {}
      /\ unit' = unit /\ slot' = slot /\ handle' = handle
      /\ EndJob(r, AfterFailure(Job, out))
  BY <1>1, <1>2 DEF EndFailed
<1>4. PICK j : j = Job /\ job = {j}
  BY <1>3, JobIs DEF ReadInv
<1>5. /\ first \in DOMAIN items /\ first \in Nat /\ items[first] = "failed" /\ first < ItemCount(j)
      /\ \A m \in 0..first - 1 : items[m] = "done"
  BY <1>1, <1>3, <1>4, FirstFailedItem
<1>6. PICK n \in 1..TilesEach(j) : FailsAt(j, first, n) /\ wave[first] = <<TileErr(j, TilesOf(j, first)[n])>>
  BY <1>4, <1>5 DEF JudgedInv, TilesJudged, ItemJudged
<1>7. PICK t : t = TilesOf(j, first)[n]
  OBVIOUS
<1>8. JobOfRegion
  BY DEF JudgedInv
<1>9. /\ t \in 0..Len(j.rows) - 1
      /\ t = IF j.layout.kind = "Bands" THEN first * TilesEach(j) + n - 1 ELSE j.from + first
  BY <1>3, <1>4, <1>5, <1>6, <1>7, <1>8, TileOfItem
<1>10. Len(j.rows) \in Nat /\ TilesEach(j) \in Nat \ {0} /\ ItemCount(j) \in Nat /\ j.from \in Nat
  BY <1>3, <1>4, TilesAre, PendingIsFinite DEF ReadInv, ReadLaidOut
<1>11. t \in Nat /\ TileErr(j, t) # "none"
  BY <1>6, <1>7, <1>9, <1>10 DEF FailsAt
<1>12. ASSUME NEW k \in Nat, k < t
       PROVE  TileErr(j, k) = "none"
  <2>1. CASE k < TilesDone(j, first)
    <3>1. first <= ItemCount(Job)
      BY <1>4, <1>5, <1>10
    <3> QED BY <1>3, <1>4, <1>5, <2>1, <3>1, TilesBefore
  <2>2. CASE ~(k < TilesDone(j, first))
    <3>1. j.layout.kind = "Bands"
      BY <1>5, <1>9, <1>10, <1>12, <2>2 DEF TilesDone
    <3>2. PICK a \in Nat : a = first * TilesEach(j)
      BY <1>5, <1>10
    <3>3. t = a + n - 1 /\ ~(k < a)
      BY <1>9, <2>2, <3>1, <3>2 DEF TilesDone
    <3>4. PICK m \in 1..n - 1 : k = a + m - 1
      <4>1. n \in Nat
        BY <1>6, <1>10
      <4>2. k - a + 1 \in 1..n - 1 /\ k = a + (k - a + 1) - 1
        BY <1>12, <3>3, <4>1
      <4> QED BY <4>2
    <3>5. m \in 1..TilesEach(j)
      BY <1>6, <1>10
    <3>6. TilesOf(j, first)[m] = k
      <4>1. TilesOf(Job, first)[m] =
              IF Job.layout.kind = "Bands" THEN first * TilesEach(Job) + m - 1 ELSE Job.from + first
        BY <1>3, <1>4, <1>5, <1>8, <3>5, TileOfItem
      <4> QED BY <1>4, <3>1, <3>2, <3>4, <4>1
    <3> QED BY <1>6, <3>4, <3>6 DEF FailsAt, CleanUpTo
  <2> QED BY <2>1, <2>2
<1>13. result' = r
  BY <1>3 DEF EndJob
<1>14. PICK errors : errors = [k \in 1..Len(j.rows) |-> TileErr(j, k - 1)]
  OBVIOUS
<1>15. FailingTiles(result.region)' = errors
  <2>1. result'.region = Job.region
    BY <1>2, <1>13
  <2> QED BY <1>3, <1>4, <1>14, <2>1, OutcomeOf
<1>16. FirstFailing(errors) = TileErr(j, t)
  <2>1. t + 1 \in 1..Len(j.rows) /\ (t + 1) - 1 = t
    BY <1>9, <1>10
  <2>2. errors[t + 1] = TileErr(j, t)
    BY <1>14, <2>1
  <2>3. \A m \in 1..(t + 1) - 1 : errors[m] = "none"
    <3>1. SUFFICES ASSUME NEW m \in 1..(t + 1) - 1 PROVE errors[m] = "none"
      OBVIOUS
    <3>2. m \in 1..Len(j.rows) /\ m - 1 \in Nat /\ m - 1 < t
      BY <1>9, <1>10, SMTT(30)
    <3> QED BY <1>12, <1>14, <3>2
  <2>4. DOMAIN errors = 1..Len(j.rows)
    BY <1>14
  <2>5. FirstFailing(errors) = errors[t + 1]
    BY <1>10, <1>11, <2>1, <2>2, <2>3, <2>4, FirstFailingIs
  <2> QED BY <2>2, <2>5
<1>17. /\ r.kind = "failed" /\ r.error = wave[first][1] /\ r.mode = Job.mode
       /\ r.out = AfterFailure(Job, out)
  BY <1>2
<1>18. r.error = TileErr(j, t)
  BY <1>6, <1>7, <1>17
<1>19. r.mode = "physical" => r.out = Prefix
  BY <1>17 DEF AfterFailure
<1>20. FirstBadTile'
  <2>1. /\ result'.kind = "failed" /\ result'.error = FirstFailing(errors)
        /\ result'.mode = "physical" => result'.out = Prefix
    BY <1>13, <1>16, <1>17, <1>18, <1>19
  <2> QED BY <1>15, <2>1 DEF FirstBadTile
<1> QED BY <1>3, <1>20, EndJudged

\* Once items end without a failure, all of them are done.
LEMMA AllDone ==
    ASSUME ReadInv, JudgedInv, Running, ItemsEnded, FailedItems = {}
    PROVE  /\ ItemCount(Job) \in Nat
           /\ \A m \in 0..ItemCount(Job) - 1 : items[m] = "done"
<1>1. PICK j : j = Job /\ job = {j}
  BY JobIs DEF ReadInv
<1>2. items = [i \in 0..ItemCount(j) - 1 |-> items[i]]
  BY <1>1 DEF ReadInv, ReadLaidOut
<1>3. DOMAIN items = 0..ItemCount(j) - 1
  BY <1>2
<1>4. ASSUME NEW m \in DOMAIN items PROVE items[m] = "done"
  <2>1. items[m] # "todo" /\ items[m] # "failed" /\ ~FailedBefore(m)
    BY DEF ItemsEnded, FailedItems, FailedBefore
  <2>2. items[m] \in {"todo", "done", "failed", "skipped"} /\ (items[m] = "skipped" => FailedBefore(m))
    BY <1>1 DEF JudgedInv, TilesJudged, ItemJudged
  <2> QED BY <2>1, <2>2
<1> QED BY <1>1, <1>3, <1>4, PendingIsFinite

\* The tiles of the items are those of a wave, or all that are left.
LEMMA TilesOfItems ==
    ASSUME ReadInv, JudgedInv, Running
    PROVE  TilesDone(Job, ItemCount(Job)) =
             IF Job.layout.kind = "Waves" /\ NextFrom(Job) < Len(Job.rows) THEN NextFrom(Job)
             ELSE Len(Job.rows)
<1>1. PICK j : j = Job /\ job = {j}
  BY JobIs DEF ReadInv
<1>2. j \in job /\ ~IsPlain /\ IsOpen /\ HandleOfUnit
  BY <1>1 DEF ReadInv, OneRead
<1>3. ReadOfRegion(j)
  BY <1>2 DEF JudgedInv, JobOfRegion
<1>4. PICK g : g = j.plan.tiled.geometry
  OBVIOUS
<1>5. HasTiles(g) /\ (~j.section => Len(j.rows) = NTiles(g))
  BY <1>2, <1>3, <1>4, ReadHas
<1>6. /\ IsLayout(j.layout, g, Len(j.rows)) /\ Len(j.rows) \in Nat /\ j.from \in 0..Len(j.rows)
  BY <1>2, <1>4 DEF ReadInv, ReadLaidOut
<1>7. j.layout = LayoutOf(j.plan, j.section, Len(j.rows)) /\ j.section \in BOOLEAN
  BY <1>3 DEF ReadOfRegion
<1>8. CASE j.layout.kind = "Bands"
  <2>1. j.layout.count = BandsOf(g).count /\ ~j.section
    BY <1>4, <1>7, <1>8 DEF LayoutOf
  <2>2. BandsOf(g).count * BandsOf(g).tiles = Len(j.rows)
    BY <1>5, <2>1, BandsShare
  <2>3. TilesDone(j, ItemCount(j)) = BandsOf(g).count * BandsOf(g).tiles
    BY <1>4, <1>8, <2>1 DEF TilesDone, ItemCount, TilesEach
  <2> QED BY <1>1, <1>8, <2>2, <2>3
<1>9. CASE j.layout.kind # "Bands"
  <2>1. PICK n \in Nat, from \in Nat, slots \in Nat :
            n = Len(j.rows) /\ from = j.from /\ slots = j.layout.wave
    BY <1>6, <1>9 DEF IsLayout
  <2>2. j.layout.kind = "Waves" /\ from <= n
    BY <1>6, <1>9, <2>1 DEF IsLayout
  <2>3. TilesDone(j, ItemCount(j)) = from + MinOf(slots, n - from)
    BY <1>9, <2>1 DEF TilesDone, ItemCount
  <2>4. MinOf(slots, n - from) = IF from + slots < n THEN slots ELSE n - from
    BY <2>2 DEF MinOf
  <2>5. NextFrom(j) = from + slots
    BY <2>1 DEF NextFrom
  <2>6. TilesDone(j, ItemCount(j)) = IF from + slots < n THEN from + slots ELSE n
    BY <2>2, <2>3, <2>4
  <2> QED BY <1>1, <2>1, <2>2, <2>5, <2>6
<1> QED BY <1>8, <1>9

LEMMA EndItemsIs ==
    ASSUME EndItems
    PROVE  /\ Running /\ ItemsEnded /\ FailedItems = {}
           /\ unit' = unit /\ slot' = slot /\ handle' = handle
           /\ \/ /\ Job.layout.kind = "Waves" /\ NextFrom(Job) < Len(Job.rows)
                 /\ job' = {[Job EXCEPT !.from = NextFrom(Job)]}
                 /\ items' = ItemsOf(Job.layout, Len(Job.rows), NextFrom(Job))
                 /\ wave' = [i \in DOMAIN items' |-> <<>>]
                 /\ sets' = FreshSets /\ holds' = NoHolds /\ result' = result
              \/ /\ ~(Job.layout.kind = "Waves" /\ NextFrom(Job) < Len(Job.rows))
                 /\ \E given, o : EndJob([kind |-> "done", mode |-> Job.mode, region |-> Job.region,
                                          out |-> given], o)
<1>1. /\ Running /\ ItemsEnded /\ FailedItems = {}
      /\ unit' = unit /\ slot' = slot /\ handle' = handle
  BY DEF EndItems
<1>2. CASE Job.layout.kind = "Waves" /\ NextFrom(Job) < Len(Job.rows)
  <2>1. /\ job' = {[Job EXCEPT !.from = NextFrom(Job)]}
        /\ items' = ItemsOf(Job.layout, Len(Job.rows), NextFrom(Job))
        /\ wave' = [i \in DOMAIN items' |-> <<>>]
        /\ sets' = FreshSets /\ holds' = NoHolds /\ result' = result
    BY <1>2 DEF EndItems
  <2> QED BY <1>1, <1>2, <2>1
<1>3. CASE ~(Job.layout.kind = "Waves" /\ NextFrom(Job) < Len(Job.rows))
  <2>1. \E given, o : EndJob([kind |-> "done", mode |-> Job.mode, region |-> Job.region,
                              out |-> given], o)
    BY <1>3 DEF EndItems
  <2> QED BY <1>1, <1>3, <2>1
<1> QED BY <1>2, <1>3

LEMMA EndItemsJudged ==
    ASSUME ReadInv, JudgedInv, EndItems
    PROVE  JudgedInv'
<1>1. /\ Running /\ ItemsEnded /\ FailedItems = {}
      /\ unit' = unit /\ slot' = slot /\ handle' = handle
  BY EndItemsIs
<1>2. PICK j : j = Job /\ job = {j}
  BY <1>1, JobIs DEF ReadInv
<1>3. ItemCount(j) \in Nat /\ \A m \in 0..ItemCount(j) - 1 : items[m] = "done"
  BY <1>1, <1>2, AllDone
<1>4. \A k \in Nat : k < TilesDone(j, ItemCount(j)) => TileErr(j, k) = "none"
  <2>1. SUFFICES ASSUME NEW k \in Nat, k < TilesDone(Job, ItemCount(Job)) PROVE TileErr(Job, k) = "none"
    BY <1>2
  <2>2. ItemCount(Job) \in Nat /\ ItemCount(Job) <= ItemCount(Job)
    BY <1>2, <1>3
  <2> QED BY <1>1, <1>2, <1>3, <2>1, <2>2, TilesBefore
<1>5. Len(j.rows) \in Nat /\ IsJob(j)
  BY <1>2 DEF ReadInv, ReadLaidOut
<1>6. CASE /\ Job.layout.kind = "Waves" /\ NextFrom(Job) < Len(Job.rows)
           /\ job' = {[Job EXCEPT !.from = NextFrom(Job)]}
           /\ items' = ItemsOf(Job.layout, Len(Job.rows), NextFrom(Job))
           /\ wave' = [i \in DOMAIN items' |-> <<>>]
           /\ sets' = FreshSets /\ holds' = NoHolds /\ result' = result
  <2>1. PICK n : n = [j EXCEPT !.from = NextFrom(j)]
    OBVIOUS
  <2>2. /\ n.from = NextFrom(j)
        /\ n.region = j.region /\ n.plan = j.plan /\ n.rows = j.rows /\ n.section = j.section
        /\ n.table = j.table /\ n.layout = j.layout
    <3>1. DOMAIN j = JobFields
      <4>1. j = [field \in JobFields |-> j[field]]
        BY <1>5 DEF IsJob
      <4> QED BY <4>1
    <3>2. {"from", "region", "plan", "rows", "section", "table", "layout"} \subseteq DOMAIN j
      BY <3>1 DEF JobFields
    <3> QED BY <2>1, <3>2
  <2>3. job' = {n}
    BY <1>2, <1>6, <2>1
  <2>4. \A k : TileErr(n, k) = TileErr(j, k)
    BY <2>2 DEF TileErr, RowsAt
  <2>5. TilesDone(j, ItemCount(j)) = n.from
    BY <1>1, <1>2, <1>6, <2>2, TilesOfItems
  <2>6. \A k \in 0..n.from - 1 : TileErr(n, k) = "none"
    <3>1. n.from \in Int
      <4>1. j.layout.wave \in Nat /\ j.from \in Nat
        BY <1>2, <1>6 DEF ReadInv, ReadLaidOut, IsLayout
      <4> QED BY <2>2, <4>1 DEF NextFrom
    <3>2. \A k \in 0..n.from - 1 : k \in Nat /\ k < n.from
      BY <3>1
    <3> QED BY <1>4, <2>4, <2>5, <3>2
  <2>7. ReadOfRegion(n)
    <3>1. ReadOfRegion(j)
      BY <1>2 DEF JudgedInv, JobOfRegion
    <3>2. n.layout.kind # "Bands"
      BY <1>2, <1>6, <2>2
    <3> QED BY <2>2, <3>1, <3>2 DEF ReadOfRegion
  <2>8. JobOfRegion'
    BY <1>1, <2>3, <2>7 DEF JobOfRegion, ReadOfRegion, Whole
  <2>9. SetsSized'
    <3>1. sets' = [w \in Workers |-> NoSet]
      BY <1>6 DEF FreshSets
    <3> QED BY <2>3, <3>1 DEF SetsSized, Sized
  <2>10. TilesJudged'
    <3>1. \A i \in DOMAIN items' : items'[i] = "todo"
      BY <1>6 DEF ItemsOf
    <3>2. DOMAIN wave' = DOMAIN items' /\ \A w \in Workers : holds'[w] = {}
      BY <1>6 DEF NoHolds
    <3>3. \A i \in DOMAIN items' : ItemJudged(n, i)'
      BY <3>1 DEF ItemJudged
    <3> QED BY <2>3, <2>6, <3>2, <3>3 DEF TilesJudged
  <2>11. IndexOfUnit' /\ FirstBadTile'
    BY <1>1, <1>6, SameIndex, SameOutcome DEF JudgedInv
  <2> QED BY <2>8, <2>9, <2>10, <2>11 DEF JudgedInv
<1>7. CASE /\ ~(Job.layout.kind = "Waves" /\ NextFrom(Job) < Len(Job.rows))
           /\ \E given, o : EndJob([kind |-> "done", mode |-> Job.mode, region |-> Job.region,
                                    out |-> given], o)
  <2>1. PICK given, o, r : /\ r = [kind |-> "done", mode |-> Job.mode, region |-> Job.region,
                                   out |-> given]
                           /\ EndJob(r, o)
    BY <1>7
  <2>2. result' = r /\ r.kind = "done" /\ r.region = Job.region
    BY <2>1 DEF EndJob
  <2>3. PICK errors : errors = [k \in 1..Len(j.rows) |-> TileErr(j, k - 1)]
    OBVIOUS
  <2>4. FailingTiles(result.region)' = errors
    <3>1. result'.region = Job.region
      BY <2>2
    <3> QED BY <1>1, <1>2, <2>3, <3>1, OutcomeOf
  <2>5. TilesDone(j, ItemCount(j)) = Len(j.rows)
    BY <1>1, <1>2, <1>7, TilesOfItems
  <2>6. \A k \in DOMAIN errors : errors[k] = "none"
    <3>1. SUFFICES ASSUME NEW k \in 1..Len(j.rows) PROVE TileErr(j, k - 1) = "none"
      BY <2>3
    <3>2. k - 1 \in Nat /\ k - 1 < Len(j.rows)
      BY <1>5
    <3> QED BY <1>4, <2>5, <3>2
  <2>7. FirstFailing(errors) = "none"
    BY <2>6, NoneFails
  <2>8. FirstBadTile'
    BY <2>2, <2>4, <2>7 DEF FirstBadTile
  <2> QED BY <1>1, <2>1, <2>8, EndJudged
<1> QED BY <1>6, <1>7, EndItemsIs

LEMMA NextJudged ==
    ASSUME ReadInv, JudgedInv, [Next]_vars
    PROVE  JudgedInv'
<1>1. CASE Open \/ OpenPlain \/ Close
  BY <1>1, OpenJudged
<1>2. CASE PlainReads
  BY <1>2, PlainJudged
<1>3. CASE Read
  BY <1>3, StartJudged
<1>4. CASE Work
  BY <1>4, DecodeJudged DEF Work
<1>5. CASE Leave
  BY <1>5, SkipJudged DEF Leave
<1>6. CASE EndFailed
  BY <1>6, FailedJudged
<1>7. CASE EndItems
  BY <1>7, EndItemsJudged
<1>8. CASE UNCHANGED vars
  <2>1. /\ unit' = unit /\ slot' = slot /\ handle' = handle /\ job' = job /\ result' = result
        /\ sets' = sets /\ wave' = wave /\ holds' = holds /\ items' = items
    BY <1>8 DEF vars
  <2>2. JobOfRegion' /\ SetsSized'
    BY <2>1 DEF JudgedInv, JobOfRegion, ReadOfRegion, Whole, SetsSized
  <2>3. TilesJudged'
    BY <2>1 DEF JudgedInv, TilesJudged, ItemJudged, FailedBefore
  <2>4. IndexOfUnit' /\ FirstBadTile'
    BY <2>1, SameIndex, SameOutcome DEF JudgedInv
  <2> QED BY <2>2, <2>3, <2>4 DEF JudgedInv
<1> QED BY <1>1, <1>2, <1>3, <1>4, <1>5, <1>6, <1>7, <1>8 DEF Next

\* A read that fails reports the first tile of its region that does not decode, the one
\* a single worker with a fresh scratch would stop at, and one that succeeds has none:
\* whatever the workers decoded before, whichever they took, and whatever rows of the
\* table were copied for a section.  A physical read that fails leaves its caller's
\* vector as it was.
THEOREM ReadReportsFirstBadTile == Spec => []FirstBadTile
<1>1. Init => JudgedInv
  BY InitJudged
<1>2. ReadInv /\ JudgedInv /\ [Next]_vars => JudgedInv'
  BY NextJudged
<1>3. JudgedInv => FirstBadTile
  BY DEF JudgedInv
<1> QED BY <1>1, <1>2, <1>3, ReadIsShared, PTL DEF Spec

-----------------------------------------------------------------------------
(* What the buffers of a reader are promised. *)

ReaderBuffers == {"shape", "tileRows", "coordinates", "compacted", "unit"}

Capacities == [ReaderBuffers -> Nat]

AtMost(a, b) == \A buffer \in ReaderBuffers : a[buffer] <= b[buffer]

LEMMA NeedIs ==
    ASSUME NEW a \in Capacities, NEW b \in Capacities
    PROVE  /\ Need(a, b) \in Capacities /\ AtMost(a, Need(a, b)) /\ AtMost(b, Need(a, b))
           /\ \A p \in Capacities : AtMost(a, p) /\ AtMost(b, p) => AtMost(Need(a, b), p)
<1>1. Need(a, b) = [buffer \in ReaderBuffers |-> MaxOf(a[buffer], b[buffer])]
  BY DEF Need, Capacities
<1>2. \A buffer \in ReaderBuffers : a[buffer] \in Nat /\ b[buffer] \in Nat
  BY DEF Capacities
<1>3. \A m, n \in Nat : MaxOf(m, n) \in {m, n} /\ m <= MaxOf(m, n) /\ n <= MaxOf(m, n)
  BY DEF MaxOf
<1> QED BY <1>1, <1>2, <1>3 DEF AtMost, Capacities

\* The lengths of a heap's streams add up.
AddStep(c, a, x) == a + x

AddedUp(c, s, k, a) == a \in Nat

Additions == INSTANCE Folding WITH Step <- AddStep, Kept <- AddedUp

LEMMA AdditionsOrdered == Additions!WellOrdered
BY LeastMember DEF Additions!WellOrdered

LEMMA HeapLenIs ==
    ASSUME NEW lens, NEW n \in Nat, DOMAIN lens = 1..n, \A k \in 1..n : lens[k] \in Nat
    PROVE  HeapLen(lens) \in Nat
<1>1. HeapLen(lens) = Additions!Fold(0, 0, lens)
  BY DEF HeapLen, Additions!Fold, AddStep, FoldLeft, MapThenFoldSet, Max, Additions!Greatest
<1>2. AddedUp(0, lens, 0, 0)
  BY DEF AddedUp
<1>3. \A k \in 1..n : \A a : AddedUp(0, lens, k - 1, a) => AddedUp(0, lens, k, AddStep(0, a, lens[k]))
  BY DEF AddedUp, AddStep
<1>4. AddedUp(0, lens, n, Additions!Fold(0, 0, lens))
  BY <1>2, <1>3, AdditionsOrdered, Additions!FoldKeeps
<1> QED BY <1>1, <1>4 DEF AddedUp

LEMMA RowBytesIs ==
    ASSUME NEW columns, IsFiniteSet(DOMAIN columns)
    PROVE  RowBytes(columns) \in Nat
<1>1. PICK taken : taken = {c \in DOMAIN columns : columns[c] # {}}
  OBVIOUS
<1>2. IsFiniteSet(taken)
  BY <1>1, FS_Subset
<1>3. Cardinality(taken) \in Nat
  BY <1>2, FS_CardinalityType
<1> QED BY <1>1, <1>3 DEF RowBytes

LEMMA UnitLenIs ==
    ASSUME NEW c, TypedTable(c), c.header.naxis2 \in Nat
    PROVE  UnitLen(c) \in Nat
<1>1. Len(c.rows) \in Nat
  BY DEF TypedTable
<1>2. RowBytes(c.columns) \in Nat
  BY RowBytesIs DEF TypedTable
<1>3. WholeTable(c).heapLen \in Nat
  <2>1. PICK lens : lens = [k \in DOMAIN c.heap |-> c.heap[k].len]
    OBVIOUS
  <2>2. PICK n \in Nat : n = Len(c.heap) /\ DOMAIN c.heap = 1..n
    BY DEF TypedTable
  <2>3. DOMAIN lens = 1..n /\ \A k \in 1..n : lens[k] \in Nat
    BY <2>1, <2>2 DEF TypedTable
  <2>4. HeapLen(lens) \in Nat
    BY <2>3, HeapLenIs
  <2> QED BY <2>1, <2>4 DEF WholeTable
<1> QED BY <1>1, <1>2, <1>3 DEF UnitLen

\* The bytes of the copied rows of a table.
LEMMA TileRowsLenIs ==
    ASSUME NEW table, NEW rows, NEW n \in Nat, DOMAIN rows = 1..n, Len(rows) = n,
           \A i \in 1..n : TypedRow(table, rows[i]), IsFiniteSet(DOMAIN table.columns)
    PROVE  TileRowsLen(table, rows) \in Nat
<1>1. PICK copy : copy = CompactTable(table, rows)
  OBVIOUS
<1>2. TileRowsLen(table, rows) = IF copy.error # "none" THEN 0
                                 ELSE Len(rows) * RowBytes(table.columns) + copy.heapLen
  BY <1>1 DEF TileRowsLen, With
<1>3. ASSUME copy.error = "none" PROVE copy.heapLen \in Nat
  <2>0. CopyOf(table, rows, n, copy)
    BY <1>1, CompactTableIs
  <2>1. PICK all : RowsCopied(table, rows, n, all) /\ copy.error = all.error /\ copy.heapLen = all.len
    BY <2>0 DEF CopyOf
  <2> QED BY <1>3, <2>1 DEF RowsCopied, IsCopy
<1>4. RowBytes(table.columns) \in Nat
  BY RowBytesIs
<1>5. \A a, b \in Nat : a * b \in Nat
  OBVIOUS
<1> QED BY <1>2, <1>3, <1>4, <1>5

\* What a region of the unit needs, if it is one of its image.
LEMMA NeedOfIs ==
    ASSUME HandleOfUnit, ~IsPlain,
           NEW tiled, tiled = TiledImage(unit.container.header), tiled.error = "none",
           NEW k \in DOMAIN unit.regions,
           unit.regions[k].kind = "Section" =>
                RegionError(unit.regions[k].ranges, tiled.image.shape) = "none"
    PROVE  NeedOf(unit.container, tiled, unit.regions[k], unit.resident) \in Capacities
<1>0. PICK c : c = unit.container
  OBVIOUS
<1>1. PICK region : region = unit.regions[k]
  OBVIOUS
<1>2. TypedHeader(c.header) /\ TypedTable(c) /\ TypedRegion(region)
  BY <1>0, <1>1, UnitsAssumption DEF HandleOfUnit, IsPlain
<1>3. PICK g : g = tiled.geometry
  OBVIOUS
<1>4. IsGrid(g) /\ g.dims = tiled.image.shape /\ c.header.naxis2 = NTiles(g)
  BY <1>0, <1>2, <1>3, TiledImageHas
<1>5. c.header.naxis2 \in Nat
  BY <1>4, NTilesIs
<1>6. PICK resident : resident = unit.resident
  OBVIOUS
<1>7. NoGrowth \in Capacities
  BY DEF NoGrowth, Capacities, ReaderBuffers
<1>8. CASE region.kind = "All"
  <2>1. PICK bytes : bytes = IF resident THEN 0 ELSE UnitLen(c)
    OBVIOUS
  <2>2. bytes \in Nat
    BY <1>2, <1>5, <2>1, UnitLenIs
  <2>3. NeedOf(c, tiled, region, resident) = [NoGrowth EXCEPT !.unit = bytes]
    BY <1>8, <2>1 DEF NeedOf
  <2>4. [NoGrowth EXCEPT !.unit = bytes] \in Capacities
    BY <1>7, <2>2 DEF Capacities
  <2> QED BY <1>0, <1>1, <1>6, <2>3, <2>4
<1>9. CASE region.kind = "Section"
  <2>1. PICK ranges : ranges = region.ranges
    OBVIOUS
  <2>2. ranges = RangesIn(g.dims, region) /\ RegionError(ranges, g.dims) = "none"
    BY <1>1, <1>4, <1>9, <2>1 DEF RangesIn
  <2>3. PICK rows : rows = SelectRows(g, ranges)
    OBVIOUS
  <2>4. /\ IsSeq(rows) /\ Len(rows) \in Nat
        /\ ShapeProduct(RegionShape(ranges)) = 0 => Len(rows) = 0
        /\ ShapeProduct(RegionShape(ranges)) # 0 => InGrid(g, rows, Len(rows))
    BY <1>2, <1>4, <1>9, <2>2, <2>3, RegionRowsAre
  <2>5. PICK axes : axes = Len(ranges)
    OBVIOUS
  <2>6. axes \in Nat
    BY <1>2, <1>9, <2>1, <2>5 DEF TypedRegion
  <2>7. PICK n \in Nat : n = Len(rows) /\ DOMAIN rows = 1..n
    BY <2>4 DEF IsSeq
  <2>8. \A i \in 1..n : TypedRow(Whole, rows[i])
    <3>1. SUFFICES ASSUME NEW i \in 1..n PROVE TypedRow(Whole, rows[i])
      OBVIOUS
    <3>2. InGrid(g, rows, n)
      BY <2>4, <2>7, <3>1
    <3>3. rows[i] \in Nat /\ rows[i] < NTiles(g)
      BY <3>1, <3>2 DEF InGrid
    <3> QED BY <1>0, <1>4, <1>5, <3>3, WholeRows
  <2>9. PICK bytes : bytes = TileRowsLen(WholeTable(c), rows)
    OBVIOUS
  <2>10. bytes \in Nat
    <3>1. IsFiniteSet(DOMAIN Whole.columns)
      BY <1>0, <1>2, WholeIs DEF TypedTable
    <3> QED BY <1>0, <2>7, <2>8, <2>9, <3>1, TileRowsLenIs DEF Whole
  <2>11. NeedOf(c, tiled, region, resident) =
           IF rows = <<>> THEN [NoGrowth EXCEPT !.shape = axes]
           ELSE [NoGrowth EXCEPT !.shape = axes, !.tileRows = n, !.coordinates = axes, !.compacted = bytes]
    BY <1>3, <1>9, <2>1, <2>3, <2>5, <2>7, <2>9 DEF NeedOf, With
  <2>12. [NoGrowth EXCEPT !.shape = axes] \in Capacities
    BY <1>7, <2>6 DEF Capacities
  <2>13. [NoGrowth EXCEPT !.shape = axes, !.tileRows = n, !.coordinates = axes, !.compacted = bytes]
           \in Capacities
    BY <1>7, <2>6, <2>7, <2>10 DEF Capacities
  <2> QED BY <1>0, <1>1, <1>6, <2>11, <2>12, <2>13
<1> QED BY <1>2, <1>8, <1>9 DEF TypedRegion

\* What view_bytes adds up over the regions.
GrowStep(c, a, region) == Need(a, NeedOf(c[1], c[2], region, c[3]))

CoversNeeds(c, regions, k, a) ==
    /\ a \in Capacities /\ AtMost(c[4], a)
    /\ \A i \in 1..k : AtMost(NeedOf(c[1], c[2], regions[i], c[3]), a)

Growths == INSTANCE Folding WITH Step <- GrowStep, Kept <- CoversNeeds

LEMMA GrowthsOrdered == Growths!WellOrdered
BY LeastMember DEF Growths!WellOrdered

LEMMA AtMostTransitive ==
    ASSUME NEW a \in Capacities, NEW b \in Capacities, NEW c \in Capacities, AtMost(a, b), AtMost(b, c)
    PROVE  AtMost(a, c)
BY DEF AtMost, Capacities

LEMMA ViewBytesIs ==
    ASSUME HandleOfUnit, ~IsPlain,
           NEW tiled, tiled = TiledImage(unit.container.header), tiled.error = "none",
           NEW held \in Capacities,
           NEW p \in ViewBytes(unit.container, tiled, unit.regions, unit.resident, held)
    PROVE  /\ p \in Capacities /\ AtMost(held, p)
           /\ \A k \in DOMAIN unit.regions :
                AtMost(NeedOf(unit.container, tiled, unit.regions[k], unit.resident), p)
<1>0. PICK regions : regions = unit.regions
  OBVIOUS
<1>1. PICK n \in Nat : DOMAIN regions = 1..n
  BY <1>0, UnitsAssumption DEF HandleOfUnit
<1>2. PICK c : c = <<unit.container, tiled, unit.resident, held>>
  OBVIOUS
<1>3. c[1] = unit.container /\ c[2] = tiled /\ c[3] = unit.resident /\ c[4] = held
  BY <1>2
<1>4. p = FoldLeft(LAMBDA h, r : Need(h, NeedOf(unit.container, tiled, r, unit.resident)), held, regions)
      /\ \A k \in DOMAIN regions : Viewable(unit.container, tiled, regions[k])
  BY <1>0 DEF ViewBytes
<1>5. p = Growths!Fold(c, held, regions)
  BY <1>3, <1>4 DEF Growths!Fold, GrowStep, FoldLeft, MapThenFoldSet, Max, Growths!Greatest
<1>6. ASSUME NEW k \in 1..n PROVE NeedOf(c[1], c[2], regions[k], c[3]) \in Capacities
  <2>1. PICK region : region = regions[k]
    OBVIOUS
  <2>2. region.kind = "Section" => RegionError(region.ranges, tiled.image.shape) = "none"
    BY <1>1, <1>4, <2>1 DEF Viewable
  <2> QED BY <1>0, <1>1, <1>3, <2>1, <2>2, NeedOfIs
<1>7. CoversNeeds(c, regions, 0, held)
  <2>1. AtMost(held, held)
    BY DEF AtMost, Capacities
  <2> QED BY <1>3, <2>1 DEF CoversNeeds
<1>8. ASSUME NEW k \in 1..n, NEW a, CoversNeeds(c, regions, k - 1, a)
      PROVE  CoversNeeds(c, regions, k, GrowStep(c, a, regions[k]))
  <2>1. PICK more : more = NeedOf(c[1], c[2], regions[k], c[3])
    OBVIOUS
  <2>2. more \in Capacities /\ a \in Capacities /\ AtMost(c[4], a)
    BY <1>6, <1>8, <2>1 DEF CoversNeeds
  <2>3. PICK b : b = Need(a, more)
    OBVIOUS
  <2>4. b \in Capacities /\ AtMost(a, b) /\ AtMost(more, b)
    BY <2>2, <2>3, NeedIs
  <2>5. AtMost(c[4], b)
    BY <1>3, <2>2, <2>4, AtMostTransitive
  <2>6. ASSUME NEW i \in 1..k PROVE AtMost(NeedOf(c[1], c[2], regions[i], c[3]), b)
    <3>1. CASE i = k
      BY <2>1, <2>4, <3>1
    <3>2. CASE i \in 1..k - 1
      <4>1. PICK less : less = NeedOf(c[1], c[2], regions[i], c[3])
        OBVIOUS
      <4>2. AtMost(less, a)
        BY <1>8, <3>2, <4>1 DEF CoversNeeds
      <4>3. i \in 1..n
        BY <3>2
      <4>4. less \in Capacities
        BY <1>6, <4>1, <4>3
      <4> QED BY <2>2, <2>4, <4>1, <4>2, <4>4, AtMostTransitive
    <3> QED BY <3>1, <3>2
  <2>7. GrowStep(c, a, regions[k]) = b
    BY <2>1, <2>3 DEF GrowStep
  <2> QED BY <2>4, <2>5, <2>6, <2>7 DEF CoversNeeds
<1>9. CoversNeeds(c, regions, n, p)
  BY <1>1, <1>5, <1>7, <1>8, GrowthsOrdered, Growths!FoldKeeps
<1> QED BY <1>0, <1>1, <1>3, <1>9 DEF CoversNeeds

\* The capacities of the reader's buffers are within each promise of the handle, and so
\* is what any region the handle was made for needs.
PromiseKept ==
    /\ buffers \in Capacities
    /\ \A h \in handle :
        /\ IsPlain => h.image = GeometryOf(unit) /\ Len(h.image.shape) \in Nat
        /\ \A p \in h.promised :
            /\ p \in Capacities /\ AtMost(buffers, p)
            /\ \A k \in DOMAIN unit.regions :
                IF IsPlain THEN unit.regions[k].kind = "Section" => Len(h.image.shape) <= p.shape
                ELSE AtMost(NeedOf(unit.container, h.tiled, unit.regions[k], unit.resident), p)

LEMMA SamePromise ==
    ASSUME PromiseKept, unit' = unit, handle' = handle, buffers' = buffers
    PROVE  PromiseKept'
<1>1. GeometryOf(unit)' = GeometryOf(unit)
  BY DEF GeometryOf
<1> QED BY <1>1 DEF PromiseKept, IsPlain

LEMMA InitPromise ==
    ASSUME Init
    PROVE  PromiseKept
<1>1. NoGrowth \in Capacities
  BY DEF NoGrowth, Capacities, ReaderBuffers
<1> QED BY <1>1 DEF Init, PromiseKept

\* A handle on a tiled image promises what its regions need.
LEMMA OpenPromise ==
    ASSUME ReadInv, PromiseKept, Open
    PROVE  PromiseKept'
<1>1. unit' = unit /\ buffers' = buffers /\ ~IsPlain /\ ~IsPlain'
  BY DEF Open, IsPlain
<1>2. HandleOfUnit /\ buffers \in Capacities
  BY DEF ReadInv, PromiseKept
<1>3. PICK tiled : tiled = TiledImage(unit.container.header)
  OBVIOUS
<1>4. PICK promised : promised = ViewBytes(unit.container, tiled, unit.regions, unit.resident, buffers)
  OBVIOUS
<1>5. ASSUME NEW h \in handle' PROVE h.tiled = tiled /\ h.promised = promised /\ tiled.error = "none"
  BY <1>3, <1>4, <1>5 DEF Open, RegionsOf
<1>6. ASSUME NEW h \in handle', NEW p \in h.promised
      PROVE  /\ p \in Capacities /\ AtMost(buffers, p)
             /\ \A k \in DOMAIN unit.regions :
                  AtMost(NeedOf(unit.container, h.tiled, unit.regions[k], unit.resident), p)
  <2>1. h.tiled = tiled /\ p \in promised /\ tiled.error = "none"
    BY <1>5, <1>6
  <2> QED BY <1>1, <1>2, <1>3, <1>4, <2>1, ViewBytesIs
<1> QED BY <1>1, <1>2, <1>6 DEF PromiseKept

\* A handle on a plain image promises the shape of a section.
LEMMA OpenPlainPromise ==
    ASSUME ReadInv, PromiseKept, OpenPlain
    PROVE  PromiseKept'
<1>1. unit' = unit /\ buffers' = buffers /\ IsPlain /\ IsPlain'
  BY DEF OpenPlain, IsPlain
<1>2. unit \in Units /\ buffers \in Capacities
  BY DEF ReadInv, HandleOfUnit, PromiseKept
<1>3. PICK g : g = GeometryOf(unit)
  OBVIOUS
<1>4. PICK sections : sections = {k \in DOMAIN unit.regions : unit.regions[k].kind = "Section"}
  OBVIOUS
<1>5. ASSUME NEW h \in handle'
      PROVE  /\ h.image = g /\ g.error = "none"
             /\ \A p \in h.promised :
                  p = [buffers EXCEPT !.shape = IF sections = {} THEN @ ELSE MaxOf(@, Len(g.shape))]
  <2>1. PICK short \in BOOLEAN : short <=> Len(unit.plain.bytes) < ShapeProduct(unit.plain.axes) * ElemSize(unit.plain.bitpix)
    OBVIOUS
  <2>2. PICK error : error = IF short THEN "UnexpectedEof" ELSE g.error
    OBVIOUS
  <2>3. PICK promised :
          promised = {[buffers EXCEPT !.shape = IF ks = {} THEN @ ELSE MaxOf(@, Len(g.shape))] :
                        ks \in {q \in {sections} :
                                \A k \in q : RegionError(unit.regions[k].ranges, g.shape) = "none"}}
    OBVIOUS
  <2>4. handle' = IF error # "none" THEN {} ELSE {[image |-> g, promised |-> promised]}
    BY <1>3, <1>4, <2>1, <2>2, <2>3, Zenon DEF OpenPlain
  <2>5. h.image = g /\ h.promised = promised /\ error = "none"
    BY <1>5, <2>4
  <2>6. \A p \in promised :
          p = [buffers EXCEPT !.shape = IF sections = {} THEN @ ELSE MaxOf(@, Len(g.shape))]
    BY <2>3
  <2> QED BY <2>2, <2>5, <2>6
<1>6. ASSUME g.error = "none" PROVE Len(g.shape) \in Nat
  <2>1. g.shape = unit.plain.axes
    BY <1>1, <1>3, <1>6 DEF GeometryOf, PlainGeometry, With, IsPlain
  <2> QED BY <1>1, <1>2, <2>1, UnitsAssumption DEF IsPlain
<1>7. ASSUME NEW h \in handle'
      PROVE  /\ h.image = g /\ Len(h.image.shape) \in Nat
             /\ \A p \in h.promised :
                  /\ p \in Capacities /\ AtMost(buffers, p)
                  /\ \A k \in DOMAIN unit.regions :
                        unit.regions[k].kind = "Section" => Len(h.image.shape) <= p.shape
  <2>1. PICK axes \in Nat : axes = Len(h.image.shape) /\ axes = Len(g.shape)
    BY <1>5, <1>6, <1>7
  <2>2. SUFFICES ASSUME NEW p \in h.promised
                 PROVE  /\ p \in Capacities /\ AtMost(buffers, p)
                        /\ sections # {} => axes <= p.shape
    BY <1>4, <1>5, <1>7, <2>1
  <2>3. PICK shape : shape = IF sections = {} THEN buffers.shape ELSE MaxOf(buffers.shape, axes)
    OBVIOUS
  <2>4. buffers.shape \in Nat
    BY <1>2 DEF Capacities, ReaderBuffers
  <2>5. shape \in Nat /\ buffers.shape <= shape /\ (sections # {} => axes <= shape)
    BY <2>3, <2>4 DEF MaxOf
  <2>6. p = [buffers EXCEPT !.shape = shape]
    BY <1>5, <1>7, <2>1, <2>3
  <2>7. p \in Capacities /\ p.shape = shape
        /\ \A buffer \in ReaderBuffers : buffer # "shape" => p[buffer] = buffers[buffer]
    BY <1>2, <2>5, <2>6 DEF Capacities, ReaderBuffers
  <2>8. AtMost(buffers, p)
    BY <1>2, <2>5, <2>7 DEF AtMost, Capacities
  <2> QED BY <2>5, <2>7, <2>8
<1>8. GeometryOf(unit)' = g
  BY <1>1, <1>3 DEF GeometryOf
<1> QED BY <1>1, <1>2, <1>7, <1>8 DEF PromiseKept

\* What a read fetches for a region of the unit is what view_bytes takes it to need.
LEMMA FetchedIsNeeded ==
    ASSUME HandleOfUnit, ~IsPlain,
           NEW tiled, tiled = TiledImage(unit.container.header), tiled.error = "none",
           NEW k \in DOMAIN unit.regions, NEW region, region = unit.regions[k],
           RegionError(RangesIn(tiled.image.shape, region), tiled.image.shape) = "none",
           NEW rows,
           rows = IF region.kind = "Section"
                  THEN SelectRows(tiled.geometry, RangesIn(tiled.image.shape, region))
                  ELSE Places(NTiles(tiled.geometry)),
           NEW table,
           table = IF region.kind = "Section" THEN CompactTable(Whole, rows) ELSE Whole
    PROVE  FetchedInto(region, rows, table, unit.resident)
             = NeedOf(unit.container, tiled, region, unit.resident)
<1>1. PICK c : c = unit.container
  OBVIOUS
<1>2. TypedHeader(c.header) /\ TypedTable(c) /\ TypedRegion(region)
  BY <1>1, UnitsAssumption DEF HandleOfUnit, IsPlain
<1>3. PICK g : g = tiled.geometry
  OBVIOUS
<1>4. IsGrid(g) /\ g.dims = tiled.image.shape /\ c.header.naxis2 = NTiles(g)
  BY <1>1, <1>2, <1>3, TiledImageHas
<1>5. PICK resident : resident = unit.resident
  OBVIOUS
<1>6. Whole = WholeTable(c) /\ Whole.columns = c.columns /\ Whole.rows = c.rows
  BY <1>1, WholeIs DEF Whole
<1>7. CASE region.kind = "All"
  <2>1. table = Whole
    BY <1>7
  <2>2. PICK bytes : bytes = UnitLen(c)
    OBVIOUS
  <2>3. bytes = Len(table.rows) * RowBytes(table.columns) + table.heapLen
    BY <1>6, <2>1, <2>2 DEF UnitLen
  <2>4. NeedOf(c, tiled, region, resident) = [NoGrowth EXCEPT !.unit = IF resident THEN 0 ELSE bytes]
    BY <1>7, <2>2 DEF NeedOf
  <2>5. FetchedInto(region, rows, table, resident)
          = [NoGrowth EXCEPT !.unit = IF resident THEN 0 ELSE bytes]
    BY <1>7, <2>3 DEF FetchedInto
  <2> QED BY <1>1, <1>5, <2>4, <2>5
<1>8. CASE region.kind = "Section"
  <2>1. PICK ranges : ranges = region.ranges
    OBVIOUS
  <2>2. ranges = RangesIn(g.dims, region) /\ RegionError(ranges, g.dims) = "none"
    BY <1>4, <1>8, <2>1 DEF RangesIn
  <2>3. rows = SelectRows(g, ranges) /\ table = CompactTable(Whole, rows)
    BY <1>3, <1>4, <1>8, <2>2
  <2>4. /\ IsSeq(rows) /\ Len(rows) \in Nat
        /\ ShapeProduct(RegionShape(ranges)) = 0 => Len(rows) = 0
        /\ ShapeProduct(RegionShape(ranges)) # 0 => InGrid(g, rows, Len(rows))
    BY <1>2, <1>4, <1>8, <2>2, <2>3, RegionRowsAre
  <2>5. PICK n \in Nat : n = Len(rows) /\ DOMAIN rows = 1..n
    BY <2>4 DEF IsSeq
  <2>6. \A i \in 1..n : TypedRow(Whole, rows[i])
    <3>1. SUFFICES ASSUME NEW i \in 1..n PROVE TypedRow(Whole, rows[i])
      OBVIOUS
    <3>2. InGrid(g, rows, n)
      BY <2>4, <2>5, <3>1
    <3>3. rows[i] \in Nat /\ rows[i] < NTiles(g)
      BY <3>1, <3>2 DEF InGrid
    <3>4. c.header.naxis2 \in Nat
      BY <1>4, NTilesIs
    <3> QED BY <1>1, <1>4, <3>3, <3>4, WholeRows
  <2>7. CopyOf(Whole, rows, n, table)
    BY <2>3, <2>5, <2>6, CompactTableIs
  <2>8. table.columns = Whole.columns /\ (table.error = "none" => Len(table.rows) = n)
    BY <2>7 DEF CopyOf, RowsCopied
  <2>9. PICK bytes : bytes = TileRowsLen(Whole, rows)
    OBVIOUS
  <2>10. bytes = IF table.error # "none" THEN 0 ELSE Len(rows) * RowBytes(Whole.columns) + table.heapLen
    BY <2>3, <2>9 DEF TileRowsLen, With
  <2>11. bytes = IF table.error = "none" THEN Len(table.rows) * RowBytes(table.columns) + table.heapLen
                 ELSE 0
    BY <2>5, <2>8, <2>10
  <2>12. PICK axes : axes = Len(ranges)
    OBVIOUS
  <2>13. NeedOf(c, tiled, region, resident) =
           IF rows = <<>> THEN [NoGrowth EXCEPT !.shape = axes]
           ELSE [NoGrowth EXCEPT !.shape = axes, !.tileRows = n, !.coordinates = axes, !.compacted = bytes]
    BY <1>3, <1>6, <1>8, <2>1, <2>3, <2>5, <2>9, <2>12 DEF NeedOf, With
  <2>14. FetchedInto(region, rows, table, resident) =
           IF rows = <<>> THEN [NoGrowth EXCEPT !.shape = axes]
           ELSE [NoGrowth EXCEPT !.shape = axes, !.tileRows = n, !.coordinates = axes, !.compacted = bytes]
    BY <1>8, <2>1, <2>5, <2>11, <2>12 DEF FetchedInto
  <2> QED BY <1>1, <1>5, <2>13, <2>14
<1> QED BY <1>2, <1>7, <1>8 DEF TypedRegion

\* A read of tiles grows the buffers to what its region needs, or not at all.
LEMMA ReadPromise ==
    ASSUME ReadInv, PromiseKept, Read
    PROVE  PromiseKept'
<1>1. PICK k \in DOMAIN unit.regions, mode \in Modes : StartRead(unit.regions[k], mode)
  BY DEF Read, RegionsOf
<1>2. /\ unit' = unit /\ handle' = handle /\ IsOpen /\ ~IsPlain /\ ~IsPlain'
      /\ HandleOfUnit /\ buffers \in Capacities
  BY <1>1 DEF Read, StartRead, ReadInv, PromiseKept, IsPlain
<1>3. PICK region : region = unit.regions[k]
  OBVIOUS
<1>4. PICK tiled : tiled = Handle.tiled
  OBVIOUS
<1>5. tiled = TiledImage(unit.container.header) /\ tiled.error = "none"
      /\ \A h \in handle : h.tiled = tiled
  BY <1>2, <1>4, HandleIs DEF HandleOfUnit
<1>6. PICK more : more = NeedOf(unit.container, tiled, region, unit.resident)
  OBVIOUS
<1>7. \/ buffers' = buffers
      \/ /\ RegionError(RangesIn(tiled.image.shape, region), tiled.image.shape) = "none"
         /\ buffers' = Need(buffers, more)
  <2>1. PICK rows :
          rows = IF region.kind = "Section"
                 THEN SelectRows(tiled.geometry, RangesIn(tiled.image.shape, region))
                 ELSE Places(NTiles(tiled.geometry))
    OBVIOUS
  <2>2. PICK table :
          table = IF region.kind = "Section" THEN CompactTable(Whole, rows) ELSE Whole
    OBVIOUS
  <2>3. PICK fetched : fetched = FetchedInto(region, rows, table, unit.resident)
    OBVIOUS
  <2>4. \/ buffers' = buffers
        \/ /\ RegionError(RangesIn(tiled.image.shape, region), tiled.image.shape) = "none"
           /\ buffers' = Need(buffers, fetched)
    BY <1>1, <1>3, <1>4, <2>1, <2>2, <2>3 DEF StartRead, Whole
  <2>5. ASSUME RegionError(RangesIn(tiled.image.shape, region), tiled.image.shape) = "none"
        PROVE  fetched = more
    BY <1>2, <1>3, <1>5, <1>6, <2>1, <2>2, <2>3, <2>5, FetchedIsNeeded
  <2> QED BY <2>4, <2>5
<1>8. CASE buffers' = buffers
  BY <1>2, <1>8, SamePromise
<1>9. CASE /\ RegionError(RangesIn(tiled.image.shape, region), tiled.image.shape) = "none"
           /\ buffers' = Need(buffers, more)
  <2>1. region.kind = "Section" => RegionError(region.ranges, tiled.image.shape) = "none"
    BY <1>9 DEF RangesIn
  <2>2. more \in Capacities
    BY <1>2, <1>3, <1>5, <1>6, <2>1, NeedOfIs
  <2>3. buffers' \in Capacities
        /\ \A p \in Capacities : AtMost(buffers, p) /\ AtMost(more, p) => AtMost(buffers', p)
    BY <1>2, <1>9, <2>2, NeedIs
  <2>4. ASSUME NEW h \in handle, NEW p \in h.promised
        PROVE  /\ p \in Capacities /\ AtMost(buffers', p)
               /\ \A i \in DOMAIN unit.regions :
                    AtMost(NeedOf(unit.container, h.tiled, unit.regions[i], unit.resident), p)
    <3>1. /\ p \in Capacities /\ AtMost(buffers, p)
          /\ \A i \in DOMAIN unit.regions :
                AtMost(NeedOf(unit.container, h.tiled, unit.regions[i], unit.resident), p)
      BY <1>2, <2>4 DEF PromiseKept
    <3>2. AtMost(more, p)
      BY <1>3, <1>5, <1>6, <2>4, <3>1
    <3> QED BY <2>3, <3>1, <3>2
  <2> QED BY <1>2, <2>3, <2>4 DEF PromiseKept
<1> QED BY <1>7, <1>8, <1>9

\* A plain read grows the shape to a section's axes, or not at all.
LEMMA PlainReadPromise ==
    ASSUME ReadInv, PromiseKept, PlainReads
    PROVE  PromiseKept'
<1>1. PICK k \in DOMAIN unit.regions, mode \in PlainModes : ReadPlain(unit.regions[k], mode)
  BY DEF PlainReads, RegionsOf
<1>2. /\ unit' = unit /\ handle' = handle /\ IsOpen /\ IsPlain /\ IsPlain'
      /\ unit \in Units /\ buffers \in Capacities
  BY <1>1 DEF ReadPlain, ReadInv, HandleOfUnit, PromiseKept, IsPlain
<1>3. PICK region : region = unit.regions[k]
  OBVIOUS
<1>4. PICK dims : dims = Handle.image.shape
  OBVIOUS
<1>5. \/ buffers' = buffers
      \/ /\ RegionError(RangesIn(dims, region), dims) = "none" /\ region.kind # "All"
         /\ buffers' = [buffers EXCEPT !.shape = MaxOf(@, Len(RangesIn(dims, region)))]
  BY <1>1, <1>3, <1>4, ZenonT(60) DEF ReadPlain
<1>6. CASE buffers' = buffers
  BY <1>2, <1>6, SamePromise
<1>7. CASE /\ RegionError(RangesIn(dims, region), dims) = "none" /\ region.kind # "All"
           /\ buffers' = [buffers EXCEPT !.shape = MaxOf(@, Len(RangesIn(dims, region)))]
  <2>1. TypedRegion(region)
    BY <1>2, <1>3, UnitsAssumption
  <2>2. region.kind = "Section"
    BY <1>7, <2>1 DEF TypedRegion
  <2>3. PICK axes : axes = Len(RangesIn(dims, region))
    OBVIOUS
  <2>4. axes = Len(dims)
    BY <1>7, <2>3 DEF RegionError
  <2>5. ASSUME NEW h \in handle PROVE h.image.shape = dims /\ axes \in Nat
    <3>1. Handle.image = GeometryOf(unit) /\ h.image = GeometryOf(unit) /\ Len(h.image.shape) \in Nat
      BY <1>2, <2>5, HandleIs DEF PromiseKept
    <3> QED BY <1>4, <2>4, <3>1
  <2>6. axes \in Nat
    BY <1>2, <2>5, HandleIs
  <2>7. PICK shape : shape = MaxOf(buffers.shape, axes)
    OBVIOUS
  <2>8. buffers.shape \in Nat
    BY <1>2 DEF Capacities, ReaderBuffers
  <2>9. shape \in Nat /\ \A n \in Nat : buffers.shape <= n /\ axes <= n => shape <= n
    BY <2>6, <2>7, <2>8 DEF MaxOf
  <2>10. buffers' = [buffers EXCEPT !.shape = shape]
    BY <1>7, <2>3, <2>7
  <2>11. /\ buffers' \in Capacities /\ buffers'.shape = shape
         /\ \A buffer \in ReaderBuffers : buffer # "shape" => buffers'[buffer] = buffers[buffer]
    BY <1>2, <2>9, <2>10 DEF Capacities, ReaderBuffers
  <2>12. ASSUME NEW h \in handle, NEW p \in h.promised
         PROVE  /\ p \in Capacities /\ AtMost(buffers', p)
                /\ \A i \in DOMAIN unit.regions :
                    unit.regions[i].kind = "Section" => Len(h.image.shape) <= p.shape
    <3>1. /\ p \in Capacities /\ AtMost(buffers, p)
          /\ \A i \in DOMAIN unit.regions :
                unit.regions[i].kind = "Section" => Len(h.image.shape) <= p.shape
      BY <1>2, <2>12 DEF PromiseKept
    <3>2. axes <= p.shape
      BY <1>3, <2>2, <2>4, <2>5, <2>12, <3>1
    <3>3. p.shape \in Nat /\ buffers.shape <= p.shape
      BY <3>1 DEF AtMost, Capacities, ReaderBuffers
    <3>4. shape <= p.shape
      BY <2>9, <3>2, <3>3
    <3>5. AtMost(buffers', p)
      BY <2>11, <3>1, <3>4 DEF AtMost
    <3> QED BY <3>1, <3>5
  <2>13. GeometryOf(unit)' = GeometryOf(unit)
    BY <1>2 DEF GeometryOf
  <2>14. \A h \in handle : h.image = GeometryOf(unit) /\ Len(h.image.shape) \in Nat
    BY <1>2 DEF PromiseKept
  <2> QED BY <1>2, <2>11, <2>12, <2>13, <2>14 DEF PromiseKept
<1> QED BY <1>5, <1>6, <1>7

LEMMA NextPromise ==
    ASSUME ReadInv, PromiseKept, [Next]_vars
    PROVE  PromiseKept'
<1>1. CASE Open
  BY <1>1, OpenPromise
<1>2. CASE OpenPlain
  BY <1>2, OpenPlainPromise
<1>3. CASE Close
  BY <1>3 DEF Close, PromiseKept
<1>4. CASE PlainReads
  BY <1>4, PlainReadPromise
<1>5. CASE Read
  BY <1>5, ReadPromise
<1>6. CASE Work
  <2>1. PICK w \in Workers, i \in DOMAIN items : DecodeNext(w, i)
    BY <1>6 DEF Work
  <2>2. unit' = unit /\ handle' = handle /\ buffers' = buffers
    BY <2>1 DEF DecodeNext
  <2> QED BY <2>2, SamePromise
<1>7. CASE Leave
  BY <1>7, SamePromise DEF Leave, Skip
<1>8. CASE EndFailed
  BY <1>8, SamePromise DEF EndFailed
<1>9. CASE EndItems
  BY <1>9, SamePromise DEF EndItems
<1>10. CASE UNCHANGED vars
  BY <1>10, SamePromise DEF vars
<1> QED BY <1>1, <1>2, <1>3, <1>4, <1>5, <1>6, <1>7, <1>8, <1>9, <1>10 DEF Next

\* The buffers a reader keeps never grow past what view_bytes promised when the handle
\* was made, in whichever order its regions are read, however often and however reads
\* end: what each region needs is within the promise, and nothing else grows a buffer.
THEOREM BuffersArePromised == Spec => []BuffersWithinPromise
<1>1. Init => PromiseKept
  BY InitPromise
<1>2. ReadInv /\ PromiseKept /\ [Next]_vars => PromiseKept'
  BY NextPromise
<1>3. PromiseKept => BuffersWithinPromise
  BY HandleIs DEF PromiseKept, BuffersWithinPromise, Capacities, AtMost
<1> QED BY <1>1, <1>2, <1>3, ReadIsShared, PTL DEF Spec

===============================================================================
