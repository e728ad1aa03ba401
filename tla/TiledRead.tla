------------------------------ MODULE TiledRead ------------------------------
(***************************************************************************)
(* Reading an image through a reader's handle (reader/image_reader.rs,     *)
(* plain_read.rs and data_source.rs), a tiled one with the parallel decode *)
(* of its tiles (compression/decode/image_decode_plan.rs).                 *)
(*                                                                         *)
(* A handle is opened on a unit, which loads the unit's tile index into    *)
(* the reader's slot.  A read fetches the container, or the rows of the    *)
(* tiles a section touches copied to a table of their own, and decodes     *)
(* items in parallel: the tiles of a wave into the wave's slots, which are *)
(* then scattered in order, or bands of the image straight into their own  *)
(* parts of it.  A plain image is read run by run.  A source may fail any  *)
(* read of it.                                                             *)
(***************************************************************************)
EXTENDS TileDecode

\* WaveBytes is DECODE_WAVE_BYTES; Units the files a
\* behaviour may read, each [values, tolerance, regions, resident] with a container
\* or, a plain image, with [axes, bitpix, cards, pcount, gcount, bytes]; Prefix what
\* the caller's vector holds before a physical read is appended to it.
CONSTANTS Workers, WaveBytes, Units, Prefix

ASSUME TiledReadAssumption ==
    WaveBytes \in Nat /\ IsFiniteSet(Workers) /\ Workers # {}

\* What the keywords of a container are, and the regions asked for: extents are
\* naturals, a tile's extent is any integer, a section is a range of naturals an axis.
TypedHeader(h) ==
    /\ \A dims \in h.dims : dims \in Seq(Nat) /\ h.ztile \in [1..Len(dims) -> SUBSET Int]
    /\ h.params \in Seq([name : STRING, value : SUBSET Int])

TypedRegion(region) ==
    \/ region.kind = "All"
    \/ region.kind = "Section" /\ region.ranges \in Seq([lo : Nat, hi : Nat])

VlaColumns == <<"cd", "gz", "un", "mask">>

\* What the table of a container is: NAXIS2 rows of some columns, a descriptor of
\* naturals in each array column of one, and streams of some bytes on the heap.
TypedTable(c) ==
    /\ Len(c.rows) = c.header.naxis2 /\ DOMAIN c.rows = 1..c.header.naxis2
    /\ IsFiniteSet(DOMAIN c.columns)
    /\ Len(c.heap) \in Nat /\ DOMAIN c.heap = 1..Len(c.heap)
    /\ \A k \in DOMAIN c.heap : c.heap[k].at \in Nat /\ c.heap[k].len \in Nat
    /\ \A i \in DOMAIN VlaColumns :
        LET name == VlaColumns[i]
        IN  /\ name \in DOMAIN c.columns /\ c.columns[name] \subseteq ElementKinds
            /\ c.columns[name] # {} =>
                \A k \in DOMAIN c.rows :
                    name \in DOMAIN c.rows[k] /\ c.rows[k][name] \in [count : Nat, offset : Nat]

ASSUME UnitsAssumption ==
    \A u \in Units :
        /\ Len(u.regions) \in Nat /\ DOMAIN u.regions = 1..Len(u.regions)
        /\ \A k \in DOMAIN u.regions : TypedRegion(u.regions[k])
        /\ IF "plain" \in DOMAIN u THEN Len(u.plain.axes) \in Nat
           ELSE TypedHeader(u.container.header) /\ TypedTable(u.container)

VARIABLES unit,      \* the unit the reader is open on
          slot,      \* the reader's slot for the unit's tile index, at most one
          handle,    \* what ImageReader::new made, at most one
          job,       \* the read that runs, at most one
          items,     \* the state of each item of the wave, or of each band
          wave,      \* the samples of each slot of the wave
          sets,      \* each worker's scratch set
          holds,     \* the band each worker is in, at most one
          out,       \* what the read writes to
          words,     \* the caller's words of the last view
          buffers,   \* the capacities of the buffers the reader keeps
          result     \* the last read's outcome

vars == <<unit, slot, handle, job, items, wave, sets, holds, out, words, buffers, result>>

-----------------------------------------------------------------------------
(* The table of a read. *)

Threads == Cardinality(Workers)

\* A fetch of the whole table refuses none of it.
WholeTable(c) ==
    [error |-> "none", columns |-> c.columns, rows |-> c.rows, heap |-> c.heap,
     heapLen |-> HeapLen([k \in DOMAIN c.heap |-> c.heap[k].len])]

\* The cell of column c in row r behind those copied so far.
CopyCell(table, r, s, c) ==
    LET count == table.rows[r + 1][c].count
        len == OrElse(PayloadLen(OrElse(table.columns[c], "U8"), count), 0)
    IN  With(VlaCell(table, c, r), LAMBDA cell :
        IF table.columns[c] = {} \/ s.error # "none" THEN s
        ELSE IF cell.error # "none" THEN [s EXCEPT !.error = cell.error]
        ELSE IF s.len + len > UsizeMax THEN [s EXCEPT !.error = "DataUnitOverflow"]
        ELSE [s EXCEPT !.heap = IF len = 0 THEN @
                                ELSE Append(@, [at |-> s.len, len |-> len, stream |-> cell.stream]),
                       !.out[c] = [count |-> count, offset |-> s.len],
                       !.len = s.len + len])

\* The row r behind those copied so far.
CopyRow(table, s, r) ==
    With(FoldLeft(LAMBDA t, c : CopyCell(table, r, t, c),
                  [s EXCEPT !.out = table.rows[r + 1]], VlaColumns),
         LAMBDA done : [done EXCEPT !.rows = Append(@, done.out)])

NoCopy == [error |-> "none", out |-> <<>>, rows |-> <<>>, heap |-> <<>>, len |-> 0]

\* tile_rows: the picked rows, each of their cells copied behind the ones before it
\* and its descriptor rewritten.
CompactTable(table, rows) ==
    With(FoldLeft(LAMBDA s, r : CopyRow(table, s, r), NoCopy, rows), LAMBDA all :
         [error |-> all.error, columns |-> table.columns, rows |-> all.rows, heap |-> all.heap,
          heapLen |-> all.len])

\* A row's bytes: a descriptor of eight, or a real of eight.
RowBytes(columns) == 8 * Cardinality({c \in DOMAIN columns : columns[c] # {}})

\* Mutant: the rows without the cells they address.
TileRowsLenOfRows(table, rows) == Len(rows) * RowBytes(table.columns)

\* tile_rows_len.
TileRowsLen(table, rows) ==
    With(CompactTable(table, rows), LAMBDA copy :
        IF copy.error # "none" THEN 0 ELSE Len(rows) * RowBytes(table.columns) + copy.heapLen)

UnitLen(c) == Len(c.rows) * RowBytes(c.columns) + WholeTable(c).heapLen

-----------------------------------------------------------------------------
(* The layout of a decode. *)

\* decode_wave_tile_count and wave_len.
WaveLen(plan, count) ==
    LET slotBytes == MaxTileElements(plan.tiled.geometry) * ElemSize(plan.tiled.image.bitpix)
    IN  MinOf(MaxOf(1, WaveBytes \div MaxOf(slotBytes, 1)), count)

\* ImageDecodePlan::layout: section is whether the read names its tiles.
LayoutOf(plan, section, count) ==
    LET g == plan.tiled.geometry
    IN  IF section \/ BandsOf(g).count < MinOf(Threads, NTiles(g))
        THEN [kind |-> "Waves", wave |-> WaveLen(plan, count)]
        ELSE [kind |-> "Bands", count |-> BandsOf(g).count]

\* Bands::tiles_of.
TilesOfBand(g, b) == [k \in 1..BandsOf(g).tiles |-> b * BandsOf(g).tiles + k - 1]

\* decode_capacities: the wave's slots and lengths, the sets at work at once and a set.
DecodeCapacities(plan, section, count) ==
    With(LayoutOf(plan, section, count), LAMBDA l :
        IF l.kind = "Waves"
        THEN [slots |-> l.wave, sets |-> MinOf(Threads, l.wave), set |-> SetCapacities(plan)]
        ELSE [slots |-> 0, sets |-> MinOf(Threads, l.count), set |-> SetCapacities(plan)])

-----------------------------------------------------------------------------
(* What a run of views holds (view_bytes). *)

NoGrowth == [shape |-> 0, tileRows |-> 0, coordinates |-> 0, compacted |-> 0, unit |-> 0]

\* Growth::need, buffer by buffer.
Need(held, more) == [b \in DOMAIN held |-> MaxOf(held[b], more[b])]

\* HeldBytes::add_tiled: the capacities a region's fetch needs.
NeedOf(c, tiled, region, resident) ==
    IF region.kind = "All"
    THEN [NoGrowth EXCEPT !.unit = IF resident THEN 0 ELSE UnitLen(c)]
    ELSE With(SelectRows(tiled.geometry, region.ranges), LAMBDA rows :
         LET axes == Len(region.ranges)
         IN  IF rows = <<>> THEN [NoGrowth EXCEPT !.shape = axes]
             ELSE [NoGrowth EXCEPT !.shape = axes, !.tileRows = Len(rows), !.coordinates = axes,
                                   !.compacted = TileRowsLen(WholeTable(c), rows)])

\* The regions view_bytes accepts.
Viewable(c, tiled, region) ==
    region.kind = "Section" =>
        /\ RegionError(region.ranges, tiled.image.shape) = "none"
        /\ CompactTable(WholeTable(c), SelectRows(tiled.geometry, region.ranges)).error = "none"

\* view_bytes: the capacities the buffers may grow to over the regions, from `held';
\* {} when it refuses one of them.
ViewBytes(c, tiled, regions, resident, held) ==
    {FoldLeft(LAMBDA h, r : Need(h, NeedOf(c, tiled, r, resident)), held, rs) :
        rs \in {q \in {regions} : \A k \in DOMAIN q : Viewable(c, tiled, q[k])}}

-----------------------------------------------------------------------------
(* The handle. *)

RegionsOf(u) == u.regions

IsPlain == "plain" \in DOMAIN unit

\* Hdu::image_geometry and plain_image_geometry.
GeometryOf(u) ==
    IF "plain" \notin DOMAIN u THEN CompressedGeometry(u.container.header)
    ELSE PlainGeometry(u.plain.axes, u.plain.bitpix, u.plain.cards, u.plain.pcount, u.plain.gcount)

\* The ranges of a region of an image of `dims'.
RangesIn(dims, region) ==
    IF region.kind = "Section" THEN region.ranges
    ELSE [i \in DOMAIN dims |-> [lo |-> 0, hi |-> dims[i]]]

IsOpen == handle # {}
Handle == CHOOSE h \in handle : TRUE
Running == job # {}
Job == CHOOSE j \in job : TRUE

\* TileIndexes::load: the slot's index, or one read from the file; a read that fails
\* leaves the slot empty.
LoadedIndex(read) == IF slot # {} THEN slot ELSE read

\* ImageReader::new.
Open ==
    LET tiled == TiledImage(unit.container.header)
        index == TileIndex(WholeTable(unit.container))
    IN  /\ ~IsOpen /\ ~IsPlain
        /\ \E io \in BOOLEAN :
              LET read == IF tiled.error # "none" THEN {}
                          ELSE LoadedIndex(IF io /\ index.error = "none" THEN {index} ELSE {})
              IN  /\ slot' = read
                  /\ handle' = {[tiled |-> tiled, index |-> i,
                                 promised |-> ViewBytes(unit.container, tiled, RegionsOf(unit),
                                                        unit.resident, buffers)] : i \in read}
                  /\ result' = IF read = {} THEN [kind |-> "refused", error |-> "open"] ELSE [kind |-> "open"]
        /\ UNCHANGED <<unit, job, items, wave, sets, holds, out, words, buffers>>

\* ImageReader::new of a plain image, whose bytes must all be there; its view_bytes
\* counts a section's shape.
OpenPlain ==
    LET g == GeometryOf(unit)
        error == IF Len(unit.plain.bytes) < ShapeProduct(unit.plain.axes) * ElemSize(unit.plain.bitpix)
                 THEN "UnexpectedEof" ELSE g.error
        sections == {k \in DOMAIN unit.regions : unit.regions[k].kind = "Section"}
        promised == {[buffers EXCEPT !.shape = IF ks = {} THEN @ ELSE MaxOf(@, Len(g.shape))] :
                        ks \in {q \in {sections} :
                                \A k \in q : RegionError(unit.regions[k].ranges, g.shape) = "none"}}
    IN  /\ ~IsOpen /\ IsPlain
        /\ handle' = IF error # "none" THEN {} ELSE {[image |-> g, promised |-> promised]}
        /\ result' = IF error # "none" THEN [kind |-> "refused", error |-> error] ELSE [kind |-> "open"]
        /\ UNCHANGED <<unit, slot, job, items, wave, sets, holds, out, words, buffers>>

\* The handle is dropped between reads.
Close ==
    /\ IsOpen /\ ~Running
    /\ handle' = {} /\ result' = [kind |-> "closed"]
    /\ UNCHANGED <<unit, slot, job, items, wave, sets, holds, out, words, buffers>>

-----------------------------------------------------------------------------
(* A read. *)

Modes == {"view", "physical"}

\* The samples the caller's words hold once they are resized to `count' samples.
Resized(old, count, size) ==
    LET n == WordsFor(count * size) * (8 \div size)
    IN  [k \in 1..n |-> IF k <= Len(old) THEN old[k] ELSE 0]

NoItems == [i \in {} |-> "todo"]

\* A read that decodes nothing: it is refused, or its region is empty.
NoDecode(r, resized) ==
    /\ result' = r /\ words' = resized
    /\ UNCHANGED <<job, items, wave, sets, holds, out>>

RefusedRead(e) == [kind |-> "refused", error |-> e]

\* The items of a wave, or the bands.
ItemsOf(layout, count, from) ==
    IF layout.kind = "Bands" THEN [i \in 0..layout.count - 1 |-> "todo"]
    ELSE [i \in 0..MinOf(layout.wave, count - from) - 1 |-> "todo"]

FreshSets == [w \in Workers |-> NoSet]
NoHolds == [w \in Workers |-> {}]

\* What a fetch makes of the reader's buffers: a stream's copy of the unit, or a
\* section's shape and, where it touches any tile, the tiles and their rows and cells.
FetchedInto(region, rows, table, resident) ==
    LET bytes == Len(table.rows) * RowBytes(table.columns) + table.heapLen
        axes == Len(region.ranges)
    IN  IF region.kind = "All"
        THEN [NoGrowth EXCEPT !.unit = IF resident THEN 0 ELSE bytes]
        ELSE IF rows = <<>> THEN [NoGrowth EXCEPT !.shape = axes]
        ELSE [NoGrowth EXCEPT !.shape = axes, !.tileRows = Len(rows), !.coordinates = axes,
                              !.compacted = IF table.error = "none" THEN bytes ELSE 0]

\* fetch, and decode_into or physical_into as far as the first wave: the region is
\* validated, the rows selected, the cells fetched, the output sized, the plan made.
StartRead(region, mode) ==
    LET c == unit.container
        tiled == Handle.tiled
        g == tiled.geometry
        dims == tiled.image.shape
        section == region.kind = "Section"
        ranges == RangesIn(dims, region)
        bad == RegionError(ranges, dims)
        rows == IF section THEN SelectRows(g, ranges) ELSE Places(NTiles(g))
        table == IF section THEN CompactTable(WholeTable(c), rows) ELSE WholeTable(c)
        shape == RegionShape(ranges)
        count == ShapeProduct(shape)
        plan == PlanOf(tiled, c.columns, Handle.index)
        layout == LayoutOf(plan, section, Len(rows))
        plane == IF mode = "view" THEN Resized(words, count, ElemSize(tiled.image.bitpix))
                 ELSE Prefix \o Zeros(count)
        resized == IF mode = "view" THEN plane ELSE words
    IN  /\ IsOpen /\ ~Running
        /\ \E io \in IF unit.resident THEN {TRUE} ELSE BOOLEAN :
            IF bad # "none" THEN NoDecode(RefusedRead(bad), words) /\ UNCHANGED buffers
            ELSE
            /\ buffers' = Need(buffers, FetchedInto(region, rows, table, unit.resident))
            /\ IF table.error # "none" THEN NoDecode(RefusedRead(table.error), words)
               ELSE IF ~io THEN NoDecode(RefusedRead("Io"), words)
               ELSE IF count = 0
               THEN NoDecode([kind |-> "done", mode |-> mode, region |-> region, out |-> plane], resized)
               ELSE IF plan.error # "none" THEN NoDecode(RefusedRead(plan.error), resized)
               ELSE /\ job' = {[mode |-> mode, region |-> region, ranges |-> ranges, shape |-> shape,
                                section |-> section, rows |-> rows, table |-> table,
                                plan |-> plan, layout |-> layout, from |-> 0, count |-> count]}
                    /\ items' = ItemsOf(layout, Len(rows), 0)
                    /\ wave' = [i \in DOMAIN items' |-> <<>>]
                    /\ sets' = FreshSets /\ holds' = NoHolds
                    /\ out' = plane
                    /\ result' = [kind |-> "reading"]
                    /\ UNCHANGED words
        /\ UNCHANGED <<unit, slot, handle>>

\* A plain image is also read into samples of its own, and as unsigned samples.
PlainModes == Modes \cup {"read", "unsigned"}

\* StoredRuns: the runs of samples a region is stored in.
StoredRuns(dims, region) ==
    IF region.kind = "Section" THEN SectionRuns(dims, region.ranges)
    ELSE <<[at |-> 0, len |-> ShapeProduct(dims)]>>

\* PlainRead::fill, data, words and physical: the runs read, decoded into the words or
\* samples of the read, or converted behind what the caller's vector holds.  A source
\* may fail in any run; the samples of the runs before it stay.  A whole image of bytes
\* in memory is lent as it is.  unsigned_into converts a view.
ReadPlain(region, mode) ==
    LET g == Handle.image
        size == ElemSize(g.bitpix)
        ranges == RangesIn(g.shape, region)
        bad == RegionError(ranges, g.shape)
        count == ShapeProduct(RegionShape(ranges))
        runs == IF bad # "none" THEN <<>> ELSE StoredRuns(g.shape, region)
        stored(r) == RunBytes(unit.plain.bytes, runs[r], size)
        samples(n) == FlattenSeq([r \in 1..n |-> DecodeBe(g.bitpix, stored(r))])
        filled(plane, n) == samples(n) \o SubSeq(plane, Len(samples(n)) + 1, Len(plane))
        physical == FlattenSeq([r \in DOMAIN runs |-> ExtendPhysicalBe(g.bitpix, stored(r), g.scaling)])
        lent == unit.resident /\ region.kind = "All" /\ g.bitpix = "U8"
        toWords == mode \in {"view", "unsigned"} /\ ~lent
        unsigned == UnsignedInto(View(g.bitpix, samples(Len(runs))), g.scaling, [values |-> Prefix])
        given == CASE mode = "view" -> samples(Len(runs))
                   [] mode = "read" -> filled(Zeroed(g.bitpix, count).values, Len(runs))
                   [] mode = "physical" -> Prefix \o physical
                   [] mode = "unsigned" -> unsigned.buffer.values
    IN  /\ IsOpen /\ IsPlain
        /\ \E n \in IF unit.resident THEN {Len(runs)} ELSE 0..Len(runs) :
            IF bad # "none" THEN NoDecode(RefusedRead(bad), words) /\ UNCHANGED buffers
            ELSE
            /\ buffers' = IF region.kind = "All" THEN buffers
                          ELSE [buffers EXCEPT !.shape = MaxOf(@, Len(ranges))]
            /\ NoDecode(IF n < Len(runs) THEN RefusedRead("Io")
                        ELSE [kind |-> "done", mode |-> mode, region |-> region, out |-> given],
                        IF toWords THEN filled(Resized(words, count, size), n) ELSE words)
        /\ UNCHANGED <<unit, slot, handle>>

\* A sample as the read's caller gets it.
Convert(j, v) ==
    LET bitpix == j.plan.tiled.image.bitpix
    IN  IF j.mode = "view" THEN v
        ELSE Physical(j.plan.tiled.image.scaling, bitpix, IF IsFloat(bitpix) THEN Grain ELSE 1, v)

\* Where in `out' the read's plane starts.
PlaneStart(j) == IF j.mode = "view" THEN 0 ELSE Len(Prefix)

Plane(j, o) == SubSeq(o, PlaneStart(j) + 1, PlaneStart(j) + j.count)

WithPlane(j, o, plane) ==
    [k \in DOMAIN o |-> IF k - PlaneStart(j) \in 1..j.count THEN plane[k - PlaneStart(j)] ELSE o[k]]

\* Mutant: a section's tiles are numbered as the copied rows are.
RowsAtTable(j, k) == [table |-> k, grid |-> k]

\* The k-th tile of a read: its row in the table it fetched, its place in the grid.
RowsAt(j, k) == [table |-> IF j.section THEN k ELSE j.rows[k + 1], grid |-> j.rows[k + 1]]

\* The tiles of an item, each by its number in the read.
TilesOf(j, i) ==
    IF j.layout.kind = "Bands" THEN TilesOfBand(j.plan.tiled.geometry, i) ELSE <<j.from + i>>

Converted(j, values) == [k \in DOMAIN values |-> Convert(j, values[k])]

\* One tile into the plane of the whole image or of the section.
Scatter(j, o, tile, values) ==
    LET placed == IF j.section
                  THEN ScatterSection(j.ranges, j.shape, tile, Converted(j, values), Plane(j, o))
                  ELSE ScatterRows(Plane(j, o), 0, tile, Converted(j, values))
    IN  WithPlane(j, o, placed)

\* A failure before item i, after which rayon may leave i out.
FailedBefore(i) == \E k \in DOMAIN items : k < i /\ items[k] = "failed"

\* The item a worker takes: the band it is in, or one nobody has begun.
Takes(w, i) ==
    \/ \E h \in holds[w] : h.item = i
    \/ holds[w] = {} /\ items[i] = "todo" /\ \A v \in Workers : \A h \in holds[v] : h.item # i

\* One tile of an item.  A worker's set is its own or, where rayon splits the work, a
\* fresh one; decode_band scatters each of its tiles, a wave's tile fills its slot.
DecodeNext(w, i) ==
    LET j == Job
        at == OrElse({h.next : h \in holds[w]}, 1)
        tiles == TilesOf(j, i)
        rows == RowsAt(j, tiles[at])
        tile == TileInto(j.plan.tiled.geometry, rows.grid)
        last == at = Len(tiles)
    IN  /\ Running
        /\ i \in DOMAIN items /\ Takes(w, i)
        /\ \E base \in {sets[w]} \cup {NoSet : v \in {u \in {w} : holds[u] = {}}} :
           \E d \in {DecodeTile(j.plan, j.table, rows, ReserveSet(base, SetCapacities(j.plan)))} :
              LET ok == d.error = "none"
              IN  /\ sets' = [sets EXCEPT ![w] = d.set]
                  /\ items' = [items EXCEPT ![i] = IF ~ok THEN "failed" ELSE IF last THEN "done" ELSE @]
                  /\ holds' = [holds EXCEPT ![w] =
                                  IF ok /\ ~last THEN {[item |-> i, next |-> at + 1]} ELSE {}]
                  /\ wave' = [wave EXCEPT ![i] =
                                  IF ~ok THEN <<d.error>>
                                  ELSE IF j.layout.kind = "Waves" THEN d.set.values.held ELSE @]
                  /\ out' = IF ok /\ j.layout.kind = "Bands"
                            THEN Scatter(j, out, tile, d.set.values.held) ELSE out
        /\ UNCHANGED <<unit, slot, handle, job, words, buffers, result>>

\* An item past a failure is left out.
Skip(i) ==
    /\ Running /\ i \in DOMAIN items
    /\ items[i] = "todo" /\ FailedBefore(i)
    /\ \A w \in Workers : \A h \in holds[w] : h.item # i
    /\ items' = [items EXCEPT ![i] = "skipped"]
    /\ UNCHANGED <<unit, slot, handle, job, wave, sets, holds, out, words, buffers, result>>

ItemsEnded == \A i \in DOMAIN items : items[i] # "todo"

FailedItems == {i \in DOMAIN items : items[i] = "failed"}

\* Mutant: a failure leaves what was decoded.
AfterFailureKept(j, o) == o

\* A physical read that fails gives the caller's vector back as it was.
AfterFailure(j, o) == IF j.mode = "view" THEN o ELSE Prefix

EndJob(r, o) ==
    /\ job' = {} /\ result' = r /\ out' = <<>>
    /\ words' = IF Job.mode = "view" THEN o ELSE words
    /\ items' = NoItems /\ wave' = NoItems /\ sets' = FreshSets /\ holds' = NoHolds

\* The first failure of a wave or of the bands ends the read.
EndFailed ==
    LET first == CHOOSE i \in FailedItems : \A k \in FailedItems : i <= k
    IN  /\ Running /\ ItemsEnded /\ FailedItems # {}
        /\ EndJob([kind |-> "failed", mode |-> Job.mode, region |-> Job.region,
                   error |-> wave[first][1], out |-> AfterFailure(Job, out)],
                  AfterFailure(Job, out))
        /\ UNCHANGED <<unit, slot, handle, buffers>>

\* Mutant: the wave begins again.
NextFromSame(j) == j.from

NextFrom(j) == j.from + j.layout.wave

\* The slots of a wave in order, then the next wave or the end.
EndItems ==
    LET j == Job
        scattered ==
            IF j.layout.kind = "Bands" THEN out
            ELSE FoldLeft(LAMBDA o, i : Scatter(j, o, TileInto(j.plan.tiled.geometry,
                                                               RowsAt(j, j.from + i).grid), wave[i]),
                          out, Places(Cardinality(DOMAIN items)))
        more == j.layout.kind = "Waves" /\ NextFrom(j) < Len(j.rows)
    IN  /\ Running /\ ItemsEnded /\ FailedItems = {}
        /\ IF more
           THEN /\ job' = {[j EXCEPT !.from = NextFrom(j)]}
                /\ items' = ItemsOf(j.layout, Len(j.rows), NextFrom(j))
                /\ wave' = [i \in DOMAIN items' |-> <<>>]
                /\ sets' = FreshSets /\ holds' = NoHolds /\ out' = scattered
                /\ UNCHANGED <<words, result>>
           ELSE EndJob([kind |-> "done", mode |-> j.mode, region |-> j.region,
                        out |-> IF j.mode = "view" THEN SubSeq(scattered, 1, j.count) ELSE scattered],
                       scattered)
        /\ UNCHANGED <<unit, slot, handle, buffers>>

Init ==
    /\ unit \in Units
    /\ slot = {} /\ handle = {} /\ job = {}
    /\ items = NoItems /\ wave = NoItems
    /\ sets = FreshSets /\ holds = NoHolds
    /\ out = <<>> /\ words = <<>> /\ buffers = NoGrowth
    /\ result = [kind |-> "closed"]

Read == ~IsPlain /\ \E k \in DOMAIN RegionsOf(unit), mode \in Modes : StartRead(RegionsOf(unit)[k], mode)

PlainReads == \E k \in DOMAIN RegionsOf(unit), mode \in PlainModes : ReadPlain(RegionsOf(unit)[k], mode)

Work == \E w \in Workers, i \in DOMAIN items : DecodeNext(w, i)

Leave == \E i \in DOMAIN items : Skip(i)

Next == Open \/ OpenPlain \/ Close \/ PlainReads \/ Read \/ Work \/ Leave \/ EndFailed \/ EndItems

Spec == Init /\ [][Next]_vars

-----------------------------------------------------------------------------
(* What must hold. *)

\* The samples the unit stands for, in Grain-ths where they are floats.
Truth == unit.values

RangesOf(region) == RangesIn(GeometryOf(unit).shape, region)

\* Two samples as close as the unit was written to be.
Near(a, b) ==
    \/ a = b
    \/ a # NotFinite /\ b # NotFinite /\ AbsOf(a - b) <= unit.tolerance

Expected(r) ==
    With(GeometryOf(unit), LAMBDA image :
        With(Crop(Truth, image.shape, RangesOf(r.region)), LAMBDA crop :
    LET scale == IF IsFloat(image.bitpix) /\ ~IsPlain THEN Grain ELSE 1
    IN  With([k \in DOMAIN crop |-> Physical(image.scaling, image.bitpix, scale, crop[k])], LAMBDA physical :
        CASE r.mode \in {"view", "read"} -> crop
          [] r.mode = "physical" -> Prefix \o physical
          [] r.mode = "unsigned" -> IF UnsignedKind(image.bitpix, image.scaling) = {} THEN Prefix ELSE physical)))

\* A read that succeeds gives the samples that were written, of the region asked for
\* and in its order: whatever the codec, the tiles' order of decode, the scratch and
\* the words a read before it left.  A physical read is appended to what the caller's
\* vector held, an unsigned one gives the physical values if the image is of the
\* unsigned convention (ImageReader::view_region and physical_into, unsigned_into).
ReadIsCrop ==
    result.kind = "done" =>
        /\ Len(result.out) = Len(Expected(result))
        /\ \A k \in DOMAIN result.out : Near(result.out[k], Expected(result)[k])

\* The tiles of a region, in the order a read decodes them.
TilesOfRegion(g, region) ==
    IF region.kind = "Section" THEN SelectRows(g, region.ranges) ELSE Places(NTiles(g))

\* What the decode of each tile of a region gives, in a scratch of its own.
FailingTiles(region) ==
    With(TiledImage(unit.container.header), LAMBDA tiled :
        With(TilesOfRegion(tiled.geometry, region), LAMBDA rows :
    LET table == WholeTable(unit.container)
    IN  With(PlanOf(tiled, unit.container.columns, TileIndex(table)), LAMBDA plan :
        [k \in DOMAIN rows |->
            DecodeTile(plan, table, [table |-> rows[k], grid |-> rows[k]],
                       ReserveSet(NoSet, SetCapacities(plan))).error])))

FirstFailing(errors) ==
    LET bad == {k \in DOMAIN errors : errors[k] # "none"}
    IN  IF bad = {} THEN "none" ELSE errors[CHOOSE k \in bad : \A j \in bad : k <= j]

\* A read reports the first damaged tile of its region, as one worker that decodes
\* them in order would, and only a damaged tile of its own; a physical read that
\* fails leaves the caller's vector as it was (first_failure::try_for_each_init and
\* TiledImage::physical_into).
FirstBadTile ==
    /\ result.kind = "failed" =>
            /\ result.error = FirstFailing(FailingTiles(result.region))
            /\ result.mode = "physical" => result.out = Prefix
    /\ (result.kind = "done" /\ ~IsPlain) =>
            FirstFailing(FailingTiles(result.region)) = "none"

Within(buffer, cap) == buffer.cap <= cap

\* The sets at work stay as they are reserved: the tiles of a wave are as many as
\* planned, and no buffer of a set grows past its plan, as DecodeCapacities says; but
\* for the samples, which change places with the codecs' after a decode, when a cell
\* of UNCOMPRESSED_DATA holds more than any tile does: it is decoded whole before its
\* length is compared with its tile's.
SetsStayReserved ==
    Running =>
        LET promise == DecodeCapacities(Job.plan, Job.section, Len(Job.rows))
            used == {w \in Workers : sets[w] # NoSet}
            cells == IF unit.container.columns.un = {} THEN {}
                     ELSE {unit.container.rows[i].un.count : i \in DOMAIN unit.container.rows}
            samples(buffer, cap) == Within(buffer, cap) \/ \E n \in cells : Within(buffer, n)
        IN  /\ Cardinality(DOMAIN items) <= promise.slots \/ Job.layout.kind = "Bands"
            /\ \A w \in used :
                /\ samples(sets[w].values, promise.set.values)
                /\ samples(sets[w].codecs.decoded, promise.set.codecs.decoded)
                /\ \A b \in DOMAIN sets[w].codecs \ {"decoded"} :
                        Within(sets[w].codecs[b], promise.set.codecs[b])

\* The buffers the reader keeps stay within what view_bytes promised when the handle
\* was made, whichever of its regions are read, in any order, and however reads end.
BuffersWithinPromise ==
    IsOpen => \A p \in Handle.promised : \A b \in DOMAIN buffers : buffers[b] <= p[b]

\* The steps an item has left: the tiles to decode of it, and its end.
StepsOf(i) ==
    {k \in 1..Len(TilesOf(Job, i)) + 1 :
        \A w \in Workers : \A h \in holds[w] : h.item = i => h.next <= k}

Pending == UNION {{i} \X StepsOf(i) : i \in {x \in DOMAIN items : items[x] = "todo"}}

\* What a read has left: the waves to come, each tile counted three times, and the
\* steps of the items.
Left ==
    IF ~Running THEN 0
    ELSE 1 + 3 * (Len(Job.rows) - Job.from) + Cardinality(Pending)

\* Every step of a read brings it nearer to its end, however the pool shares its tiles
\* and whichever of them fail; a read that can take no step would be a deadlock.  So a
\* read ends, with its samples or an error (decode_waves' loop over the waves).
ReadProgresses == [][Running => Left' < Left]_vars

=============================================================================
