---------------------------- MODULE TileGeometry ----------------------------
(***************************************************************************)
(* The tile grid of an image (compression/tile_geometry.rs), the tiles a   *)
(* section touches (decode/tiled_image.rs) and the shape a writer gives    *)
(* its tiles (encode/mod.rs).  Tile numbers count from zero.               *)
(***************************************************************************)
EXTENDS ImageRegion

\* TileGeometry::new.
NewGeometry(dims, tiles) ==
    [dims |-> dims, tiles |-> tiles,
     stride |-> [i \in DOMAIN dims |->
                  IF Empty(dims) THEN 0 ELSE Product(SubSeq(dims, 1, i - 1))],
     ntilesAxis |-> [i \in DOMAIN dims |-> CeilDiv(dims[i], tiles[i])],
     maxTile |-> [i \in DOMAIN dims |-> MinOf(dims[i], tiles[i])]]

NTiles(g) == IF g.dims = <<>> THEN 0 ELSE Product(g.ntilesAxis)

MaxTileElements(g) == Product(g.maxTile)

\* bands: the image cut across its last axis, one row of tiles to a band.
BandsOf(g) ==
    LET last == Len(g.dims)
    IN  IF last = 0 THEN [count |-> 1, len |-> 1, tiles |-> 1]
        ELSE [count |-> g.ntilesAxis[last], len |-> g.maxTile[last] * g.stride[last],
              tiles |-> Product(SubSeq(g.ntilesAxis, 1, last - 1))]

\* One turn of the odometer over the axes above the first.
Turn(g, tdims, s) ==
    FoldLeft(LAMBDA u, i :
                IF u.done THEN u
                ELSE IF u.coord[i] + 1 < tdims[i]
                THEN [coord |-> [u.coord EXCEPT ![i] = @ + 1], flat |-> u.flat + g.stride[i],
                      done |-> TRUE]
                ELSE [coord |-> [u.coord EXCEPT ![i] = 0],
                      flat |-> u.flat + g.stride[i] - tdims[i] * g.stride[i], done |-> FALSE],
             [s EXCEPT !.done = FALSE],
             [k \in 1..MaxOf(0, Len(g.dims) - 1) |-> k + 1])

\* The places the rows of a tile start at, along the odometer from its first sample.
RowBases(g, tdims, flat, rows) ==
    FoldLeft(LAMBDA w, k : [bases |-> Append(w.bases, w.s.flat), s |-> Turn(g, tdims, w.s)],
             [bases |-> <<>>,
              s |-> [coord |-> [i \in DOMAIN tdims |-> 0], flat |-> flat, done |-> FALSE]],
             Places(rows)).bases

\* tile_into: a tile's origin, extents and the places its rows start at.
TileInto(g, t) ==
    LET n == Len(g.dims)
        per(i) == Product(SubSeq(g.ntilesAxis, 1, i - 1))
        origin == [i \in 1..n |-> ((t \div per(i)) % g.ntilesAxis[i]) * g.tiles[i]]
        tdims == [i \in 1..n |-> MinOf(g.tiles[i], g.dims[i] - origin[i])]
        rows == IF n <= 1 THEN 1 ELSE Product(Tail(tdims))
        flat == FoldLeft(LAMBDA a, i : a + origin[i] * g.stride[i], 0, [i \in 1..n |-> i])
    IN  [origin |-> origin, tdims |-> tdims, rowLen |-> IF n = 0 THEN 1 ELSE tdims[1],
         rowBases |-> RowBases(g, tdims, flat, rows)]

Nelem(tile) == tile.rowLen * Len(tile.rowBases)

\* gather_rows: a tile's samples out of the image.
GatherRows(values, tile) ==
    FlattenSeq([r \in DOMAIN tile.rowBases |->
        SubSeq(values, tile.rowBases[r] + 1, tile.rowBases[r] + tile.rowLen)])

\* scatter_rows_into a part of the plane that starts at `start'.
ScatterRows(part, start, tile, values) ==
    [p \in DOMAIN part |->
        LET rows == {r \in DOMAIN tile.rowBases :
                        p - 1 + start \in tile.rowBases[r]..tile.rowBases[r] + tile.rowLen - 1}
            r == CHOOSE r \in rows : \A q \in rows : r >= q
        IN  IF rows = {} THEN part[p]
            ELSE values[(r - 1) * tile.rowLen + p + start - tile.rowBases[r]]]

\* The place in a section of `shape' its row r of the tile starts at, if it has it.
SectionRow(ranges, shape, tile, r) ==
    FoldLeft(LAMBDA s, i :
                LET at == tile.origin[i] + (s.rest % tile.tdims[i])
                IN  [rest |-> s.rest \div tile.tdims[i],
                     in |-> s.in /\ at >= ranges[i].lo /\ at < ranges[i].hi,
                     base |-> s.base + (at - ranges[i].lo) * s.stride,
                     stride |-> s.stride * shape[i]],
             [rest |-> r - 1, in |-> TRUE, base |-> 0, stride |-> shape[1]],
             [k \in 1..Len(tile.tdims) - 1 |-> k + 1])

\* scatter_section_into: the part of each row of the tile inside the section.
ScatterSection(ranges, shape, tile, values, out) ==
    LET xlo == MaxOf(tile.origin[1], ranges[1].lo)
        xhi == MinOf(tile.origin[1] + tile.tdims[1], ranges[1].hi)
        place(o, r) ==
            LET row == SectionRow(ranges, shape, tile, r)
                to == row.base + xlo - ranges[1].lo
                from == (r - 1) * tile.rowLen + xlo - tile.origin[1]
            IN  IF ~row.in THEN o
                ELSE [p \in DOMAIN o |->
                        IF p - 1 \in to..to + xhi - xlo - 1 THEN values[from + p - to] ELSE o[p]]
    IN  IF xlo >= xhi THEN out
        ELSE FoldLeft(place, out, [r \in DOMAIN tile.rowBases |-> r])

FirstPastTile(range, tile) == (range.hi - 1) \div tile + 1

\* tile_count and select: the numbers of the tiles the ranges touch, axis 1 first.
TileCount(ranges, tiles) ==
    IF ranges = <<>> \/ \E i \in DOMAIN ranges : EmptyRange(ranges[i]) THEN 0
    ELSE Product([i \in DOMAIN ranges |->
                    FirstPastTile(ranges[i], tiles[i]) - ranges[i].lo \div tiles[i]])

FirstTile(g, ranges) == [i \in DOMAIN ranges |-> ranges[i].lo \div g.tiles[i]]

\* The number of the tile at a coordinate of the grid.
TileAt(g, c) ==
    FoldLeft(LAMBDA a, i : a + c[i] * Product(SubSeq(g.ntilesAxis, 1, i - 1)),
             0, [i \in DOMAIN c |-> i])

\* The coordinate after c of those the ranges touch.
NextTile(g, ranges, c) ==
    FoldLeft(LAMBDA u, i :
                IF u.done THEN u
                ELSE IF u.c[i] + 1 < FirstPastTile(ranges[i], g.tiles[i])
                THEN [c |-> [u.c EXCEPT ![i] = @ + 1], done |-> TRUE]
                ELSE [c |-> [u.c EXCEPT ![i] = FirstTile(g, ranges)[i]], done |-> FALSE],
             [c |-> c, done |-> FALSE], [i \in DOMAIN c |-> i]).c

SelectRows(g, ranges) ==
    FoldLeft(LAMBDA w, k : [rows |-> Append(w.rows, TileAt(g, w.c)), c |-> NextTile(g, ranges, w.c)],
             [rows |-> <<>>, c |-> FirstTile(g, ranges)], Places(TileCount(ranges, g.tiles))).rows

-----------------------------------------------------------------------------
(* The tile shape: a writer's, and what a reader takes an absent ZTILEn for. *)

MinHTile == 4

\* hcompress_default_rows: the first candidate that leaves no short last tile.
HcompressDefaultRows(rows) ==
    LET candidates == <<16, 24, 20, 30, 28, 26, 22, 18, 14>>
        fits == {k \in DOMAIN candidates :
                    LET left == rows % candidates[k] IN left = 0 \/ left >= MinHTile}
    IN  IF rows <= 30 THEN rows
        ELSE IF fits = {} THEN 17
        ELSE candidates[CHOOSE k \in fits : \A j \in fits : k <= j]

\* resolve_tile_shape: [error, tiles].
ResolveTileShape(dims, asked, hcompress) ==
    LET default == [i \in DOMAIN dims |->
                      CASE i = 1 -> MaxOf(dims[i], 1)
                        [] i = 2 /\ hcompress -> MaxOf(HcompressDefaultRows(dims[i]), 1)
                        [] OTHER -> 1]
        tiles == IF asked = <<>> THEN default ELSE asked
        shortest(i) == LET t == MinOf(tiles[i], dims[i])
                       IN  IF dims[i] % t = 0 THEN t ELSE dims[i] % t
        result(e) == [error |-> e, tiles |-> tiles]
    IN  IF Len(tiles) # Len(dims) THEN result("RankMismatch")
        ELSE IF \E i \in DOMAIN tiles : tiles[i] = 0 THEN result("EmptyTile")
        ELSE IF hcompress /\ ~Empty(dims)
                /\ \E i \in DOMAIN dims : MinOf(tiles[i], dims[i]) # 1 /\ shortest(i) < MinHTile
        THEN result("HcompressTileTooSmall")
        ELSE result("none")

\* tile_shape of a header: each ZTILEn as a set of at most one value.
HeaderTileShape(ztile, dims) ==
    LET at(i) == IF ztile[i] = {} THEN (IF i = 1 THEN MaxOf(dims[1], 1) ELSE 1)
                 ELSE CHOOSE v \in ztile[i] : TRUE
        tiles == [i \in DOMAIN dims |-> at(i)]
    IN  [error |-> IF \E i \in DOMAIN tiles : tiles[i] <= 0 THEN "Range" ELSE "none",
         tiles |-> tiles]

=============================================================================
