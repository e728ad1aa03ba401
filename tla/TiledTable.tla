------------------------------ MODULE TiledTable ------------------------------
(***************************************************************************)
(* Tiled-compressed tables (compression/table/mod.rs): compress_table,     *)
(* TiledTable::new and TiledTable::decode.                                 *)
(*                                                                         *)
(* A container is [header, rows, heap, heapLen]: its keywords, a sequence  *)
(* of 16-byte descriptors a tile, one a column, and the streams on its     *)
(* heap, each [at, len, stream].  A mask is {} for every column or a set   *)
(* of one sequence of Booleans.                                            *)
(***************************************************************************)
EXTENDS TableSelect

\* DEFAULT_TABLE_TILE_BYTES.
CONSTANT DefaultTileBytes

ASSUME TiledTableAssumption == DefaultTileBytes \in Nat \ {0}

-----------------------------------------------------------------------------
(* ColMeta: [tform, width, codec]. *)

\* rice_width.
RiceWidth(kind) ==
    CASE kind = "U8" -> {1} [] kind = "I16" -> {2} [] kind = "I32" -> {4} [] OTHER -> {}

\* sample_width: the elements GZIP_2's planes are made of.
SampleWidth(kind) ==
    CASE kind = "I16" -> 2 [] kind \in {"I32", "F32"} -> 4 [] kind \in {"I64", "F64"} -> 8
      [] OTHER -> 1

\* with_rice_width.
WithRiceWidth(kind, codec) ==
    IF codec.kind = "Rice" /\ RiceWidth(kind) # {}
    THEN RiceCodec(codec.blocksize, OrElse(RiceWidth(kind), 4)) ELSE codec

\* pick_codec: the codec a column of the kind takes.
PickCodec(kind, requested) ==
    CASE kind \in {"Logical", "Bit", "Character", "ComplexF32", "ComplexF64"} -> GzipPlain
      [] kind \in {"F32", "F64", "I64"} /\ requested.kind = "Gzip1" -> GzipPlain
      [] kind \in {"F32", "F64", "I64"} /\ requested.kind # "Gzip1" -> GzipShuffled
      [] kind = "U8" /\ requested.kind = "Gzip2" -> GzipPlain
      [] OTHER -> requested

Meta(tform, codec) == [tform |-> tform, width |-> ByteWidth(tform), codec |-> codec]

\* ColMeta::chosen, by the writer.
ChosenMeta(tform, requested) ==
    Meta(tform, WithRiceWidth(tform.element, PickCodec(tform.element, requested)))

\* ColMeta::declared, by the header.
DeclaredMeta(tform, codec) ==
    IF codec.kind = "Rice" /\ RiceWidth(tform.element) = {} THEN Err("RiceColumn")
    ELSE Ok(Meta(tform, WithRiceWidth(tform.element, codec)))

IsStoredVla(m) == m.tform.storage # "Fixed" /\ m.width # 0

\* ColMeta::tile of a number of bytes.
MetaTile(m, bytes) ==
    LET width == SampleWidth(m.tform.element)
    IN  [shape |-> <<bytes \div width>>, width |-> width, blank |-> {}]

ByteTile(bytes) == [shape |-> <<bytes>>, width |-> 1, blank |-> {}]

\* ColMeta::compress: [stream, len].
CompressBytes(m, bytes) ==
    LET tile == MetaTile(m, Len(bytes))
    IN  With(IF m.codec.kind \in {"Gzip1", "Gzip2"}
             THEN EncodeTileBytes(m.codec, tile, bytes).stream
             ELSE EncodeTile(m.codec, tile, BeToI64(bytes, tile.width)).stream, LAMBDA stream :
        [stream |-> stream, len |-> StreamLen(stream, m.codec.kind)])

-----------------------------------------------------------------------------
(* Compressing. *)

\* table_tile_rows.
TableTileRows(config, rowCount, rowLen) ==
    LET rows == CASE config.tiles = <<>> /\ rowLen = 0 -> rowCount
                  [] config.tiles = <<>> /\ rowLen > 0 -> DefaultTileBytes \div rowLen
                  [] OTHER -> config.tiles[1]
    IN  IF Quantizes(config) THEN Err("TableQuantization")
        ELSE IF config.tiles = <<0>> THEN Err("EmptyTile")
        ELSE IF Len(config.tiles) > 1 THEN Err("RankMismatch")
        ELSE Ok(MinOf(MaxOf(rows, 1), MaxOf(rowCount, 1)))

\* table_codec_gzip.
TableCodecError(compression) ==
    CASE compression.kind \in {"Gzip1", "Gzip2", "Rice"} -> "none"
      [] compression.kind = "None" -> "TableWithoutCodec"
      [] OTHER -> "TableCodec"

\* encode_arrays, for one array: its stream, or the array where that is not shorter.
StoreArray(m, bytes) ==
    With(CompressBytes(m, bytes), LAMBDA c :
        IF c.len < Len(bytes) THEN c ELSE [stream |-> bytes, len |-> Len(bytes)])

\* encode_tile of a column's rows lo to hi: the cells' stream, or the descriptors
\* and the arrays.
EncodeColumn(builder, i, m, lo, hi) ==
    LET col == builder.columns[i]
        rows == [r \in 1..hi - lo |-> lo + r - 1]
    IN  IF IsStoredVla(m)
        THEN [fixed |-> FALSE,
              descriptors |-> FlattenSeq([r \in DOMAIN rows |-> MainCell(builder, i, rows[r])]),
              arrays |-> [r \in DOMAIN rows |-> StoreArray(m, ArrayBytes(col, rows[r]))]]
        ELSE [fixed |-> TRUE,
              cell |-> CompressBytes(m, AppendCells(col, lo * col.repeat, hi * col.repeat,
                                                    col.repeat))]

LensOf(cells) == [k \in DOMAIN cells |-> cells[k].len]

\* encode_block: the table's own descriptors, then those of the streams.
DescriptorBlock(comp, start) ==
    LET offsets == HeapOffsets(LensOf(comp.arrays))
        q(r) == IF comp.arrays[r].len = 0 THEN EmptyDescriptor
                ELSE [count |-> comp.arrays[r].len, offset |-> start + offsets[r]]
    IN  With(comp.descriptors
             \o FlattenSeq([r \in DOMAIN comp.arrays |-> WriteDescriptor(q(r), "Q")]), LAMBDA combined :
    LET stream == Member(combined)
    IN  [stream |-> stream, len |-> StreamLen(stream, "Gzip1")])

\* Cells laid from a place on the heap; an empty one takes none.
LaidFrom(cells, start) ==
    LET offsets == HeapOffsets(LensOf(cells))
    IN  SelectSeq([k \in DOMAIN cells |-> [at |-> start + offsets[k], len |-> cells[k].len,
                                           stream |-> cells[k].stream]],
                  LAMBDA c : c.len > 0)

\* TableEncode::header.
ZTableHeader(header, metas, rowsPerTile, chunks, heapLen) ==
    [znaxis1 |-> header.rowLen, znaxis2 |-> header.rowCount, zpcount |-> header.pcount,
     ztheap |-> {}, ztilelen |-> rowsPerTile, naxis2 |-> chunks, pcount |-> heapLen,
     columns |-> [i \in DOMAIN metas |-> header.columns[i]],
     tforms |-> [i \in DOMAIN metas |-> Tform(1, "U8", "Q")],
     zctyp |-> [i \in DOMAIN metas |-> {CodecName(metas[i].codec)}]]

\* compress_table: the fixed cells, the arrays, then the blocks; tiles run through
\* the columns of the first rows, then of the next.
CompressTable(builder, config) ==
    With(Layout(builder), LAMBDA layout :
    LET header == TableHeader(builder, layout)
        requested == TileCodecOf(config.compression, 4, 0)
        rpt == TableTileRows(config, layout.rowCount, layout.rowLen)
        metas == [i \in DOMAIN builder.columns |->
                    ChosenMeta(header.columns[i].tform, requested)]
        ncols == Len(metas)
        chunks == CeilDiv(layout.rowCount, rpt.value)
    IN  With([t \in 1..chunks * ncols |->
                LET lo == ((t - 1) \div ncols) * rpt.value
                    i == ((t - 1) % ncols) + 1
                IN  EncodeColumn(builder, i, metas[i], lo,
                                 MinOf(lo + rpt.value, layout.rowCount))], LAMBDA comps :
    LET none == [stream |-> <<>>, len |-> 0]
        fixed == [t \in DOMAIN comps |-> IF comps[t].fixed THEN comps[t].cell ELSE none]
        fixedStarts == HeapOffsets(LensOf(fixed))
        fixedEnd == HeapLen(LensOf(fixed))
        arraysLen == [t \in DOMAIN comps |->
                        IF comps[t].fixed THEN 0 ELSE HeapLen(LensOf(comps[t].arrays))]
        arrayStart(t) == fixedEnd + HeapOffsets(arraysLen)[t]
        arraysEnd == fixedEnd + HeapLen(arraysLen)
    IN  With([t \in DOMAIN comps |->
               IF comps[t].fixed THEN none ELSE DescriptorBlock(comps[t], arrayStart(t))], LAMBDA blocks :
    LET blockStarts == HeapOffsets(LensOf(blocks))
        descriptor(t) == IF comps[t].fixed
                         THEN [count |-> fixed[t].len, offset |-> fixedStarts[t]]
                         ELSE [count |-> blocks[t].len, offset |-> arraysEnd + blockStarts[t]]
        heapLen == arraysEnd + HeapLen(LensOf(blocks))
    IN  With(FlattenSeq([t \in DOMAIN comps |->
               IF comps[t].fixed THEN <<>> ELSE LaidFrom(comps[t].arrays, arrayStart(t))]), LAMBDA arrays :
        IF layout.error # "none" THEN Err(layout.error)
        ELSE IF TableCodecError(config.compression) # "none"
        THEN Err(TableCodecError(config.compression))
        ELSE IF rpt.error # "none" THEN Err(rpt.error)
        ELSE IF \E t \in DOMAIN comps : DescriptorError(descriptor(t), "Q") # "none"
        THEN Err("DescriptorOutOfRange")
        ELSE Ok([header |-> ZTableHeader(header, metas, rpt.value, chunks, heapLen),
                 rows |-> [c \in 1..chunks |-> [i \in 1..ncols |-> descriptor((c - 1) * ncols + i)]],
                 heap |-> LaidFrom(fixed, 0) \o arrays \o LaidFrom(blocks, arraysEnd),
                 heapLen |-> heapLen])))))

-----------------------------------------------------------------------------
(* TiledTable::new. *)

\* column_codec.
ColumnCodec(name) ==
    CASE name = "GZIP_1" -> Ok(GzipPlain) [] name = "GZIP_2" -> Ok(GzipShuffled)
      [] name = "RICE_1" -> Ok(RiceCodec(RiceBlock, 4)) [] name = "NOCOMPRESS" -> Ok(NoCompress)
      [] OTHER -> Err("ColumnCodec")

\* The header of the table as it was.
RestoredHeader(z) ==
    [bitpix |-> 8, naxis |-> 2, gcount |-> 1, rowLen |-> z.znaxis1, rowCount |-> z.znaxis2,
     pcount |-> z.zpcount, theap |-> z.ztheap, columns |-> z.columns]

\* [schema, rowsPerTile, metas, heapGap, heapLen].
TiledTableOf(z) ==
    LET main == z.znaxis1 * z.znaxis2
        heap == OrElse(z.ztheap, main)
        rpt == MinOf(z.ztilelen, MaxOf(z.znaxis2, 1))
        codec(i) == IF z.zctyp[i] = {} THEN Ok(GzipShuffled)
                    ELSE ColumnCodec(CHOOSE n \in z.zctyp[i] : TRUE)
    IN  With(Collected([i \in DOMAIN z.columns |->
                IF ~TformOk(z.columns[i].tform) THEN Err("InvalidTform")
                ELSE Then(codec(i), LAMBDA c : DeclaredMeta(z.columns[i].tform, c))]), LAMBDA metas :
    LET width == HeapLen([i \in DOMAIN metas.value |-> metas.value[i].width])
        chunks == CeilDiv(z.znaxis2, rpt)
    IN  IF Checked(main) = {} THEN Err("DataUnitOverflow")
        ELSE IF Checked(main + z.zpcount) = {} THEN Err("DataUnitOverflow")
        ELSE IF heap < main \/ heap > main + z.zpcount THEN Err("Structure")
        ELSE IF z.ztilelen = 0 \/ Len(z.columns) > MaxFields THEN Err("Range")
        ELSE IF metas.error # "none" THEN Err(metas.error)
        ELSE IF Checked(width) = {} THEN Err("DataUnitOverflow")
        ELSE IF width # z.znaxis1 THEN Err("RowWidthMismatch")
        ELSE Then(ParseColumns(RestoredHeader(z), FALSE), LAMBDA schema :
                IF z.naxis2 # chunks THEN Err("SizeMismatch")
                ELSE Ok([schema |-> schema, rowsPerTile |-> rpt, metas |-> metas.value,
                         heapGap |-> heap - main, heapLen |-> z.zpcount])))

Selected(mask, i) == ~Masked(mask, i)

\* The stored array columns selected, in order.
ArrayColumns(tiled, mask) ==
    SelectSeq([i \in DOMAIN tiled.metas |-> i],
              LAMBDA i : IsStoredVla(tiled.metas[i]) /\ Selected(mask, i))

\* TiledTable::tiles: no rows are no tiles, wherever they are.
TilesOf(tiled, rows) ==
    IF rows.lo = rows.hi THEN [lo |-> 0, hi |-> 0]
    ELSE [lo |-> rows.lo \div tiled.rowsPerTile, hi |-> CeilDiv(rows.hi, tiled.rowsPerTile)]

-----------------------------------------------------------------------------
(* TiledTable::decode.  A view of the container is [tforms, rows, heap,       *)
(* heapLen, firstTile].                                                       *)

\* DataSource::table: the whole container.
WholeContainer(c) ==
    [tforms |-> c.header.tforms, rows |-> c.rows, heap |-> c.heap, heapLen |-> c.heapLen,
     firstTile |-> 0]

\* pq_payload of a descriptor of bytes: [stream, len]; bytes that are no stream
\* written there are damaged.
PayloadAt(view, d) ==
    With(HeapRange(d, "U8", 0, view.heapLen), LAMBDA ranges :
    LET cells == {k \in DOMAIN view.heap : view.heap[k].at = d.offset /\ view.heap[k].len = d.count}
    IN  IF ranges = {} THEN Err("DescriptorPastHeap")
        ELSE IF d.count = 0 THEN Ok([stream |-> <<>>, len |-> 0, damaged |-> FALSE])
        ELSE IF cells = {} THEN Ok([stream |-> <<>>, len |-> d.count, damaged |-> TRUE])
        ELSE LET k == CHOOSE k \in cells : TRUE
             IN  Ok([stream |-> view.heap[k].stream, len |-> d.count, damaged |-> FALSE]))

\* DataSource::table_rows of some tiles: copy_into checks and copies every cell of
\* their rows, which the compact view holds one after another.
TileRows(c, tiles) ==
    LET n == tiles.hi - tiles.lo
        ncols == Len(c.header.tforms)
        d(k) == c.rows[tiles.lo + (k - 1) \div ncols + 1][((k - 1) % ncols) + 1]
    IN  With(Collected([k \in 1..n * ncols |-> PayloadAt(WholeContainer(c), d(k))]), LAMBDA payloads :
    LET offsets == HeapOffsets(LensOf(payloads.value))
    IN  IF RowRangeError(tiles, Len(c.rows)) # "none" THEN Err("RowRangeOutOfBounds")
        ELSE Then(payloads, LAMBDA cells :
                Ok([tforms |-> c.header.tforms, heapLen |-> HeapLen(LensOf(cells)),
                    rows |-> [r \in 1..n |-> [i \in 1..ncols |->
                        LET k == (r - 1) * ncols + i
                        IN  [count |-> cells[k].len, offset |-> offsets[k]]]],
                    heap |-> LaidFrom(cells, 0), firstTile |-> tiles.lo])))

\* TileDecode::cell and stream_cell: a cell of bytes.
TileCellOf(view, i, chunk) ==
    IF view.tforms[i].element # "U8" THEN Err("CellElement")
    ELSE PayloadAt(view, view.rows[chunk - view.firstTile + 1][i])

\* ColumnStream::decompress: the bytes, of a codec's scratch that may be any.
Decompress(codec, tile, payload) ==
    With(DecodeBytes(codec, tile, payload.stream, NoScratch), LAMBDA d :
    LET whole == codec.kind = "NoCompress" /\ payload.len # ByteLen(tile)
    IN  IF whole THEN Err("SizeMismatch")
        ELSE IF payload.damaged \/ (payload.len = 0 /\ codec.kind \in {"Gzip1", "Gzip2"})
        THEN Err("stream")
        ELSE IF d.error # "none" THEN Err(d.error) ELSE Ok(Lent(d, payload.stream)))

\* TileDecode::rows.
RowsIn(tiled, chunk) == MinOf(tiled.rowsPerTile, tiled.schema.rowCount - chunk * tiled.rowsPerTile)

\* decode_fixed: the bytes of a column in the tile, zeros for one not selected and
\* for descriptors.
FixedPiece(tiled, view, mask, chunk, i) ==
    LET m == tiled.metas[i]
        len == RowsIn(tiled, chunk) * m.width
    IN  IF ~Selected(mask, i) \/ IsStoredVla(m) THEN Ok(Zeros(len))
        ELSE IF Checked(len) = {} THEN Err("DataUnitOverflow")
        ELSE Then(TileCellOf(view, i, chunk), LAMBDA p : Decompress(m.codec, MetaTile(m, len), p))

\* The first half of restore_tile: each column's bytes.
FixedPieces(tiled, view, mask, chunk) ==
    Collected([i \in DOMAIN tiled.metas |-> FixedPiece(tiled, view, mask, chunk, i)])

\* The descriptors of a column in the tile, as they were compressed.
ReadBlock(tiled, view, chunk, i) ==
    LET len == RowsIn(tiled, chunk) * (tiled.metas[i].width + 16)
    IN  IF Checked(len) = {} THEN Err("DataUnitOverflow")
        ELSE Then(TileCellOf(view, i, chunk), LAMBDA p : Decompress(GzipPlain, ByteTile(len), p))

\* One array of the tile: its own descriptor's count and length, and the descriptor
\* of its stream.
BlockArray(tiled, m, rows, block, r) ==
    LET at == rows * m.width + (r - 1) * 16
    IN  With(DecodeDescriptor(Bytes(block, (r - 1) * m.width, r * m.width)), LAMBDA original :
        With(HeapRange(original.d, m.tform.element, tiled.heapGap, tiled.heapLen), LAMBDA ranges :
        LET range == CHOOSE x \in ranges : TRUE
        IN  IF original.error # "none" THEN Err(original.error)
            ELSE IF ranges = {} THEN Err("DescriptorPastHeap")
            ELSE Ok([row |-> r, meta |-> m, count |-> original.d.count,
                     len |-> range.hi - range.lo,
                     q |-> DecodeDescriptor(Bytes(block, at, at + 16))])))

\* read_blocks: the arrays of the tile, row by row.
ReadBlocks(tiled, view, mask, chunk) ==
    LET rows == RowsIn(tiled, chunk)
        columns == ArrayColumns(tiled, mask)
    IN  Then(Collected([k \in DOMAIN columns |-> ReadBlock(tiled, view, chunk, columns[k])]),
             LAMBDA blocks :
            Collected(FlattenSeq([r \in 1..rows |-> [k \in DOMAIN columns |->
                BlockArray(tiled, tiled.metas[columns[k]], rows, blocks[k], r)]])))

\* decompress_array: as many bytes as the array has are the array.
DecompressArray(m, payload, len) ==
    Decompress(IF payload.len = len THEN NoCompress ELSE m.codec, MetaTile(m, len), payload)

\* One array of restore_tile: its bytes.
RestoreArray(view, a) ==
    IF a.q.error # "none" THEN Err(a.q.error)
    ELSE IF a.len = 0 THEN (IF a.q.d.count # 0 THEN Err("SizeMismatch") ELSE Ok(<<>>))
    ELSE Then(PayloadAt(view, a.q.d), LAMBDA p : DecompressArray(a.meta, p, a.len))

\* The rows of a tile from its columns' pieces.
TileMain(tiled, pieces, rows) ==
    FlattenSeq([r \in 1..rows |-> FlattenSeq([i \in DOMAIN pieces |->
        Bytes(pieces[i], (r - 1) * tiled.metas[i].width, r * tiled.metas[i].width)])])

\* restore_tile: [main, heap], the tile's heap beginning at `base'.
RestoreTile(tiled, view, mask, chunk, base) ==
    Then(FixedPieces(tiled, view, mask, chunk), LAMBDA pieces :
    Then(ReadBlocks(tiled, view, mask, chunk), LAMBDA arrays :
    Then(Collected([k \in DOMAIN arrays |-> RestoreArray(view, arrays[k])]), LAMBDA bytes :
        LET columns == ArrayColumns(tiled, mask)
            n == Len(columns)
            offsets == HeapOffsets([k \in DOMAIN arrays |-> arrays[k].len])
            d(k) == [count |-> arrays[k].count, offset |-> base + offsets[k]]
            bad == \E k \in DOMAIN arrays :
                    DescriptorError(d(k), arrays[k].meta.tform.storage) # "none"
            rows == RowsIn(tiled, chunk)
            written(j) == FlattenSeq([r \in 1..rows |->
                            LET k == (r - 1) * n + j
                            IN  WriteDescriptor(d(k), arrays[k].meta.tform.storage)])
        IN  With([i \in DOMAIN pieces |->
                    IF \E j \in 1..n : columns[j] = i
                    THEN written(CHOOSE j \in 1..n : columns[j] = i) ELSE pieces[i]], LAMBDA whole :
            IF bad THEN Err("DescriptorOutOfRange")
            ELSE Ok([main |-> TileMain(tiled, whole, rows), heap |-> FlattenSeq(bytes)])))))

\* heap_lens of the tiles.
TileHeapLens(tiled, view, mask, tiles) ==
    Collected([t \in 1..tiles.hi - tiles.lo |->
        Then(ReadBlocks(tiled, view, mask, tiles.lo + t - 1), LAMBDA arrays :
            Ok(HeapLen([k \in DOMAIN arrays |-> arrays[k].len])))])

\* decode: [firstRow, schema, data].  Chunks of no bytes are a panic of the slice.
DecodeRows(tiled, view, rows, mask) ==
    LET tiles == TilesOf(tiled, rows)
        firstRow == IF tiles.lo = tiles.hi THEN rows.lo ELSE tiles.lo * tiled.rowsPerTile
        rowCount == MaxOf(0, MinOf(tiles.hi * tiled.rowsPerTile, tiled.schema.rowCount) - firstRow)
        chunks == [t \in 1..tiles.hi - tiles.lo |-> tiles.lo + t - 1]
    IN  With(IF ArrayColumns(tiled, mask) = <<>> THEN Ok([t \in DOMAIN chunks |-> 0])
             ELSE TileHeapLens(tiled, view, mask, tiles), LAMBDA lens :
        With(Collected([t \in DOMAIN chunks |->
                RestoreTile(tiled, view, mask, chunks[t], HeapOffsets(lens.value)[t])]), LAMBDA parts :
    LET done(data) == Ok([firstRow |-> firstRow, data |-> data,
                          schema |-> Compacted(tiled.schema, rowCount, Len(data))])
    IN  IF \E i \in DOMAIN view.tforms : view.tforms[i].storage = "Fixed"
        THEN Err("ColumnKindMismatch")
        ELSE IF Checked(tiled.rowsPerTile * tiled.schema.rowLen) = {} THEN Err("DataUnitOverflow")
        ELSE IF lens.error # "none" THEN Err(lens.error)
        ELSE IF tiled.rowsPerTile * tiled.schema.rowLen = 0 THEN Err("panic")
        ELSE Then(parts, LAMBDA whole :
                done(FlattenSeq([t \in DOMAIN whole |-> whole[t].main])
                     \o FlattenSeq([t \in DOMAIN whole |-> whole[t].heap])))))

\* DataSource::decode: the whole container where arrays may lie anywhere on its
\* heap, else the rows of the tiles.
DecodeTable(container, tiled, rows, mask) ==
    LET tiles == TilesOf(tiled, rows)
        all == [lo |-> 0, hi |-> Len(container.rows)]
    IN  Then(IF ArrayColumns(tiled, mask) # <<>> \/ tiles = all THEN Ok(WholeContainer(container))
             ELSE TileRows(container, tiles),
             LAMBDA view : DecodeRows(tiled, view, rows, mask))

=============================================================================
