------------------------------ MODULE TileDecode ------------------------------
(***************************************************************************)
(* Reading one tile of a container (compression/decode/): the keywords of  *)
(* a tiled image, the cell a tile is stored in, its integers or floats and *)
(* its nulls, in the scratch set of a worker.                              *)
(*                                                                         *)
(* A table is [columns, rows, heap, heapLen] as TileEncode lays it out; its *)
(* heap counts from the heap's start, and a cell that names no stream's     *)
(* bytes is damaged.  A decoded float is in Grain-ths.                      *)
(***************************************************************************)
EXTENDS TileEncode

-----------------------------------------------------------------------------
(* The keywords. *)

\* TileCodec::parse: none is UnsupportedCompression.
CodecOfName(name) ==
    {c \in {GzipPlain, GzipShuffled, RiceCodec(RiceBlock, 4), PlioCodec(0), NoCompress,
            HcompressCodec([kind |-> "Lossless", value |-> 0], FALSE, <<1, 2>>)} :
        CodecName(c) = name}

\* One ZNAMEn of the codec's: what it sets, or out of range.
ReadParameter(codec, s, p) ==
    LET v == OrElse(p.value, 0)
        set(ok, c) == IF ok THEN [error |-> "none", codec |-> c] ELSE [error |-> "Range", codec |-> codec]
    IN  IF s.error # "none" THEN s
        ELSE IF codec.kind = "Rice" /\ p.name = "BLOCKSIZE" /\ p.value # {}
        THEN set(v \in {16, 32}, [s.codec EXCEPT !.blocksize = v])
        ELSE IF codec.kind = "Rice" /\ p.name = "BYTEPIX" /\ p.value # {}
        THEN set(v \in Widths, [s.codec EXCEPT !.bytepix = v])
        ELSE IF codec.kind = "Hcompress" /\ p.name = "SMOOTH"
        THEN set(TRUE, [s.codec EXCEPT !.smoothing = v # 0])
        ELSE s

\* read_parameters: the ZNAMEn that concern the codec, in the header's order.
ReadParameters(codec, params) ==
    FoldLeft(LAMBDA s, p : ReadParameter(codec, s, p), [error |-> "none", codec |-> codec], params)

\* TileDecoder::new: a float image's integers are as wide as RICE_1 says, else 32 bits.
NewDecoder(h, image, codec) ==
    With(ReadParameters(codec, h.params), LAMBDA read :
    LET c == IF read.codec.kind = "Plio" THEN PlioCodec(PlioOffset(image.bitpix, image.scaling))
             ELSE read.codec
    IN  IF read.error # "none" THEN read
        ELSE [error |-> "none", codec |-> c,
              intWidth |-> IF ~IsFloat(image.bitpix) THEN ElemSize(image.bitpix)
                           ELSE IF c.kind = "Rice" THEN c.bytepix ELSE 4])

\* TiledImage::new.
TiledImage(h) ==
    With(CompressedGeometry(h), LAMBDA image :
    LET named == CodecOfName(OrElse(h.zcmptype, "none"))
        shape == HeaderTileShape(h.ztile, image.shape)
    IN  With(Fitted2(OrElse(named, GzipPlain), image.shape, shape.tiles), LAMBDA fitted :
    LET g == NewGeometry(image.shape, shape.tiles)
    IN  With(NewDecoder(h, image, fitted.codec), LAMBDA decoder :
    LET mask == CodecOfName(OrElse(h.zmaskcmp, "none"))
    IN  IF image.error # "none" THEN Refused(image.error)
        ELSE IF h.zcmptype = {} THEN Refused("MissingZCMPTYPE")
        ELSE IF named = {} THEN Refused("UnsupportedCompression")
        ELSE IF shape.error # "none" THEN Refused(shape.error)
        ELSE IF ~fitted.ok THEN Refused("HcompressPlane")
        ELSE IF h.naxis2 # NTiles(g) THEN Refused("SizeMismatch")
        ELSE IF decoder.error # "none" THEN Refused(decoder.error)
        ELSE IF h.zmaskcmp # {} /\ mask = {} THEN Refused("UnsupportedCompression")
        ELSE IF IsFloat(image.bitpix)
                /\ FloatQuantization(OrElse(h.zquantiz, "None"), OrElse(h.zdither0, 1), TRUE, TRUE)
                        = "Range"
        THEN Refused("Range")
        ELSE [error |-> "none", image |-> image, geometry |-> g, decoder |-> decoder,
              maskCodec |-> mask, header |-> h])))

-----------------------------------------------------------------------------
(* The tile index: the values that stand in the main table. *)

\* TileColumn::read of a column of one numeric value a row.
TileColumn(table, name, kinds) ==
    IF table.columns[name] = {} THEN [error |-> "none", values |-> {}]
    ELSE IF ~(table.columns[name] \subseteq kinds) THEN [error |-> "ColumnKindMismatch"]
    ELSE [error |-> "none", values |-> {[k \in DOMAIN table.rows |-> table.rows[k][name]]}]

\* TileIndex::read_columns.
TileIndex(table) ==
    LET zscale == TileColumn(table, "zscale", Bitpixes)
        zzero == TileColumn(table, "zzero", Bitpixes)
        zblank == TileColumn(table, "zblank", {b \in Bitpixes : ~IsFloat(b)})
        errors == SelectSeq(<<zscale.error, zzero.error, zblank.error>>, LAMBDA e : e # "none")
    IN  IF errors # <<>> THEN Refused(errors[1])
        ELSE [error |-> "none", rows |-> table.rows, zscale |-> zscale.values,
              zzero |-> zzero.values, zblank |-> zblank.values]

-----------------------------------------------------------------------------
(* Cells. *)

\* VlaColumn::cell and TableView::pq_payload.
VlaCell(table, column, row) ==
    LET d == table.rows[row + 1][column]
        kind == OrElse(table.columns[column], "U8")
    IN  With(HeapRange(d, kind, 0, table.heapLen), LAMBDA range :
    LET stored == {k \in DOMAIN table.heap :
                    \E r \in range : table.heap[k].at = r.lo /\ table.heap[k].len = r.hi - r.lo}
    IN  IF range = {} THEN Refused("DescriptorPastHeap")
        ELSE IF d.count > 0 /\ stored = {} THEN Refused("stream")
        ELSE [error |-> "none", count |-> d.count, element |-> kind,
              stream |-> IF d.count = 0 THEN <<>>
                         ELSE table.heap[CHOOSE k \in stored : TRUE].stream])

\* TileSources::source: the first column whose cell of the row is not empty.
TileSource(table, row) ==
    LET order == <<"cd", "gz", "un">>
        cell(k) == VlaCell(table, order[k], row)
    IN  With({k \in 1..3 : /\ table.columns[order[k]] # {}
                           /\ cell(k).error # "none" \/ cell(k).count > 0}, LAMBDA found :
    LET k == CHOOSE k \in found : \A j \in found : k <= j
    IN  IF found = {} THEN Refused("EmptyTile")
        ELSE IF cell(k).error # "none" THEN cell(k)
        ELSE [error |-> "none", source |-> order[k], cell |-> cell(k)])

-----------------------------------------------------------------------------
(* A scratch set: the values of the tile, and the codecs' buffers. *)

NoSet == [values |-> NoBuffer, codecs |-> NoScratch]

\* TileScratchSet::reserve.
ReserveSet(set, capacities) ==
    [values |-> GrowTo(set.values, capacities.values),
     codecs |-> ReserveScratch(set.codecs, capacities.codecs)]

TileError(e, set) == [error |-> e, set |-> set]

\* mem::swap of the values and the buffer the codec lends.
SwapLent(set, d) ==
    IF d.error # "none" THEN TileError(d.error, [set EXCEPT !.codecs = d.scratch])
    ELSE TileError("none", [values |-> d.scratch[d.lent],
                            codecs |-> [d.scratch EXCEPT ![d.lent] = set.values]])

\* A float's bytes, as Grain-ths.
FloatsOf(bitpix, bytes) ==
    With(DecodeBe(bitpix, bytes), LAMBDA floats :
        [k \in DOMAIN floats |-> IF floats[k] = NotFinite THEN NotFinite ELSE Grain * floats[k]])

\* stream_cell: the cell holds the elements its codec writes.
StreamCellOk(source, kind) == source.cell.element = kind

\* decode_tile_into.
DecodeIntTile(tiled, source, shape, set) ==
    LET tile == [shape |-> shape, width |-> tiled.decoder.intWidth, blank |-> {}]
        codec == IF source.source = "gz" THEN GzipPlain ELSE tiled.decoder.codec
        element == source.cell.element
    IN  IF source.source = "un"
        THEN IF element \notin Bitpixes \/ IsFloat(element) THEN TileError("CellElement", set)
             ELSE TileError("none", [set EXCEPT !.values =
                      Replaced(@, BeToI64(source.cell.stream, ElemSize(element)))])
        ELSE IF ~StreamCellOk(source, StreamKind(codec)) THEN TileError("CellElement", set)
        ELSE SwapLent(set, DecodeInts(codec, tile, source.cell.stream, set.codecs))

\* decode_float_tile_into; encoding is a Dequant, or none for a lossless image.
DecodeFloatTile(tiled, source, encoding, shape, set) ==
    LET bitpix == tiled.image.bitpix
        ints == [shape |-> shape, width |-> tiled.decoder.intWidth, blank |-> {}]
        floats == [ints EXCEPT !.width = ElemSize(bitpix)]
        element == source.cell.element
        stream == source.cell.stream
        codec == IF source.source = "gz" THEN GzipPlain ELSE tiled.decoder.codec
        quantized == source.source = "cd" /\ encoding # {}
        kind == IF quantized THEN StreamKind(codec) ELSE "U8"
    IN  With(IF quantized THEN DecodeInts(codec, ints, stream, set.codecs)
             ELSE DecodeBytes(codec, floats, stream, set.codecs), LAMBDA d :
    LET with(codecs, values) ==
            [codecs |-> codecs, values |-> Replaced(set.values, values)]
    IN  IF source.source = "un"
        THEN IF element \in {"F32", "F64"}
             THEN TileError("none", with(set.codecs, FloatsOf(element, stream)))
             ELSE IF element # "U8" THEN TileError("CellElement", set)
             ELSE IF Len(stream) # ByteLen(floats) THEN TileError("SizeMismatch", set)
             ELSE TileError("none", with(set.codecs, FloatsOf(bitpix, stream)))
        ELSE IF ~StreamCellOk(source, kind) THEN TileError("CellElement", set)
        ELSE IF d.error # "none" THEN TileError(d.error, [set EXCEPT !.codecs = d.scratch])
        ELSE TileError("none",
                with(d.scratch, IF quantized
                                THEN Dequantized(CHOOSE e \in encoding : TRUE, Lent(d, stream))
                                ELSE FloatsOf(bitpix, Lent(d, stream)))))

-----------------------------------------------------------------------------
(* Nulls. *)

\* NullMask::read: a mask of RICE_1 is of bytes.
MaskCodec(codecs) == {IF c.kind = "Rice" THEN [c EXCEPT !.bytepix = 1] ELSE c : c \in codecs}

\* NullMask::decode: [error, set, mask], the mask a set of at most one.
DecodeMask(plan, table, row, n, set) ==
    With(VlaCell(table, "mask", row), LAMBDA cell :
    LET codec == CHOOSE c \in plan.maskCodec : TRUE
    IN  With(DecodeInts(codec, [shape |-> <<n>>, width |-> 1, blank |-> {}], cell.stream, set.codecs), LAMBDA d :
    LET after == [set EXCEPT !.codecs = d.scratch]
        mask == Lent(d, cell.stream)
        result(e, s, m) == [error |-> e, set |-> s, mask |-> m]
    IN  IF table.columns["mask"] = {} THEN result("none", set, {})
        ELSE IF cell.error # "none" THEN result(cell.error, set, {})
        ELSE IF cell.count = 0 THEN result("none", set, {})
        ELSE IF plan.maskCodec = {} THEN result("MissingZMASKCMP", set, {})
        ELSE IF cell.element # StreamKind(codec) THEN result("CellElement", set, {})
        ELSE IF d.error # "none" THEN result(d.error, after, {})
        ELSE IF Len(mask) # n THEN result("SizeMismatch", after, {})
        ELSE IF \E k \in 1..n : mask[k] \notin {0, 1} THEN result("NullMask", after, {})
        ELSE result("none", after, {mask})))

\* fill_masked of the mask there is.
FillMasked(values, masks, fill) ==
    [k \in DOMAIN values |->
        IF \E m \in masks : k \in DOMAIN m /\ m[k] = 1 THEN fill ELSE values[k]]

\* apply_integer: the stored null becomes the declared one, then the mask's samples.
ApplyInteger(plan, table, at, n, set) ==
    LET stored == plan.stored[at.grid + 1]
        values == set.values.held
        found == stored # {} /\ stored # plan.blank
                 /\ \E k \in DOMAIN values : values[k] \in stored
        blanked == IF found
                   THEN [k \in DOMAIN values |->
                            IF values[k] \in stored THEN OrElse(plan.blank, 0) ELSE values[k]]
                   ELSE values
    IN  With(DecodeMask(plan, table, at.table, n, [set EXCEPT !.values.held = blanked]), LAMBDA m :
    LET masked == FillMasked(blanked, m.mask, OrElse(plan.blank, 0))
    IN  IF found /\ plan.blank = {} THEN TileError("MissingBLANK", set)
        ELSE IF m.error # "none" THEN TileError(m.error, m.set)
        ELSE IF m.mask # {} /\ plan.blank = {} THEN TileError("MissingBLANK", m.set)
        ELSE TileError("none", [m.set EXCEPT !.values.held = masked]))

\* apply_float.
ApplyFloat(plan, table, at, n, set) ==
    With(DecodeMask(plan, table, at.table, n, set), LAMBDA m :
        TileError(m.error, [m.set EXCEPT !.values.held = FillMasked(@, m.mask, NotFinite)]))

\* fit_integers: HCOMPRESS_1 may overshoot the type and is clamped, the rest refused.
FitIntegers(bitpix, values, clamp) ==
    LET lo == IF bitpix = "U8" THEN 0 ELSE -32768
        hi == IF bitpix = "U8" THEN 255 ELSE 32767
        fits == \A k \in DOMAIN values : HoldsInteger(bitpix, values[k])
    IN  IF fits THEN [error |-> "none", values |-> values]
        ELSE IF ~clamp THEN [error |-> "ValueOutOfRange", values |-> values]
        ELSE [error |-> "none",
              values |-> [k \in DOMAIN values |-> MaxOf(lo, MinOf(values[k], hi))]]

-----------------------------------------------------------------------------
(* The plan of a read. *)

\* TiledImage::plan: [error, tiled, quantization, stored, blank, maskCodec], stored a
\* set of at most one value for each tile of the grid.
PlanOf(tiled, columns, index) ==
    LET h == tiled.header
        blank == tiled.image.scaling.blank
        float == IsFloat(tiled.image.bitpix)
        scaled == h.zscale \cup h.zzero # {} \/ index.zscale # {} \/ index.zzero # {}
        quantization ==
            FloatQuantization(OrElse(h.zquantiz, "None"), OrElse(h.zdither0, 1), scaled,
                              StoresLosslessFloats(tiled.decoder.codec))
        zblank(t) == TileValueAt(h.zblank, index.zblank, IF float THEN {} ELSE blank, t)
        hmask == columns.mask # {} /\ \E c \in tiled.maskCodec : c.kind = "Hcompress"
    IN  IF float /\ quantization \notin {"Lossless", "Quantized"} THEN Refused(quantization)
        ELSE IF hmask THEN Refused("HcompressNullMask")
        ELSE [error |-> "none", tiled |-> tiled, columns |-> columns,
              lossless |-> float /\ quantization = "Lossless", blank |-> blank,
              stored |-> [t \in 1..NTiles(tiled.geometry) |-> IF float THEN {} ELSE zblank(t - 1)],
              encoding |-> [t \in 1..NTiles(tiled.geometry) |->
                IF ~float \/ quantization = "Lossless" THEN {}
                ELSE {DequantOf(OrElse(h.zquantiz, "None"), OrElse(h.zdither0, 1),
                                TileValueAt(h.zscale, index.zscale, {}, t - 1),
                                TileValueAt(h.zzero, index.zzero, {}, t - 1),
                                zblank(t - 1), t - 1)}],
              maskCodec |-> MaskCodec(tiled.maskCodec)]

\* Mutant: the gzip column needs nothing of its own.
DecoderCapacitiesPrimary(plan, shape) ==
    LET ints == [shape |-> shape, width |-> plan.tiled.decoder.intWidth, blank |-> {}]
        floats == [ints EXCEPT !.width = ElemSize(plan.tiled.image.bitpix)]
    IN  IF plan.lossless THEN BytesCapacities(plan.tiled.decoder.codec, floats)
        ELSE IntsCapacities(plan.tiled.decoder.codec, ints)

\* TileDecoder::capacities of a tile as large as any.
DecoderCapacities(plan, shape) ==
    LET codec == plan.tiled.decoder.codec
        bitpix == plan.tiled.image.bitpix
        ints == [shape |-> shape, width |-> plan.tiled.decoder.intWidth, blank |-> {}]
        floats == [ints EXCEPT !.width = ElemSize(bitpix)]
    IN  With(IF plan.columns.cd = {} THEN NoCapacities
             ELSE IF plan.lossless THEN BytesCapacities(codec, floats)
             ELSE IntsCapacities(codec, ints), LAMBDA primary :
        With(IF plan.columns.gz = {} THEN NoCapacities
             ELSE IF IsFloat(bitpix) THEN BytesCapacities(GzipPlain, floats)
             ELSE IntsCapacities(GzipPlain, ints), LAMBDA gzip :
        MaxCapacities(primary, gzip)))

\* NullMask::capacities.
MaskCapacities(plan, n) ==
    IF plan.columns.mask = {} \/ plan.maskCodec = {} THEN NoCapacities
    ELSE IntsCapacities(CHOOSE c \in plan.maskCodec : TRUE,
                        [shape |-> <<n>>, width |-> 1, blank |-> {}])

\* set_capacities.
SetCapacities(plan) ==
    LET g == plan.tiled.geometry
    IN  [values |-> MaxTileElements(g),
         codecs |-> MaxCapacities(DecoderCapacities(plan, g.maxTile),
                                  MaskCapacities(plan, MaxTileElements(g)))]

\* decode_tile and WidePlane::decode_tile: the cell of the table's row `table', the
\* tile `grid' of the image.
DecodeTile(plan, table, at, set) ==
    LET float == IsFloat(plan.tiled.image.bitpix)
    IN  With(TileInto(plan.tiled.geometry, at.grid), LAMBDA tile :
        With(TileSource(table, at.table), LAMBDA source :
        With(IF float
             THEN DecodeFloatTile(plan.tiled, source, plan.encoding[at.grid + 1], tile.tdims, set)
             ELSE DecodeIntTile(plan.tiled, source, tile.tdims, set), LAMBDA raw :
        With(IF float THEN ApplyFloat(plan, table, at, Nelem(tile), raw.set)
             ELSE ApplyInteger(plan, table, at, Nelem(tile), raw.set), LAMBDA nulled :
    LET clamp == source.source = "cd" /\ plan.tiled.decoder.codec.kind = "Hcompress"
    IN  With(FitIntegers(plan.tiled.image.bitpix, nulled.set.values.held, clamp), LAMBDA fit :
        IF source.error # "none" THEN TileError(source.error, set)
        ELSE IF raw.error # "none" THEN raw
        ELSE IF nulled.error # "none" THEN nulled
        ELSE IF Len(nulled.set.values.held) # Nelem(tile) THEN TileError("SizeMismatch", nulled.set)
        ELSE IF float THEN nulled
        ELSE TileError(fit.error, [nulled.set EXCEPT !.values.held = fit.values]))))))

=============================================================================
