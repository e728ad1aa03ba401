------------------------------ MODULE TileEncode ------------------------------
(***************************************************************************)
(* Writing an image as tiles (compression/encode/mod.rs), and what a user  *)
(* asks for (compression/mod.rs, quantization.rs).                         *)
(*                                                                         *)
(* A container is [header, columns, rows, heap]: the keywords that concern *)
(* tiles, each column's element kind as a set of at most one, a record a   *)
(* row, and the streams in the order they lie on the heap, each [at, len,  *)
(* stream].  The header a container shares with other tables is the        *)
(* prologue of HduLog.                                                     *)
(***************************************************************************)
EXTENDS Descriptor

-----------------------------------------------------------------------------
(* The configuration: [compression, tiles, quantization], the last a set of   *)
(* at most one [spacing], spacing "None" or [step, method, seed].             *)

\* HcompressScale::keyword_value.
ScaleKeyword(scale) ==
    CASE scale.kind = "Lossless" -> 0
      [] scale.kind = "Relative" -> scale.value
      [] scale.kind = "Absolute" -> -scale.value

RiceBlock == 32

\* Compression::tile_codec.
TileCodecOf(compression, bytepix, plioOffset) ==
    CASE compression.kind = "Gzip1" -> GzipPlain
      [] compression.kind = "Gzip2" -> GzipShuffled
      [] compression.kind = "Rice" -> RiceCodec(RiceBlock, bytepix)
      [] compression.kind = "Plio" -> PlioCodec(plioOffset)
      [] compression.kind = "Hcompress" -> HcompressCodec(compression.scale, FALSE, <<1, 2>>)
      [] compression.kind = "None" -> NoCompress

CodecName(codec) ==
    CASE codec.kind = "Gzip1" -> "GZIP_1" [] codec.kind = "Gzip2" -> "GZIP_2"
      [] codec.kind = "Rice" -> "RICE_1" [] codec.kind = "Plio" -> "PLIO_1"
      [] codec.kind = "Hcompress" -> "HCOMPRESS_1" [] codec.kind = "NoCompress" -> "NOCOMPRESS"

\* Quantization::default: a quarter of the noise, dithered from the samples.
Quantization(config) ==
    OrElse(config.quantization,
           [step |-> [kind |-> "Relative", value |-> 4], method |-> "Subtractive1",
            seed |-> "FromSamples"])

LosslessQuantization == [step |-> [kind |-> "Lossless", value |-> 0], method |-> "None", seed |-> "None"]

Quantizes(config) == \E q \in config.quantization : q.step.kind # "Lossless"

PlioOffset(bitpix, scaling) == IF bitpix = "I16" /\ scaling.bzero = 32768 THEN 32768 ELSE 0

-----------------------------------------------------------------------------
(* Tiles and streams. *)

TileOf(g, t, width, blank) == [shape |-> TileInto(g, t).tdims, width |-> width, blank |-> blank]

\* TileSamples::Bytes: a gzip codec takes the bytes as they are.
EncodeTileBytes(codec, tile, bytes) == Encoded(GzipEncode(bytes, ShuffleOf(codec, tile)))

\* The stream's elements and its bytes; deflate and the HCOMPRESS_1 header add theirs.
StreamCount(stream, kind) ==
    CASE kind \in {"Gzip1", "Gzip2"} -> Len(stream.data) + 18
      [] kind = "Hcompress" -> Len(stream.bytes) + 25
      [] OTHER -> Len(stream)

StreamLen(stream, kind) == StreamCount(stream, kind) * (IF kind = "Plio" THEN 2 ELSE 1)

TileTotal(g, samples) == IF samples = 0 THEN 0 ELSE NTiles(g)

\* map_tiles: the tiles in order, the first failure the one reported.
FirstError(cells) ==
    LET bad == {k \in DOMAIN cells : cells[k].error # "none"}
    IN  IF bad = {} THEN "none" ELSE cells[CHOOSE k \in bad : \A j \in bad : k <= j].error

\* The heap's running length before each cell.
HeapOffsets(lens) == [k \in DOMAIN lens |-> FoldLeft(LAMBDA a, b : a + b, 0, SubSeq(lens, 1, k - 1))]

HeapLen(lens) == FoldLeft(LAMBDA a, b : a + b, 0, lens)

Longest(counts) == FoldLeft(MaxOf, 0, counts)

NoColumns == [cd |-> {}, gz |-> {}, un |-> {}, mask |-> {}, zscale |-> {}, zzero |-> {}, zblank |-> {}]

\* lay_out_cells: [error, columns, rows, heap].
LayOutCells(streams, codec) ==
    LET kind == codec.kind
        lens == [k \in DOMAIN streams |-> StreamLen(streams[k], kind)]
        counts == [k \in DOMAIN streams |-> StreamCount(streams[k], kind)]
        offsets == HeapOffsets(lens)
        width == Addressing(HeapLen(lens), Longest(counts))
        descriptors == [k \in DOMAIN streams |-> [count |-> counts[k], offset |-> offsets[k]]]
        bad == \E k \in DOMAIN streams : DescriptorError(descriptors[k], width) # "none"
    IN  [error |-> IF bad THEN "DescriptorOutOfRange" ELSE "none",
         columns |-> [NoColumns EXCEPT !.cd = {StreamKind(codec)}],
         rows |-> [k \in DOMAIN streams |-> [cd |-> descriptors[k]]],
         heap |-> [k \in DOMAIN streams |->
                    [at |-> offsets[k], len |-> lens[k], stream |-> streams[k]]]]

-----------------------------------------------------------------------------
(* The header.  A keyword that may be absent is a set of at most one value.   *)

\* set_zimage_axes, container_header and Scaling::add_to_header.
ZHeader(codec, bitpix, dims, tiles, ntiles, scaling) ==
    [zcmptype |-> {CodecName(codec)}, zbitpix |-> {BitpixCode(bitpix)}, dims |-> {dims},
     ztile |-> [i \in DOMAIN tiles |-> {tiles[i]}], naxis2 |-> ntiles, params |-> <<>>,
     bscale |-> ScalingCards(scaling).bscale, bzero |-> ScalingCards(scaling).bzero,
     blank |-> scaling.blank, zblank |-> {}, zquantiz |-> {}, zdither0 |-> {},
     zscale |-> {}, zzero |-> {}, zmaskcmp |-> {}]

\* set_codec_parameters: the ZNAMEn and ZVALn pairs.
CodecParameters(codec) ==
    CASE codec.kind = "Rice" -> <<[name |-> "BLOCKSIZE", value |-> {codec.blocksize}],
                                  [name |-> "BYTEPIX", value |-> {codec.bytepix}]>>
      [] codec.kind = "Hcompress" -> <<[name |-> "SCALE", value |-> {ScaleKeyword(codec.scale)}]>>
      [] OTHER -> <<>>

Container(laid, header) ==
    [error |-> "none", header |-> header, columns |-> laid.columns, rows |-> laid.rows,
     heap |-> laid.heap]

Refused(e) == [error |-> e]

-----------------------------------------------------------------------------
(* The three ways an image is written. *)

\* compress_image of integers: gather_i64, encode, lay out, the header.
CompressInts(image, config) ==
    LET bitpix == image.view.bitpix
        dims == image.shape
        codec0 == TileCodecOf(config.compression, ElemSize(bitpix), PlioOffset(bitpix, image.scaling))
    IN  With(ResolveTileShape(dims, config.tiles, codec0.kind = "Hcompress"), LAMBDA shape :
        With(Fitted2(codec0, dims, shape.tiles), LAMBDA fitted :
    LET codec == fitted.codec
        g == NewGeometry(dims, shape.tiles)
        n == TileTotal(g, Len(image.view.values))
    IN  With([t \in 1..n |->
                EncodeTile(codec, TileOf(g, t - 1, ElemSize(bitpix), image.scaling.blank),
                           GatherRows(image.view.values, TileInto(g, t - 1)))], LAMBDA cells :
        With(LayOutCells([t \in 1..n |-> cells[t].stream], codec), LAMBDA laid :
    LET held == <<IF bitpix = "U8" THEN 0 ELSE -32768, IF bitpix = "U8" THEN 255 ELSE 32767>>
    IN  IF Quantizes(config) THEN Refused("IntegerQuantization")
        ELSE IF shape.error # "none" THEN Refused(shape.error)
        ELSE IF ~fitted.ok THEN Refused("HcompressPlane")
        ELSE IF codec.kind = "Plio" /\ PlioCheck(codec.offset, held, image.view.values) # 0
        THEN Refused("PlioRange")
        ELSE IF FirstError(cells) # "none" THEN Refused(FirstError(cells))
        ELSE IF laid.error # "none" THEN Refused(laid.error)
        ELSE Container(laid, [ZHeader(codec, bitpix, dims, shape.tiles, n, image.scaling)
                                EXCEPT !.params = CodecParameters(codec)])))))

\* gather_float_be.
GatherFloatBe(view, tile) == EncodeInto(View(view.bitpix, GatherRows(view.values, tile)))

\* compress_lossless_float_image.
CompressLosslessFloats(image, config) ==
    LET bitpix == image.view.bitpix
        width == ElemSize(bitpix)
        dims == image.shape
        codec == TileCodecOf(config.compression, width, 0)
    IN  With(ResolveTileShape(dims, config.tiles, FALSE), LAMBDA shape :
    LET g == NewGeometry(dims, shape.tiles)
        n == TileTotal(g, Len(image.view.values))
    IN  With([t \in 1..n |->
               EncodeTileBytes(codec, TileOf(g, t - 1, width, {}),
                               GatherFloatBe(image.view, TileInto(g, t - 1))).stream], LAMBDA streams :
        With(LayOutCells(streams, codec), LAMBDA laid :
        IF ~StoresLosslessFloats(codec) THEN Refused("LosslessFloatCodec")
        ELSE IF shape.error # "none" THEN Refused(shape.error)
        ELSE IF laid.error # "none" THEN Refused(laid.error)
        ELSE Container(laid, [ZHeader(codec, bitpix, dims, shape.tiles, n, image.scaling)
                                EXCEPT !.zquantiz = {"NONE"}]))))

\* quantized_codec: the integers are 32 bits, PLIO_1 holds none of them, and
\* HCOMPRESS_1 does not keep the zeros SUBTRACTIVE_DITHER_2 marks.
QuantizedCodec(compression, method) ==
    LET codec == TileCodecOf(compression, 4, 0)
    IN  [error |-> CASE codec.kind = "Plio" -> "QuantizedFloatCodec"
                     [] codec.kind = "Hcompress" /\ method = "Subtractive2" -> "HcompressDither2"
                     [] OTHER -> "none",
         codec |-> codec]

\* One float tile: quantized, or its floats gzip'd when it does not quantize.
EncodeFloatTile(image, g, codec, q, t) ==
    With(TileInto(g, t), LAMBDA at :
    With(GatherRows(image.view.values, at), LAMBDA values :
        With(Quantize(q, [values |-> values, width |-> at.tdims[1], index |-> t]), LAMBDA z :
    LET tile(width, blank) == TileOf(g, t, width, blank)
    IN  With(EncodeTileBytes(GzipPlain, tile(ElemSize(image.view.bitpix), {}),
                             GatherFloatBe(image.view, at)), LAMBDA raw :
        With(EncodeTile(codec, tile(4, IF z.hasNull THEN {NullValue} ELSE {}), z.ints), LAMBDA cell :
        IF ~z.some
        THEN [error |-> "none", raw |-> TRUE, stream |-> raw.stream, kind |-> "Gzip1",
              zscale |-> 0, zzero |-> 0, hasNull |-> FALSE]
        ELSE IF cell.error # "none" THEN [error |-> cell.error]
        ELSE [error |-> "none", raw |-> FALSE, stream |-> cell.stream, kind |-> codec.kind,
              zscale |-> z.scale, zzero |-> z.zero, hasNull |-> z.hasNull])))))

\* QuantizedFloatImage::lay_out: a raw tile's COMPRESSED_DATA is empty, a
\* quantized one's GZIP_COMPRESSED_DATA; both name the offset of the one stream.
LayOutFloats(tiles, codec) ==
    LET lens == [k \in DOMAIN tiles |-> StreamLen(tiles[k].stream, tiles[k].kind)]
        offsets == HeapOffsets(lens)
        width == Addressing(HeapLen(lens), Longest(lens))
        descriptor(k, mine) ==
            [count |-> IF mine THEN lens[k] ELSE 0, offset |-> offsets[k]]
        bad == \E k \in DOMAIN tiles : DescriptorError(descriptor(k, TRUE), width) # "none"
    IN  [error |-> IF bad THEN "DescriptorOutOfRange" ELSE "none",
         columns |-> [NoColumns EXCEPT !.cd = {"U8"}, !.gz = {"U8"}, !.zscale = {"F64"},
                                       !.zzero = {"F64"}],
         rows |-> [k \in DOMAIN tiles |->
                    [cd |-> descriptor(k, ~tiles[k].raw), gz |-> descriptor(k, tiles[k].raw),
                     zscale |-> tiles[k].zscale, zzero |-> tiles[k].zzero]],
         heap |-> [k \in DOMAIN tiles |->
                    [at |-> offsets[k], len |-> lens[k], stream |-> tiles[k].stream]]]

\* QuantizedFloatImage::encode.  The sum of the samples' bytes seeds the dither.
CompressQuantizedFloats(image, config) ==
    LET asked == Quantization(config)
        dims == image.shape
        chosen == QuantizedCodec(config.compression, asked.method)
    IN  With(ResolveTileShape(dims, config.tiles, chosen.codec.kind = "Hcompress"), LAMBDA shape :
        With(Fitted2(chosen.codec, dims, shape.tiles), LAMBDA fitted :
    LET codec == fitted.codec
        g == NewGeometry(dims, shape.tiles)
        n == TileTotal(g, Len(image.view.values))
    IN  With(IF asked.seed = "FromSamples"
             THEN SampleSeed(FoldLeft(LAMBDA a, b : a + b, 0, EncodeInto(image.view)))
             ELSE 1, LAMBDA seed :
    LET zdither0 == IF asked.method = "None" THEN {}
                    ELSE IF asked.seed = "FromSamples" THEN {seed} ELSE {asked.fixed}
        q == [step |-> asked.step, method |-> asked.method, zdither0 |-> OrElse(zdither0, 1)]
    IN  With([t \in 1..n |-> EncodeFloatTile(image, g, codec, q, t - 1)], LAMBDA tiles :
        With(LayOutFloats(tiles, codec), LAMBDA laid :
    LET anyNull == \E t \in 1..n : tiles[t].hasNull
    IN  IF chosen.error # "none" THEN Refused(chosen.error)
        ELSE IF shape.error # "none" THEN Refused(shape.error)
        ELSE IF ~fitted.ok THEN Refused("HcompressPlane")
        ELSE IF FirstError(tiles) # "none" THEN Refused(FirstError(tiles))
        ELSE IF laid.error # "none" THEN Refused(laid.error)
        ELSE Container(laid,
                [ZHeader(codec, image.view.bitpix, dims, shape.tiles, n, image.scaling)
                    EXCEPT !.params = CodecParameters(codec), !.zquantiz = {asked.method},
                           !.zdither0 = zdither0, !.zblank = IF anyNull THEN {NullValue} ELSE {}]))))))

\* compress_image.
CompressImage(image, config) ==
    IF ImageError(image) # "none" THEN Refused(ImageError(image))
    ELSE IF ~IsFloat(image.view.bitpix) THEN CompressInts(image, config)
    ELSE IF Quantization(config).step.kind = "Lossless" THEN CompressLosslessFloats(image, config)
    ELSE CompressQuantizedFloats(image, config)

=============================================================================
