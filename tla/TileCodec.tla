------------------------------ MODULE TileCodec ------------------------------
(***************************************************************************)
(* The dispatch between a tile's samples and its stream                    *)
(* (compression/tile_codec.rs, convert.rs, plane.rs, nocompress.rs,         *)
(* endian.rs) and the scratch a worker reuses from tile to tile.            *)
(*                                                                         *)
(* A codec is a record whose `kind' is the variant of TileCodec.  A tile is *)
(* [shape, width, blank]: its extents, its element size in bytes and its    *)
(* null as a set of at most one value.  A stream is what the codec's own    *)
(* module makes of it: bytes, words, a gzip member, an HCOMPRESS stream.    *)
(***************************************************************************)
EXTENDS Rice, Plio, Hcompress, Gzip, Quantize

\* IntBitpix: every width but one byte is two's complement.
Widths == {1, 2, 4, 8}
InWidth(v, width) ==
    \/ width = 8
    \/ width = 4 /\ v \in -2147483647 - 1..2147483647
    \/ width = 2 /\ v \in -32768..32767
    \/ width = 1 /\ v \in 0..255

\* The big-endian bytes of the low `width' bytes of v, and back.
BeBytes(v, width) ==
    FoldLeft(LAMBDA s, k : [v |-> s.v \div 256, out |-> <<s.v % 256>> \o s.out],
             [v |-> v, out |-> <<>>], Zeros(width)).out

FromBe(bytes) ==
    LET top == IF Len(bytes) > 1 /\ bytes[1] >= 128 THEN bytes[1] - 256 ELSE bytes[1]
    IN  FoldLeft(LAMBDA acc, b : 256 * acc + b, top, Tail(bytes))

I64ToBe(values, width) == FlattenSeq([k \in DOMAIN values |-> BeBytes(values[k], width)])

BeToI64(bytes, width) ==
    [k \in 1..Len(bytes) \div width |-> FromBe(SubSeq(bytes, (k - 1) * width + 1, k * width))]

-----------------------------------------------------------------------------
(* The codecs and a tile's size. *)

GzipPlain == [kind |-> "Gzip1"]
GzipShuffled == [kind |-> "Gzip2"]
NoCompress == [kind |-> "NoCompress"]
RiceCodec(blocksize, bytepix) == [kind |-> "Rice", blocksize |-> blocksize, bytepix |-> bytepix]
PlioCodec(offset) == [kind |-> "Plio", offset |-> offset]
HcompressCodec(scale, smoothing, plane) ==
    [kind |-> "Hcompress", scale |-> scale, smoothing |-> smoothing, plane |-> plane]

Count(tile) == FoldLeft(LAMBDA n, e : n * e, 1, tile.shape)
ByteLen(tile) == Count(tile) * tile.width

\* GZIP_2's significance planes are as wide as the tile's element.
ShuffleOf(codec, tile) == IF codec.kind = "Gzip2" THEN tile.width ELSE 1

StoresLosslessFloats(codec) == codec.kind \in {"Gzip1", "Gzip2"}

StreamKind(codec) == IF codec.kind = "Plio" THEN "I16" ELSE "U8"

\* The axes of a shape's extents above one: HCOMPRESS takes exactly two.
Above1(dims, tiles) == SelectSeq([i \in DOMAIN dims |-> i], LAMBDA i : MinOf(dims[i], tiles[i]) > 1)

\* TileCodec::fitted and hcompress::Codec::fitted.
Fitted2(codec, dims, tiles) ==
    With(Above1(dims, tiles), LAMBDA above :
        IF codec.kind # "Hcompress" \/ dims = <<>> \/ \E i \in DOMAIN dims : dims[i] = 0
        THEN [ok |-> TRUE, codec |-> codec]
        ELSE IF Len(above) = 2 THEN [ok |-> TRUE, codec |-> [codec EXCEPT !.plane = above]]
        ELSE [ok |-> FALSE])

\* Codec::tile_scale: the noise is in thousandths of a half.
TileScale(scale, values, rowLen) ==
    CASE scale.kind = "Lossless" -> 0
      [] scale.kind = "Absolute" -> scale.value
      [] OTHER -> (scale.value * IntegerNoise(values, rowLen) + 1000) \div 2000

-----------------------------------------------------------------------------
(* Encoding.  The samples reach the codec as integers; the two that store     *)
(* bytes take them in the tile's width.                                       *)

EncodeError(e) == [error |-> e]
Encoded(stream) == [error |-> "none", stream |-> stream]

EncodeTile(codec, tile, values) ==
    CASE codec.kind \in {"Gzip1", "Gzip2"} ->
            Encoded(GzipEncode(I64ToBe(values, tile.width), ShuffleOf(codec, tile)))
      [] codec.kind = "Rice" ->
            Encoded(RiceEncode([blocksize |-> codec.blocksize, bits |-> 8 * codec.bytepix], values))
      [] codec.kind = "Plio" -> Encoded(PlioEncode(codec.offset, values))
      [] codec.kind = "Hcompress" ->
            LET ny == tile.shape[codec.plane[1]]
                nx == tile.shape[codec.plane[2]]
            IN  With(HcompressEncode(values, nx, ny, TileScale(codec.scale, values, ny), tile.blank), LAMBDA h :
                IF h.ok THEN Encoded(h.stream) ELSE EncodeError(h.error))
      [] codec.kind = "NoCompress" -> Encoded(I64ToBe(values, tile.width))

-----------------------------------------------------------------------------
(* The scratch of one worker and what a decode of a tile fills of it. *)

NoScratch ==
    [decoded |-> NoBuffer, bytes |-> NoBuffer, inflated |-> NoBuffer, reordered |-> NoBuffer,
     plane |-> NoBuffer, transform |-> NoBuffer, rows |-> NoBuffer, qtree |-> NoBuffer]

NoCapacities == [b \in DOMAIN NoScratch |-> 0]

\* CodecCapacities::max, buffer by buffer.
MaxCapacities(a, b) == [c \in DOMAIN a |-> MaxOf(a[c], b[c])]

\* CodecScratch::reserve.
ReserveScratch(scratch, capacities) ==
    [b \in DOMAIN scratch |-> GrowTo(scratch[b], capacities[b])]

\* HcompressCapacities::decode of a plane.
HcompressCapacities(ny, nx) ==
    LET many == MaxOf(nx, ny) > 1
    IN  [plane |-> nx * ny,
         transform |-> IF many THEN CeilDiv(MaxOf(nx, ny), 2) ELSE 0,
         rows |-> IF many THEN CeilDiv(nx, 2) * ny ELSE 0,
         qtree |-> MaxOf(1, CeilDiv(CeilDiv(nx, 2), 2) * CeilDiv(CeilDiv(ny, 2), 2))]

IntsCapacities(codec, tile) ==
    With(HcompressCapacities(tile.shape[codec.plane[1]], tile.shape[codec.plane[2]]), LAMBDA h :
    LET g == GzipCapacities(ByteLen(tile), ShuffleOf(codec, tile))
    IN  CASE codec.kind \in {"Rice", "Plio", "NoCompress"} ->
                [NoCapacities EXCEPT !.decoded = Count(tile)]
          [] codec.kind = "Hcompress" ->
                [NoCapacities EXCEPT !.plane = h.plane, !.transform = h.transform,
                                     !.rows = h.rows, !.qtree = h.qtree]
          [] codec.kind \in {"Gzip1", "Gzip2"} ->
                [NoCapacities EXCEPT !.decoded = Count(tile), !.inflated = g.bytes,
                                     !.reordered = g.reordered])

BytesCapacities(codec, tile) ==
    LET g == GzipCapacities(ByteLen(tile), ShuffleOf(codec, tile))
    IN  CASE codec.kind \in {"Gzip1", "Gzip2"} ->
                [NoCapacities EXCEPT !.inflated = g.bytes, !.reordered = g.reordered]
          [] codec.kind = "NoCompress" -> NoCapacities
          [] OTHER -> [IntsCapacities(codec, tile) EXCEPT !.bytes = ByteLen(tile)]

-----------------------------------------------------------------------------
(* Decoding.  A decode gives [error, scratch, lent]: the buffer it lends.  A   *)
(* failed one leaves its buffers as far as it came.                            *)

Decode(error, scratch, lent) == [error |-> error, scratch |-> scratch, lent |-> lent]

\* The buffer that `decoded' integers replace the contents of.
Replaced(buffer, values) == Filled(Cleared(buffer), values)

DecodeGzip(codec, tile, member, scratch) ==
    With(GzipDecode([bytes |-> scratch.inflated, reordered |-> scratch.reordered],
                    member, ByteLen(tile), ShuffleOf(codec, tile)), LAMBDA g :
    LET after == [scratch EXCEPT !.inflated = g.scratch.bytes, !.reordered = g.scratch.reordered]
    IN  Decode(g.error, after, "inflated"))

\* Rice and PLIO resize the buffer to the tile before they fill it.
DecodePlainInts(scratch, count, result) ==
    LET whole == IF result.ok THEN result.out ELSE Zeros(count)
    IN  Decode(IF result.ok THEN "none" ELSE "stream",
               [scratch EXCEPT !.decoded = Replaced(@, whole)], "decoded")

DecodeHcompress(codec, tile, stream, scratch) ==
    LET ny == tile.shape[codec.plane[1]]
        nx == tile.shape[codec.plane[2]]
    IN  With(HcompressDecode(stream, nx, ny, codec.smoothing), LAMBDA h :
    With(HcompressCapacities(ny, nx), LAMBDA c :
    LET header == ~h.ok /\ h.error \in {"magic", "negative", "dimensions", "planes"}
        whole == IF h.ok THEN h.out ELSE Zeros(nx * ny)
    IN  With([scratch EXCEPT !.plane = Replaced(@, whole), !.qtree = GrowTo(@, c.qtree),
                             !.transform = GrowTo(@, c.transform), !.rows = GrowTo(@, c.rows)], LAMBDA work :
        Decode(IF h.ok THEN "none" ELSE h.error, IF header THEN scratch ELSE work, "plane"))))

DecodeInts(codec, tile, stream, scratch) ==
    CASE codec.kind = "Rice" ->
            DecodePlainInts(scratch, Count(tile),
                RiceDecode([blocksize |-> codec.blocksize, bits |-> 8 * codec.bytepix],
                           stream, Count(tile)))
      [] codec.kind = "Plio" ->
            DecodePlainInts(scratch, Count(tile), PlioDecode(codec.offset, stream, Count(tile)))
      [] codec.kind = "Hcompress" -> DecodeHcompress(codec, tile, stream, scratch)
      [] codec.kind \in {"Gzip1", "Gzip2"} ->
            With(DecodeGzip(codec, tile, stream, scratch), LAMBDA g :
                IF g.error # "none" THEN g
                ELSE Decode("none",
                        [g.scratch EXCEPT !.decoded =
                            Replaced(@, BeToI64(g.scratch.inflated.held, tile.width))], "decoded"))
      [] codec.kind = "NoCompress" ->
            IF Len(stream) # ByteLen(tile) THEN Decode("SizeMismatch", scratch, "decoded")
            ELSE Decode("none", [scratch EXCEPT !.decoded = Replaced(@, BeToI64(stream, tile.width))],
                        "decoded")

\* decode_bytes: the bytes a lossless float tile or a table column is stored as.
\* NOCOMPRESS lends the stream itself, which `stream' stands for.
DecodeBytes(codec, tile, stream, scratch) ==
    CASE codec.kind \in {"Gzip1", "Gzip2"} -> DecodeGzip(codec, tile, stream, scratch)
      [] codec.kind = "NoCompress" ->
            Decode(IF Len(stream) # ByteLen(tile) THEN "SizeMismatch" ELSE "none",
                   scratch, "stream")
      [] OTHER ->
            With(DecodeInts(codec, tile, stream, scratch), LAMBDA d :
                IF d.error # "none" THEN [d EXCEPT !.lent = "bytes"]
                ELSE Decode("none",
                        [d.scratch EXCEPT !.bytes =
                            Replaced(@, I64ToBe(d.scratch[d.lent].held, tile.width))], "bytes"))

Lent(d, stream) == IF d.lent = "stream" THEN stream ELSE d.scratch[d.lent].held

=============================================================================
