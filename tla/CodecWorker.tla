----------------------------- MODULE CodecWorker -----------------------------
(***************************************************************************)
(* One decoding worker: tiles of every codec and shape go through one      *)
(* CodecScratch, as the tiles of an image, their masks and gzip fallbacks  *)
(* and the columns of a compressed table do.  A stream may arrive damaged; *)
(* the decode then fails with its buffers as far as it came, and the       *)
(* worker goes on with the next tile.                                      *)
(*                                                                         *)
(*   Jobs       [codec, tile, values] to decode in any order               *)
(*   Samples    more of them, each decoded by a new worker                 *)
(*   FloatJobs  [q, tile]: a quantizer and the float tile it is given      *)
(*   MaxTiles   how many tiles a worker decodes (a bound of the model)     *)
(***************************************************************************)
EXTENDS TileCodec

CONSTANTS Jobs, Samples, FloatJobs, MaxTiles

VARIABLES
    scratch,    \* the worker's CodecScratch
    last,       \* what the last decode was given and gave
    decoded     \* how many tiles the worker decoded

vars == <<scratch, last, decoded>>

IsGzip(codec) == codec.kind \in {"Gzip1", "Gzip2"}

\* What reaches the decoder of a stream.  A stream of any codec may end early.  A
\* gzip member may also have lost its header or its trailer, have another CRC, inflate
\* past the tile, or turn corrupt: before the tile's last byte, or past it.
Damages(codec) ==
    {"whole", "cut"} \cup IF IsGzip(codec)
                          THEN {"header", "trailer", "checksum", "long", "corrupt", "corruptPast"}
                          ELSE {}

AllButLast(s) == SubSeq(s, 1, Len(s) - 1)

Damaged(codec, stream, damage) ==
    CASE damage = "whole" -> stream
      [] damage = "header" -> [stream EXCEPT !.magic = FALSE]
      [] damage = "trailer" -> [stream EXCEPT !.trailer = FALSE]
      [] damage = "checksum" -> [stream EXCEPT !.crc = Append(@, 0)]
      [] damage = "long" -> [stream EXCEPT !.data = @ \o <<1, 1, 1>>]
      [] damage = "corrupt" -> [stream EXCEPT !.deflate = "bad", !.data = AllButLast(@)]
      [] damage = "corruptPast" -> [stream EXCEPT !.deflate = "bad", !.data = @ \o <<1, 1, 1>>]
      [] damage = "cut" ->
            IF IsGzip(codec) THEN [stream EXCEPT !.deflate = "cut", !.data = AllButLast(@)]
            ELSE IF codec.kind = "Hcompress" THEN [stream EXCEPT !.bytes = AllButLast(@)]
            ELSE AllButLast(stream)

Init ==
    /\ scratch = NoScratch
    /\ last = [done |-> "nothing"]
    /\ decoded = 0

\* decode_ints or decode_bytes of the stream the writer made of a job's samples.
DecodeOf(job, damage, done) ==
    With(EncodeTile(job.codec, job.tile, job.values), LAMBDA stored :
    With(Damaged(job.codec, stored.stream, damage), LAMBDA stream :
        With(IF done = "ints" THEN DecodeInts(job.codec, job.tile, stream, scratch)
             ELSE DecodeBytes(job.codec, job.tile, stream, scratch), LAMBDA d :
        /\ stored.error = "none"
        /\ scratch' = d.scratch
        /\ last' = [done |-> done, job |-> job, damage |-> damage, stream |-> stream,
                    error |-> d.error,
                    out |-> IF d.error = "none" THEN Lent(d, stream) ELSE <<>>])))

\* A float tile: quantized and Rice coded by the writer, decoded and dequantized
\* with the keywords the writer put in the header.
DecodeFloatsOf(job) ==
    With(Quantize(job.q, job.tile), LAMBDA z :
    LET codec == RiceCodec(32, 2)
        tile == [shape |-> <<Len(job.tile.values)>>, width |-> 2, blank |-> {}]
    IN  With(DecodeInts(codec, tile, EncodeTile(codec, tile, z.ints).stream, scratch), LAMBDA d :
    LET dequant == DequantOf(job.q.method, job.q.zdither0, {z.scale}, {z.zero}, {NullValue},
                             job.tile.index)
    IN  /\ z.some
        /\ scratch' = d.scratch
        /\ last' = [done |-> "floats", job |-> job, scale |-> z.scale, error |-> d.error,
                    out |-> Dequantized(dequant, d.scratch.decoded.held)]))

Next ==
    \/ /\ decoded < MaxTiles
       /\ decoded' = decoded + 1
       /\ \E job \in Jobs, done \in {"ints", "bytes"} :
            \E damage \in Damages(job.codec) : DecodeOf(job, damage, done)
    \/ /\ decoded = 0
       /\ decoded' = MaxTiles
       /\ \/ \E job \in Samples : DecodeOf(job, "whole", "ints")
          \/ \E job \in FloatJobs : DecodeFloatsOf(job)

Spec == Init /\ [][Next]_vars

-----------------------------------------------------------------------------
(* What the decodes promise. *)

\* A whole stream of a lossless codec gives back the samples it was made of,
\* whatever the worker decoded before.
GivesBack(kinds) ==
    last.done \in {"ints", "bytes"} /\ last.job.codec.kind \in kinds /\ last.damage = "whole"
        => /\ last.error = "none"
           /\ last.out = IF last.done = "ints" THEN last.job.values
                         ELSE I64ToBe(last.job.values, last.job.tile.width)

\* RICE_1: differences modulo the pixel width, a block of one value, of raw
\* differences, a unary prefix longer than a word, a short last block.
RiceRoundTrip == GivesBack({"Rice"})

\* GZIP_1, GZIP_2 and NOCOMPRESS: the byte order and the shuffle undo themselves
\* for every element width.
GzipRoundTrip == GivesBack({"Gzip1", "Gzip2", "NoCompress"})

\* HCOMPRESS_1 at scale 0: the H-transform, its quadtree bit planes, their Huffman
\* codes and their signs undo themselves on every shape.
HcompressRoundTrip == GivesBack({"Hcompress"})

\* A zero run that fills its words before a lone sample: the one list of the
\* encoder that does not come back (plio/mod.rs:158).
FullZeroRun(values, offset) ==
    \E i, k \in DOMAIN values :
        /\ i <= k /\ k < Len(values)
        /\ \A j \in i..k : values[j] + offset = 0
        /\ i = 1 \/ values[i - 1] + offset # 0
        /\ (k - i + 1) % DataMax = 0
        /\ values[k + 1] + offset # 0
        /\ k + 1 = Len(values) \/ values[k + 2] # values[k + 1]

\* PLIO_1, of every line list but the one above.
PlioRoundTripButFull ==
    last.done \in {"ints", "bytes"} /\ last.job.codec.kind = "Plio"
        => FullZeroRun(last.job.values, last.job.codec.offset) \/ GivesBack({"Plio"})

\* PLIO_1, as plio/mod.rs:73 has it: "The list round-trips through [`Self::decode`]".
PlioRoundTrip == GivesBack({"Plio"})

\* What a decode gives depends on its tile and its stream alone, never on the tiles
\* the scratch decoded before, and no damaged gzip member is taken for whole.  The
\* error too is that of a fresh scratch, but for deflate data that turns corrupt past
\* the tile: the fresh buffer is full before that, a longer one of an earlier tile may
\* not be (gzip/mod.rs:251-258).
DecodeForgetsScratch ==
    last.done \in {"ints", "bytes"}
        => LET job == last.job
           IN  With(IF last.done = "ints"
                    THEN DecodeInts(job.codec, job.tile, last.stream, NoScratch)
                    ELSE DecodeBytes(job.codec, job.tile, last.stream, NoScratch), LAMBDA fresh :
               /\ \/ last.error = fresh.error
                  \/ /\ last.damage = "corruptPast"
                     /\ fresh.error = "GzipOverrun" /\ last.error = "GzipStream"
               /\ last.error = "none" => last.out = Lent(fresh, last.stream)
               /\ IsGzip(job.codec) /\ last.damage # "whole" => last.error # "none")

\* A quantized float comes back within half a step, a sample that is not finite as
\* not finite, a zero of SUBTRACTIVE_DITHER_2 as zero, and no sample as a null.
QuantizedWithinHalfStep ==
    last.done = "floats"
        => /\ last.error = "none"
           /\ \A k \in DOMAIN last.job.tile.values :
                LET v == last.job.tile.values[k]
                    back == last.out[k]
                IN  IF v = NotFinite THEN back = NotFinite
                    ELSE /\ back # NotFinite
                         /\ 2 * AbsOf(back - Grain * v) <= Grain * last.scale
                         /\ last.job.q.method = "Subtractive2" /\ v = 0 => back = 0

=============================================================================
