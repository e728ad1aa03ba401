-------------------------------- MODULE Rice --------------------------------
(***************************************************************************)
(* The RICE_1 tile codec: src/src/compression/rice/mod.rs.  A tile is a    *)
(* literal first pixel, then blocks of differences; a block names its      *)
(* split, or that it is all zero, or that it is stored uncoded.            *)
(*                                                                         *)
(* The bit writer keeps its pending bits apart from the words it has put   *)
(* out, as BitOutput does; the bit reader keeps what it has loaded, as     *)
(* BitReader does (`acc' is the loaded bits, which the stream itself       *)
(* holds).  Arithmetic is modulo the pixel width.                          *)
(***************************************************************************)
EXTENDS BitStream

\* The bits BitOutput puts out at once, and BitReader's accumulator.
PutWidth == 32
AccWidth == 64

\* The split field's width and its escape value, by pixel width in bits.
SplitField(w) ==
    CASE w = 8  -> [bits |-> 3, max |-> 6]
      [] w = 16 -> [bits |-> 4, max |-> 14]
      [] w = 32 -> [bits |-> 5, max |-> 25]
      [] w = 64 -> [bits |-> 6, max |-> 57]

-----------------------------------------------------------------------------
(* Encoding. *)

NoOutput == [out |-> <<>>, acc |-> <<>>]

\* BitOutput::put: at most 32 bits join the pending ones; a full word leaves.
Put(bo, bits) ==
    With(bo.acc \o bits, LAMBDA acc :
        IF Len(acc) >= PutWidth
        THEN [out |-> bo.out \o SubSeq(acc, 1, PutWidth),
              acc |-> SubSeq(acc, PutWidth + 1, Len(acc))]
        ELSE [bo EXCEPT !.acc = acc])

\* Longer fields are put a word at a time, the first put the odd one.
OutputNbits(bo, v, n) ==
    IF n > PutWidth
    THEN Put(Put(bo, Bits(v \div 2^PutWidth, n - PutWidth)), Bits(v, PutWidth))
    ELSE Put(bo, Bits(v, n))

\* Mutant: the zeros of one word at most.
OutputZerosOnce(bo, n) == Put(bo, Zeros(MinOf(n, PutWidth)))

OutputZeros(bo, n) ==
    FoldLeft(LAMBDA b, k : Put(b, Zeros(MinOf(n - PutWidth * (k - 1), PutWidth))), bo,
             [k \in 1..CeilDiv(n, PutWidth) |-> k])

\* v >> fs in unary, a one, and the low fs bits: one put where they fit.
OutputRiceValue(bo, v, fs) ==
    LET top == v \div 2^fs
    IN  IF top + 1 + fs <= PutWidth
        THEN Put(bo, Zeros(top) \o <<1>> \o Bits(v % 2^fs, fs))
        ELSE OutputNbits(Put(OutputZeros(bo, top), <<1>>), v % 2^fs, fs)

FinishOutput(bo) == Packed(bo.out \o bo.acc)

ZigZag(s) == IF s >= 0 THEN 2 * s ELSE 2 * (-s) - 1

\* The block's mean difference, less one unless the remainder is past half.
MeanLessOne(sum, block) ==
    LET quotient == sum \div block
    IN  IF quotient > 0 /\ sum % block < block \div 2 + 1
        THEN quotient - 1 ELSE quotient

\* How often half the mean halves before it is zero.
SplitOf(mean) ==
    LET halvings[p \in Nat] == IF p = 0 THEN 0 ELSE 1 + halvings[p \div 2]
    IN  halvings[mean \div 2]

\* One block of pixels, each reduced to the width, after the pixel `last'.
EncodeBlock(bo, w, last, pixels) ==
    LET field == SplitField(w)
        prev(j) == IF j = 1 THEN last ELSE pixels[j - 1]
    IN  With([j \in DOMAIN pixels |-> ZigZag(Signed(pixels[j] - prev(j), w))], LAMBDA diffs :
    With(FoldLeft(LAMBDA a, d : a + d, 0, diffs), LAMBDA sum :
        With(SplitOf(MeanLessOne(sum, Len(pixels))), LAMBDA fs :
        IF fs >= field.max
        THEN FoldLeft(LAMBDA b, d : OutputNbits(b, d, w),
                      OutputNbits(bo, field.max + 1, field.bits), diffs)
        ELSE IF fs = 0 /\ sum = 0
        THEN OutputNbits(bo, 0, field.bits)
        ELSE FoldLeft(LAMBDA b, d : OutputRiceValue(b, d, fs),
                      OutputNbits(bo, fs + 1, field.bits), diffs))))

\* The blocks in order, the last one what is left.
EncodeBlocks(bo, w, size, last, pixels) ==
    LET start(k) == size * (k - 1)
        block(k) == SubSeq(pixels, start(k) + 1, MinOf(start(k) + size, Len(pixels)))
    IN  FoldLeft(LAMBDA b, k : EncodeBlock(b, w, IF k = 1 THEN last ELSE pixels[start(k)], block(k)),
                 bo, [k \in 1..CeilDiv(Len(pixels), size) |-> k])

\* codec is [blocksize, bits]: the samples a block, the bits a sample.
RiceEncode(codec, values) ==
    LET w == codec.bits
        pixels == [i \in DOMAIN values |-> Unsigned(values[i], w)]
        first == IF values = <<>> THEN 0 ELSE pixels[1]
    IN  FinishOutput(EncodeBlocks(OutputNbits(NoOutput, first, w), w,
                                  codec.blocksize, first, pixels))

-----------------------------------------------------------------------------
(* Decoding.  A read gives [ok, r, v]: whether the stream held the bits, the *)
(* reader after it, and the value.                                           *)

NewReader == [pos |-> 0, nbits |-> 0]

\* BitReader::refill: a whole-word load where 8 bytes remain, else byte by byte.
Refill(bytes, r) ==
    With(IF r.pos + AccWidth \div Byte <= Len(bytes)
         THEN (AccWidth - 1 - r.nbits) \div Byte
         ELSE MinOf(Len(bytes) - r.pos, (AccWidth - r.nbits) \div Byte), LAMBDA added :
        [pos |-> r.pos + added, nbits |-> r.nbits + Byte * added])

Eof == [ok |-> FALSE, r |-> NewReader, v |-> 0]

ReadShort(bytes, r, n) ==
    With(IF r.nbits < n THEN Refill(bytes, r) ELSE r, LAMBDA full :
        IF full.nbits < n THEN Eof
        ELSE [ok |-> TRUE, r |-> [full EXCEPT !.nbits = @ - n],
              v |-> Peek(bytes, full, n)])

\* A read past 56 bits is two; past 64 the stream is malformed.
ReadBits(bytes, r, n) ==
    IF n <= AccWidth - Byte THEN ReadShort(bytes, r, n)
    ELSE IF n > AccWidth THEN Eof
    ELSE With(ReadShort(bytes, r, n - PutWidth), LAMBDA high :
             With(ReadShort(bytes, high.r, PutWidth), LAMBDA low :
             IF ~high.ok \/ ~low.ok THEN Eof
             ELSE [low EXCEPT !.v = high.v * 2^PutWidth + @]))

\* BitReader::read_zeros: the zeros up to the next one, which is consumed too.
ReadZeros(bytes, reader) ==
    LET from[s \in [r : [pos : Nat, nbits : Nat], z : Nat]] ==
            With(IF s.r.nbits = 0 THEN Refill(bytes, s.r) ELSE s.r, LAMBDA full :
            LET at == Byte * full.pos - full.nbits
                ones == {i \in 0..full.nbits - 1 : BitAt(bytes, at + i) = 1}
                run == CHOOSE i \in ones : \A k \in ones : i <= k
            IN  IF full.nbits = 0 THEN Eof
                ELSE IF ones # {}
                THEN [ok |-> TRUE, r |-> [full EXCEPT !.nbits = @ - (run + 1)], v |-> s.z + run]
                ELSE from[[r |-> [full EXCEPT !.nbits = 0], z |-> s.z + full.nbits]])
    IN  from[[r |-> reader, z |-> 0]]

UndoZigZag(d) == IF d % 2 = 1 THEN -(d \div 2) - 1 ELSE d \div 2

\* One difference of a block split at fs.
ReadSplit(bytes, r, fs) ==
    With(ReadZeros(bytes, r), LAMBDA top :
        With(ReadBits(bytes, top.r, fs), LAMBDA low :
        IF ~top.ok \/ ~low.ok THEN Eof
        ELSE [low EXCEPT !.v = top.v * 2^fs + @]))

\* The decode so far: the reader, the last pixel, the pixels given.
DecodeSample(bytes, w, split, s) ==
    With(IF split = SplitField(w).max THEN ReadBits(bytes, s.r, w)
         ELSE ReadSplit(bytes, s.r, split), LAMBDA d :
    LET pixel == Unsigned(s.last + UndoZigZag(d.v), w)
    IN  IF d.ok THEN [s EXCEPT !.r = d.r, !.last = pixel, !.out = Append(@, pixel)]
        ELSE [s EXCEPT !.ok = FALSE])

\* A block of n samples, by its code.
DecodeBlock(bytes, w, n, s) ==
    With(ReadBits(bytes, s.r, SplitField(w).bits), LAMBDA code :
    LET after == [s EXCEPT !.r = code.r]
    IN  IF ~code.ok THEN [s EXCEPT !.ok = FALSE]
        ELSE IF code.v = 0
        THEN [after EXCEPT !.out = @ \o [i \in 1..n |-> s.last]]
        ELSE FoldLeft(LAMBDA t, i : IF t.ok THEN DecodeSample(bytes, w, code.v - 1, t) ELSE t,
                      after, Zeros(n)))

DecodeBlocks(bytes, w, size, count, s) ==
    FoldLeft(LAMBDA t, k :
                IF t.ok THEN DecodeBlock(bytes, w, MinOf(size, count - size * (k - 1)), t) ELSE t,
             s, [k \in 1..CeilDiv(count, size) |-> k])

\* The tile's values, or that the stream ended early.  BITPIX 8 is unsigned.
RiceDecode(codec, bytes, count) ==
    LET w == codec.bits
    IN  With(ReadBits(bytes, NewReader, w), LAMBDA first :
        With(DecodeBlocks(bytes, w, codec.blocksize, count,
                          [ok |-> first.ok, r |-> first.r, last |-> first.v, out |-> <<>>]), LAMBDA s :
        IF count = 0 THEN [ok |-> TRUE, out |-> <<>>]
        ELSE [ok |-> s.ok,
              out |-> [i \in DOMAIN s.out |->
                          IF w = 8 THEN s.out[i] ELSE Signed(s.out[i], w)]]))

=============================================================================
