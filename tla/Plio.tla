-------------------------------- MODULE Plio --------------------------------
(***************************************************************************)
(* The PLIO_1 tile codec: src/src/compression/plio/mod.rs.  A tile is a    *)
(* list of words: a header of seven, then instructions, an opcode over a   *)
(* data field.  The code's data field has 12 bits; DataBits is a parameter *)
(* so that a run longer than one word, and a step of the high value wider  *)
(* than one word, happen in a tile of a few samples.                       *)
(***************************************************************************)
EXTENDS BitStream

CONSTANT DataBits

ASSUME DataBitsAssumption == DataBits \in Nat \ {0}

Field == 2^DataBits
DataMax == Field - 1

\* STREAM_RANGE: two data fields wide.
StreamRange == 0..(Field * Field - 1)

Word(opcode, data) == opcode * Field + data

\* Codec::check_values: the first sample, in order, the stream cannot hold.
\* When the stream holds every value of the sample type no sample is read.
PlioCheck(offset, held, values) ==
    LET streamed(v) == v + offset \in StreamRange
        outside == {i \in DOMAIN values : ~streamed(values[i])}
    IN  IF outside = {} \/ (streamed(held[1]) /\ streamed(held[2]))
        THEN 0
        ELSE CHOOSE i \in outside : \A k \in outside : i <= k

-----------------------------------------------------------------------------
(* Encoding. *)

\* A run of n as words of one opcode, each as long as the data field allows.
RunWords(opcode, n) ==
    [k \in 1..CeilDiv(n, DataMax) |-> Word(opcode, MinOf(n - DataMax * (k - 1), DataMax))]

\* Mutant: a fall of the high value is written as a rise.
AdjustDown(hi, pv) ==
    IF pv = 0 \/ pv = hi THEN <<>>
    ELSE <<Word(IF pv < hi THEN 2 ELSE 3, AbsOf(pv - hi))>>

\* The words that take the high value from hi to pv: an absolute set of two
\* words when the step is wider than the field, else one step up or down.
AdjustWords(hi, pv) ==
    IF pv = 0 \/ pv = hi THEN <<>>
    ELSE IF AbsOf(pv - hi) > DataMax THEN <<Word(1, pv % Field), pv \div Field>>
    ELSE <<Word(IF pv < hi THEN 3 ELSE 2, AbsOf(pv - hi))>>

AddToLast(words, n) == [words EXCEPT ![Len(words)] = @ + n]

\* A lone high pixel folds into the last zero word: opcode 5, one longer.
FoldLone(zeros) == AddToLast(zeros, Word(5, 1))

\* The words of one segment: nz zeros, then np pixels of value pv.
SegmentWords(hi, pv, nz, np) ==
    With(AdjustWords(hi, pv), LAMBDA adjust :
        With(RunWords(0, nz), LAMBDA zeros :
        IF Len(adjust) = 1 /\ np = 1 /\ nz = 0
        THEN AddToLast(adjust, Word(4, 0))
        ELSE IF np = 1 /\ nz > 0 /\ pv > 0
        THEN adjust \o FoldLone(zeros)
        ELSE adjust \o zeros \o RunWords(4, np)))

\* run_len: how many pixels from i on equal v.
RunLen(pix, i, v) ==
    LET differ == {k \in i..Len(pix) : pix[k] # v}
    IN  IF differ = {} THEN Len(pix) + 1 - i
        ELSE (CHOOSE k \in differ : \A m \in differ : k <= m) - i

\* A step of the walk of Codec::encode from pixel s.ip: the run's value pv, the first
\* pixel x1 of the high run and iz of the zeros before it, the last value set.
Segment(pix, s) ==
    LET ip == s.ip + RunLen(pix, s.ip + 1, s.pv)
        more == ip < Len(pix)
        nv == IF more THEN pix[ip + 1] ELSE s.nv
        x1 == IF ~more /\ s.pv = 0 THEN Len(pix) + 1 ELSE s.x1
    IN  IF more /\ s.pv = 0
        THEN [s EXCEPT !.ip = ip + 1, !.pv = nv, !.nv = nv, !.x1 = ip + 1]
        ELSE [ip |-> ip + 1, pv |-> nv, nv |-> nv, x1 |-> ip + 1, iz |-> ip + 1,
              hi |-> IF s.pv > 0 THEN s.pv ELSE s.hi,
              words |-> s.words \o SegmentWords(s.hi, s.pv, x1 - s.iz, ip - x1 + 1)]

\* The walk, each step of which passes a pixel at least.
Segments(pix, start) ==
    FoldLeft(LAMBDA s, v : IF s.ip > Len(pix) THEN s ELSE Segment(pix, s), start, pix).words

\* The header's words; the length goes in the fourth and fifth, 15 bits each.
HeaderWords == <<0, 7, -100, 0, 0, 0, 0>>
LengthHalf == 2^15

PlioEncode(offset, values) ==
    LET pix == [i \in DOMAIN values |-> values[i] + offset]
    IN  With(HeaderWords \o
             Segments(pix, [ip |-> 1, pv |-> pix[1], nv |-> 0, x1 |-> 1, iz |-> 1,
                            hi |-> 1, words |-> <<>>]), LAMBDA words :
        IF values = <<>> THEN HeaderWords
        ELSE [words EXCEPT ![4] = Len(words) % LengthHalf, ![5] = Len(words) \div LengthHalf])

-----------------------------------------------------------------------------
(* Decoding. *)

PlioError(e) == [ok |-> FALSE, error |-> e, out |-> <<>>]

\* Pixels a..b of px set to v.
Fill(px, a, b, v) == [i \in DOMAIN px |-> IF i \in a..b THEN v ELSE px[i]]

\* One instruction at word ip on [px, op, x1, pv, skip, error]: px is written
\* only inside the tile, and x1 counts every pixel the list names.
Instruction(words, last, ip, s) ==
    LET opcode == words[ip] \div Field
        data == words[ip] % Field
        xe == Len(s.px)
        x2 == s.x1 + data - 1
        np == MinOf(x2, xe) - s.x1 + 1
        single(pv) ==
            [s EXCEPT !.pv = pv, !.x1 = @ + 1,
                      !.px = IF s.x1 <= xe THEN Fill(@, s.op, s.op, pv) ELSE @,
                      !.op = IF s.x1 <= xe THEN @ + 1 ELSE @]
    IN  CASE opcode \in {0, 4, 5} ->
               [s EXCEPT !.x1 = x2 + 1,
                         !.op = @ + MaxOf(np, 0),
                         !.px = IF np <= 0 THEN @
                                ELSE IF opcode = 4 THEN Fill(@, s.op, s.op + np - 1, s.pv)
                                ELSE IF opcode = 5 /\ x2 <= xe
                                THEN Fill(@, s.op + np - 1, s.op + np - 1, s.pv)
                                ELSE @]
          [] opcode = 1 ->
               IF ip >= last THEN [s EXCEPT !.error = "eof"]
               ELSE [s EXCEPT !.pv = words[ip + 1] * Field + data, !.skip = TRUE]
          [] opcode = 2 -> [s EXCEPT !.pv = @ + data]
          [] opcode = 3 -> [s EXCEPT !.pv = @ - data]
          [] opcode = 6 -> single(s.pv + data)
          [] opcode = 7 -> single(s.pv - data)
          [] OTHER -> [s EXCEPT !.error = "opcode"]

\* The instructions from word `first' on, until one fails or the tile is full.
Instructions(words, last, first, start) ==
    FoldLeft(LAMBDA s, ip :
                IF s.error # "none" \/ s.x1 > Len(s.px) THEN s
                ELSE IF s.skip THEN [s EXCEPT !.skip = FALSE]
                ELSE Instruction(words, last, ip, s),
             start, [k \in 1..last - first + 1 |-> first + k - 1])

\* decode_words: the header's two forms, the bounds, then the instructions.
DecodeWords(words, count) ==
    LET old == words[3] > 0
        last == IF old THEN words[3] ELSE words[5] * LengthHalf + words[4]
        first == IF old THEN 4 ELSE words[2] + 1
    IN  With(Instructions(words, last, first,
                [px |-> Zeros(count), op |-> 1, x1 |-> 1, pv |-> 1, skip |-> FALSE,
                 error |-> "none"]), LAMBDA s :
        IF count = 0 THEN [ok |-> TRUE, error |-> "none", out |-> <<>>]
        ELSE IF Len(words) < 3 \/ (words[3] <= 0 /\ Len(words) < 5) THEN PlioError("eof")
        ELSE IF ~old /\ \E k \in {2, 4, 5} : words[k] < 0 THEN PlioError("header")
        ELSE IF last > Len(words) THEN PlioError("eof")
        ELSE IF last = 0 \/ first > last + 1 THEN PlioError("bounds")
        ELSE IF s.error # "none" THEN PlioError(s.error)
        ELSE [ok |-> TRUE, error |-> "none", out |-> s.px])

PlioDecode(offset, words, count) ==
    With(DecodeWords(words, count), LAMBDA d :
        [d EXCEPT !.out = [i \in DOMAIN @ |-> @[i] - offset]])

=============================================================================
