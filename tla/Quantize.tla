------------------------------ MODULE Quantize ------------------------------
(***************************************************************************)
(* Float quantization (compression/quantize/mod.rs), its options           *)
(* (compression/quantization.rs) and its inverse (decode/float_quantization *)
(* .rs).  A float is an integer count of a unit, NotFinite is every NaN and *)
(* infinity, a step is a whole number of units and a random value r of the  *)
(* table is r / Grain, so that a step of Grain units makes every quotient   *)
(* exact.  IntMax is 2147483647 in the code, Len(Random) is 10000 and       *)
(* StartSpan is 500.                                                       *)
(***************************************************************************)
EXTENDS BitStream, FiniteSets

CONSTANTS IntMax, Grain, Random, StartSpan, NotFinite

ASSUME QuantizeAssumption ==
    /\ IntMax \in Nat /\ IntMax > 10
    /\ Grain \in Nat \ {0} /\ Grain % 2 = 0
    /\ Random \in Seq(1..Grain - 1)
    /\ StartSpan \in 1..Len(Random)
    /\ NotFinite \notin Int

NReserved == 10
NullValue == -IntMax
ZeroValue == -IntMax + 1

\* `as i32' saturates.
Sat32(v) == MaxOf(-IntMax - 1, MinOf(v, IntMax))

\* n / d rounded half away from zero, d > 0: nint.
Nint(n, d) ==
    Sat32(IF n >= 0 THEN (2 * n + d) \div (2 * d) ELSE -((2 * (-n) + d) \div (2 * d)))

\* n / d toward zero, as a cast to an integer truncates.
Trunc(n, d) == IF n >= 0 THEN n \div d ELSE -((-n) \div d)

-----------------------------------------------------------------------------
(* The dither sequence. *)

StartAt(seed) == (Random[seed + 1] * StartSpan) \div Grain

NewDither(irow) ==
    LET seed == (irow - 1) % Len(Random)
    IN  [seed |-> seed, next |-> StartAt(seed)]

\* The state after a value is drawn; at the table's end the next seed starts.
Draw(d) ==
    LET seed == (d.seed + 1) % Len(Random)
    IN  IF d.next + 1 < Len(Random) THEN [d EXCEPT !.next = @ + 1]
        ELSE [seed |-> seed, next |-> StartAt(seed)]

\* The first n values a tile's row draws.
Dithers(irow, n) ==
    FoldLeft(LAMBDA s, k : [d |-> Draw(s.d), out |-> Append(s.out, Random[s.d.next + 1])],
             [d |-> NewDither(irow), out |-> <<>>], [k \in 1..n |-> k]).out

-----------------------------------------------------------------------------
(* The noise estimate.  Twice a median is kept, so a midpoint is whole, and a *)
(* noise is in thousandths of half a unit.                                    *)

Sorted(v) == SortSeq(v, LAMBDA a, b : a < b)

LowerMedian(v) == Sorted(v)[(Len(v) - 1) \div 2 + 1]

TwiceMedian(v) ==
    With(Sorted(v), LAMBDA s :
    LET n == Len(v)
    IN  IF n = 0 THEN 0
        ELSE IF n % 2 = 1 THEN 2 * s[n \div 2 + 1]
        ELSE s[n \div 2] + s[n \div 2 + 1])

\* Differences::take: one difference a window of nine, a flat run skipped.
Differences(row) ==
    LET flat2(k) == row[k + 4] = row[k + 5] /\ row[k + 5] = row[k + 6]
        flat5(k) == flat2(k) /\ row[k + 2] = row[k + 3] /\ row[k + 3] = row[k + 4]
        windows == [k \in 1..MaxOf(0, Len(row) - 8) |-> k]
    IN  With(SelectSeq(windows, LAMBDA k : ~flat2(k)), LAMBDA second :
        With(SelectSeq(windows, LAMBDA k : ~flat5(k)), LAMBDA third :
        [second |-> [i \in DOMAIN second |-> AbsOf(row[second[i] + 4] - row[second[i] + 6])],
         third |-> [i \in DOMAIN third |->
                     LET k == third[i] IN AbsOf(2 * row[k + 4] - row[k + 2] - row[k + 6])],
         fifth |-> [i \in DOMAIN third |->
                     LET k == third[i]
                     IN AbsOf(6 * row[k + 4] - 4 * row[k + 2] - 4 * row[k + 6]
                              + row[k] + row[k + 8])]]))

Finite(values) == SelectSeq(values, LAMBDA v : v # NotFinite)

\* noise5: a row below nine samples joins the tile into one; none finite is None.
Noise5(values, width) ==
    LET w == MaxOf(width, 1)
        rows == Len(values) \div w
        nx == IF w < 9 THEN w * rows ELSE w
        ny == IF w < 9 THEN 1 ELSE rows
        finite == {v \in ToSet(SubSeq(values, 1, nx * ny)) : v # NotFinite}
    IN  With([y \in 1..ny |-> Differences(Finite(SubSeq(values, (y - 1) * nx + 1, y * nx)))], LAMBDA diffs :
    LET medians(of(_)) ==
            With(SelectSeq([y \in 1..ny |-> of(diffs[y])], LAMBDA d : d # <<>>), LAMBDA found :
                TwiceMedian([i \in DOMAIN found |-> LowerMedian(found[i])]))
    IN  IF finite = {} THEN [some |-> FALSE]
        ELSE [some |-> TRUE,
              min |-> CHOOSE v \in finite : \A u \in finite : v <= u,
              max |-> CHOOSE v \in finite : \A u \in finite : v >= u,
              noise2 |-> IF nx < 9 THEN 0 ELSE 1048 * medians(LAMBDA d : d.second),
              noise3 |-> IF nx < 9 THEN 0 ELSE 605 * medians(LAMBDA d : d.third),
              noise5 |-> IF nx < 9 THEN 0 ELSE 177 * medians(LAMBDA d : d.fifth)])

\* TileStatistics::noise: the least estimate that is not zero, noise3 the default.
NoiseOf(est) ==
    LET second == IF est.noise2 # 0 /\ est.noise2 < est.noise3 THEN est.noise2 ELSE est.noise3
    IN  IF est.noise5 # 0 /\ est.noise5 < second THEN est.noise5 ELSE second

\* integer_noise, in the same thousandths of a half.
IntegerNoise(values, width) ==
    With(Noise5(values, width), LAMBDA est :
        IF est.some THEN NoiseOf(est) ELSE 0)

-----------------------------------------------------------------------------
(* The quantizer. *)

DitherMethods == {"None", "Subtractive1", "Subtractive2"}

\* sample_seed, of the sum of the samples' bytes.
SampleSeed(byteSum) == (byteSum % Len(Random)) + 1

StepUnits(step, est) ==
    IF step.kind = "Absolute" THEN step.value ELSE NoiseOf(est) \div (2000 * step.value)

\* The zero point: above the reserved values when one is used, else a multiple of
\* the step, else the middle of the range.
ZeroPoint(est, delta, reserve) ==
    IF reserve THEN est.min - delta * (NullValue + NReserved)
    ELSE IF est.max - est.min < delta * (IntMax - NReserved)
    THEN Trunc(2 * est.min + delta, 2 * delta) * delta
    ELSE (est.min + est.max) \div 2

None == [some |-> FALSE]

\* q is [step, method, zdither0]; tile is [values, width, index].
Quantize(q, tile) ==
    LET values == tile.values
        n == Len(values)
    IN  With(Noise5(values, tile.width), LAMBDA est :
    LET delta == StepUnits(q.step, est)
        hasNull == \E k \in 1..n : values[k] = NotFinite
    IN  With(ZeroPoint(est, delta, hasNull \/ q.method = "Subtractive2"), LAMBDA zero :
        With(Dithers(tile.index + q.zdither0, n), LAMBDA dithers :
    LET quantized(k) ==
            IF q.method = "Subtractive2" /\ values[k] = 0 THEN ZeroValue
            ELSE IF q.method = "None" THEN Nint(values[k] - zero, delta)
            ELSE Nint(Grain * (values[k] - zero) + delta * dithers[k] - delta * (Grain \div 2),
                      Grain * delta)
    IN  IF n <= 1 THEN None
        ELSE IF ~est.some THEN None
        ELSE IF delta = 0 THEN None
        ELSE IF est.max - est.min > delta * (2 * IntMax - NReserved) THEN None
        ELSE [some |-> TRUE, scale |-> delta, zero |-> zero, hasNull |-> hasNull,
              ints |-> [k \in 1..n |->
                         IF values[k] = NotFinite THEN NullValue ELSE quantized(k)]])))

-----------------------------------------------------------------------------
(* Reading it back. *)

\* TileValue::new, or and at: a keyword fixes the value for every tile, a column
\* gives each tile's, a fallback stands in for both.  An option is a set of at
\* most one value.
TileValueAt(keyword, column, fallback, tile) ==
    IF keyword # {} THEN keyword
    ELSE IF column = {} THEN fallback
    ELSE {c[tile + 1] : c \in {c \in column : tile < Len(c)}}

OrElse(option, default) == IF option = {} THEN default ELSE CHOOSE v \in option : TRUE

\* FloatKeywords::read and quantization: what kind of float tiles the header means.
FloatQuantization(quantiz, zdither0, scaled, codecStoresFloats) ==
    IF quantiz \in {"Subtractive1", "Subtractive2"} /\ zdither0 \notin 1..Len(Random)
    THEN "Range"
    ELSE IF quantiz = "NONE" \/ ~scaled
    THEN IF codecStoresFloats THEN "Lossless" ELSE "LosslessFloatCodec"
    ELSE IF quantiz \in DitherMethods THEN "Quantized" ELSE "UnknownQuantization"

\* Mutant: the dither of the tile before.
DequantOfOther(method, zdither0, scale, zero, zblank, tile) ==
    [scale |-> OrElse(scale, 1), zero |-> OrElse(zero, 0), method |-> method,
     irow |-> tile + zdither0 - 1, zblank |-> zblank]

\* Quantized::dequant of a tile.
DequantOf(method, zdither0, scale, zero, zblank, tile) ==
    [scale |-> OrElse(scale, 1), zero |-> OrElse(zero, 0), method |-> method,
     irow |-> tile + zdither0, zblank |-> zblank]

\* Dequant::apply: the values of the integers, in Grain-ths of a unit.
Dequantized(d, ints) ==
    With(Dithers(d.irow, Len(ints)), LAMBDA dithers :
    LET value(k) ==
            IF d.method = "Subtractive2" /\ ints[k] = ZeroValue THEN 0
            ELSE IF d.method = "None" THEN Grain * (d.scale * ints[k] + d.zero)
            ELSE (Grain * ints[k] - dithers[k] + Grain \div 2) * d.scale + Grain * d.zero
    IN  [k \in DOMAIN ints |-> IF ints[k] \in d.zblank THEN NotFinite ELSE value(k)])

=============================================================================
