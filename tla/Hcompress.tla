----------------------------- MODULE Hcompress -----------------------------
(***************************************************************************)
(* The HCOMPRESS_1 tile codec: src/src/compression/hcompress/mod.rs.  The  *)
(* plane of a tile is a function on <<i, j>>, i < nx and j < ny (`ny' the  *)
(* faster axis).  Encoding: the H-transform, the digitizing by the scale,  *)
(* then each bit plane of each quadrant as a quadtree or, when that would  *)
(* be longer, as it is.  Decoding is the reverse, with smoothing between.  *)
(*                                                                         *)
(* Coefficients have CoeffBits bits (64 in the code), so that the overflow *)
(* refusals are met by small samples.                                      *)
(***************************************************************************)
EXTENDS BitStream, TLC

CONSTANT CoeffBits

ASSUME CoeffBitsAssumption == CoeffBits \in Nat \ {0, 1}

Coeffs == -(2^(CoeffBits - 1))..(2^(CoeffBits - 1) - 1)

Cells(nx, ny) == (0..nx - 1) \X (0..ny - 1)

\* Row-major order: the place of a cell, from one, and the cell of a place.
Place(ny, c) == ny * c[1] + c[2] + 1
CellAt(ny, k) == <<(k - 1) \div ny, (k - 1) % ny>>
RowMajor(f, nx, ny) == [k \in 1..nx * ny |-> f[CellAt(ny, k)]]

Log2Ceil(n) == CHOOSE k \in 0..n : 2^k >= n /\ \A m \in 0..n : 2^m >= n => k <= m

\* v with its bits below m = 2^k cleared, and the bit m of v.
Down(v, m) == (v \div m) * m
BitOf(v, m) == (v \div m) % 2

-----------------------------------------------------------------------------
(* The H-transform. *)

\* Even places first, then odd: the order `shuffle' gives a line of n, as the
\* place each new place is taken from; and the reverse.
ShuffledFrom(n, p) == IF p < CeilDiv(n, 2) THEN 2 * p ELSE 2 * (p - CeilDiv(n, 2)) + 1
UnshuffledFrom(n, p) == IF p % 2 = 0 THEN p \div 2 ELSE CeilDiv(n, 2) + p \div 2

\* Both axes of the top-left nxt x nyt corner rearranged, the rest kept.
Rearranged(a, nxt, nyt, from(_, _)) ==
    [c \in DOMAIN a |->
        IF c[1] < nxt /\ c[2] < nyt THEN a[<<from(nxt, c[1]), from(nyt, c[2])>>] ELSE a[c]]

Shuffled(a, nxt, nyt) == Rearranged(a, nxt, nyt, ShuffledFrom)
Unshuffled(a, nxt, nyt) == Rearranged(a, nxt, nyt, UnshuffledFrom)

\* A 2 x 2 block at <<i, j>> of the top corner; at an odd edge it has one
\* column or row fewer.  up and right say whether it has the second ones.
HasRow(i, nxt) == i + 1 < nxt
HasCol(j, nyt) == j + 1 < nyt

\* The block's sum and differences before rounding: `s' is the halving of
\* every level but the first, and a missing row or column counts double.
Sums(a, i, j, nxt, nyt, s) ==
    LET a00 == a[<<i, j>>]
        a01 == a[<<i, j + 1>>]
        a10 == a[<<i + 1, j>>]
        a11 == a[<<i + 1, j + 1>>]
    IN  IF HasRow(i, nxt) /\ HasCol(j, nyt)
        THEN [h0 |-> (a11 + a10 + a01 + a00) \div s, hx |-> (a11 + a10 - a01 - a00) \div s,
              hy |-> (a11 - a10 + a01 - a00) \div s, hc |-> (a11 - a10 - a01 + a00) \div s]
        ELSE IF HasRow(i, nxt)
        THEN [h0 |-> ((a10 + a00) * 2) \div s, hx |-> ((a10 - a00) * 2) \div s,
              hy |-> 0, hc |-> 0]
        ELSE IF HasCol(j, nyt)
        THEN [h0 |-> ((a01 + a00) * 2) \div s, hx |-> 0,
              hy |-> ((a01 - a00) * 2) \div s, hc |-> 0]
        ELSE [h0 |-> (a00 * 4) \div s, hx |-> 0, hy |-> 0, hc |-> 0]

\* What level k adds and masks by: hx and hy are rounded to a multiple of
\* 2^(k+1), h0 to one of 2^(k+2), and hc is kept.
\* Mutant: a negative difference is rounded as a positive one is.
Rounded1Up(v, k) == [raw |-> v, add |-> 2^k, unit |-> 2^(k + 1)]

Rounded1(v, k) == [raw |-> v, add |-> IF v >= 0 THEN 2^k ELSE 0, unit |-> 2^(k + 1)]
Rounded0(v, k) == [raw |-> v, add |-> IF v >= 0 THEN 2^(k + 1) ELSE 2^(k + 1) - 1,
              unit |-> 2^(k + 2)]
Kept(v) == [raw |-> v, add |-> 0, unit |-> 1]

\* The cell c of its block at level k.
Forward(a, c, nxt, nyt, k) ==
    With(Sums(a, Down(c[1], 2), Down(c[2], 2), nxt, nyt, IF k = 0 THEN 1 ELSE 2), LAMBDA h :
        CASE c[1] % 2 = 0 /\ c[2] % 2 = 0 -> Rounded0(h.h0, k)
          [] c[1] % 2 = 1 /\ c[2] % 2 = 0 -> Rounded1(h.hx, k)
          [] c[1] % 2 = 0 /\ c[2] % 2 = 1 -> Rounded1(h.hy, k)
          [] OTHER                        -> Kept(h.hc))

\* Level k on the top nxt x nyt corner; a value, or what rounding adds to it, that no
\* coefficient holds refuses the tile.
HtransLevel(s, k) ==
    With([c \in Cells(s.nxt, s.nyt) |-> Forward(s.a, c, s.nxt, s.nyt, k)], LAMBDA f :
    LET b == [c \in DOMAIN s.a |->
                 IF c \in DOMAIN f THEN Down(f[c].raw + f[c].add, f[c].unit) ELSE s.a[c]]
    IN  IF \E c \in DOMAIN f : {f[c].raw, f[c].raw + f[c].add} \ Coeffs # {}
        THEN [s EXCEPT !.ok = FALSE]
        ELSE [ok |-> TRUE, a |-> Shuffled(b, s.nxt, s.nyt),
              nxt |-> CeilDiv(s.nxt, 2), nyt |-> CeilDiv(s.nyt, 2)])

\* htrans: the levels, each on a corner half as wide and as high.
Htrans(plane, nx, ny, levels) ==
    With(FoldLeft(LAMBDA s, k : IF s.ok THEN HtransLevel(s, k - 1) ELSE s,
                  [ok |-> TRUE, a |-> plane, nxt |-> nx, nyt |-> ny],
                  [k \in 1..levels |-> k]), LAMBDA s :
        [ok |-> s.ok /\ levels <= CoeffBits - 2, a |-> s.a])

\* digitize: round to a multiple of the scale, away from zero, then divide.
Digitize(a, scale) ==
    LET d == (scale + 1) \div 2 - 1
    IN  IF scale <= 1 THEN a
        ELSE [c \in DOMAIN a |->
                IF a[c] > 0 THEN (a[c] + d) \div scale ELSE -((-a[c] + d) \div scale)]

-----------------------------------------------------------------------------
(* The quadtree of one bit plane. *)

\* Four bits of a 2 x 2 block as one cell, absent ones zero: bit(i, j) is 0 or
\* 1 inside nx x ny.
Nybbles(bit(_, _), nx, ny) ==
    LET at(i, j) == IF i < nx /\ j < ny THEN bit(i, j) ELSE 0
    IN  [c \in Cells(CeilDiv(nx, 2), CeilDiv(ny, 2)) |->
            8 * at(2 * c[1], 2 * c[2]) + 4 * at(2 * c[1], 2 * c[2] + 1)
            + 2 * at(2 * c[1] + 1, 2 * c[2]) + at(2 * c[1] + 1, 2 * c[2] + 1)]

\* qtree_onebit: bit plane `bit' of the nqx x nqy quadrant of a at q.
OneBit(a, q, bit) ==
    Nybbles(LAMBDA i, j : BitOf(a[<<q.x + i, q.y + j>>], 2^bit), q.nqx, q.nqy)

\* qtree_reduce: one level up, a bit where the cell below is not zero.
Reduce(cells, nx, ny) ==
    Nybbles(LAMBDA i, j : IF cells[<<i, j>>] # 0 THEN 1 ELSE 0, nx, ny)

\* CODE and NCODE: the fixed code of a cell.
Code == <<62, 0, 1, 8, 2, 9, 26, 27, 3, 28, 10, 29, 11, 30, 63, 12>>
NCode == <<6, 3, 3, 4, 3, 4, 5, 5, 3, 5, 4, 5, 4, 5, 6, 4>>
Huffman(v) == Bits(Code[v + 1], NCode[v + 1])

\* bufcopy over the levels: the codes of the cells that are not zero, bottom
\* level first, each level in row-major order.
LevelCodes(bottom, nx, ny, levels) ==
    LET codes(cells, m, n) == SelectSeq(RowMajor(cells, m, n), LAMBDA v : v # 0)
        up(s, k) ==
            LET m == CeilDiv(s.nx, 2)
                n == CeilDiv(s.ny, 2)
            IN  With(Reduce(s.cells, s.nx, s.ny), LAMBDA cells :
                    [cells |-> cells, nx |-> m, ny |-> n, codes |-> s.codes \o codes(cells, m, n)])
    IN  FoldLeft(up, [cells |-> bottom, nx |-> nx, ny |-> ny, codes |-> codes(bottom, nx, ny)],
                 Zeros(levels)).codes

\* One plane: the quadtree behind an 0xF, its codes last first, unless they
\* fill the buffer; then the plane's own cells behind a 0.
EncodePlane(a, q, bit) ==
    LET nx == CeilDiv(q.nqx, 2)
        ny == CeilDiv(q.nqy, 2)
    IN  With(OneBit(a, q, bit), LAMBDA cells :
    LET levels == MaxOf(Log2Ceil(MaxOf(q.nqx, q.nqy)), 1) - 1
    IN  With(LevelCodes(cells, nx, ny, levels), LAMBDA codes :
    LET size == FoldLeft(LAMBDA n, v : n + NCode[v + 1], 0, codes)
        bmax == CeilDiv(nx * ny, 2)
    IN  IF size \div Byte >= bmax
        THEN FlattenSeq(<<Bits(0, 4)>> \o [k \in 1..nx * ny |-> Bits(RowMajor(cells, nx, ny)[k], 4)])
        ELSE Bits(15, 4) \o (IF codes = <<>> THEN Huffman(0)
                             ELSE FlattenSeq([k \in 1..Len(codes) |->
                                                 Huffman(codes[Len(codes) + 1 - k])]))))

-----------------------------------------------------------------------------
(* The stream: the header's fields, then `bytes', the planes and the signs. *)

\* The four quadrants, and the plane count each uses; an empty one is left out.
Quadrants(nx, ny) ==
    LET nx2 == CeilDiv(nx, 2)
        ny2 == CeilDiv(ny, 2)
        all == << [x |-> 0, y |-> 0, nqx |-> nx2, nqy |-> ny2, group |-> 1],
                  [x |-> 0, y |-> ny2, nqx |-> nx2, nqy |-> ny \div 2, group |-> 2],
                  [x |-> nx2, y |-> 0, nqx |-> nx \div 2, nqy |-> ny2, group |-> 2],
                  [x |-> nx2, y |-> ny2, nqx |-> nx \div 2, nqy |-> ny \div 2, group |-> 3] >>
    IN  SelectSeq(all, LAMBDA q : q.nqx > 0 /\ q.nqy > 0)

BitLength(v) == CHOOSE k \in 0..CoeffBits : 2^k > v /\ (k = 0 \/ 2^(k - 1) <= v)

\* The planes each group needs: the bits of its largest magnitude.
PlaneCounts(a, nx, ny) ==
    LET group(c) == 1 + (IF c[2] >= CeilDiv(ny, 2) THEN 1 ELSE 0)
                      + (IF c[1] >= CeilDiv(nx, 2) THEN 1 ELSE 0)
    IN  [g \in 1..3 |->
            LET of == {a[c] : c \in {c \in DOMAIN a : group(c) = g}} \cup {0}
            IN  BitLength(CHOOSE m \in of : \A v \in of : v <= m)]

\* Planes from the top down of each quadrant, an end nybble, then padding.
PlaneBits(a, nx, ny, planes) ==
    FlattenSeq([k \in 1..Len(Quadrants(nx, ny)) |->
        With(Quadrants(nx, ny)[k], LAMBDA q :
            FlattenSeq([p \in 1..planes[q.group] |->
                EncodePlane(a, q, planes[q.group] - p)]))]) \o Bits(0, 4)

HEncodeStream(a, nx, ny, scale) ==
    LET rest == [a EXCEPT ![<<0, 0>>] = 0]
    IN  With(SelectSeq(RowMajor(rest, nx, ny), LAMBDA v : v # 0), LAMBDA signs :
    LET size == [c \in DOMAIN a |-> AbsOf(rest[c])]
    IN  With(PlaneCounts(size, nx, ny), LAMBDA planes :
        [magic |-> TRUE, nx |-> nx, ny |-> ny, scale |-> scale, sum |-> a[<<0, 0>>],
         planes |-> planes,
         bytes |-> Packed(PlaneBits(size, nx, ny, planes))
                   \o Packed([k \in DOMAIN signs |-> IF signs[k] < 0 THEN 1 ELSE 0])]))

HError(e) == [ok |-> FALSE, error |-> e]

\* Codec::encode of values, row-major.  A lossy scale keeps no nulls, and a
\* coefficient whose magnitude the field cannot hold refuses.
HcompressEncode(values, nx, ny, scale, blank) ==
    LET plane == [c \in Cells(nx, ny) |-> values[Place(ny, c)]]
    IN  With(Htrans(plane, nx, ny, Log2Ceil(MaxOf(nx, ny))), LAMBDA t :
    LET d == Digitize(t.a, scale)
    IN  IF scale > 1 /\ \E k \in DOMAIN values : values[k] \in blank THEN HError("nulls")
        ELSE IF ~t.ok \/ \E c \in DOMAIN d \ {<<0, 0>>} : -d[c] \notin Coeffs
        THEN HError("range")
        ELSE [ok |-> TRUE, stream |-> HEncodeStream(d, nx, ny, scale)])

-----------------------------------------------------------------------------
(* Reading the planes back.  A read carries [ok, error, r, v]: BitInput loads *)
(* one byte when it holds fewer bits than it wants, so a code is peeked six   *)
(* bits wide whatever its length.                                             *)

Failed(s, e) == [s EXCEPT !.ok = FALSE, !.error = e]

Loaded(bytes, s, want) ==
    IF ~s.ok \/ s.r.nbits >= want THEN s
    ELSE IF s.r.pos = Len(bytes) THEN Failed(s, "eof")
    ELSE [s EXCEPT !.r = [pos |-> @.pos + 1, nbits |-> @.nbits + Byte]]

\* input_nbits, and input_bit, which is one bit of it.
InputBits(bytes, s, n) ==
    LET t == Loaded(bytes, s, n)
    IN  IF ~t.ok THEN t
        ELSE [t EXCEPT !.v = Peek(bytes, t.r, n), !.r.nbits = @ - n]

\* HUFFMAN_DECODE: the one code that begins the six peeked bits.
InputHuffman(bytes, s) ==
    LET t == Loaded(bytes, s, 6)
    IN  With(Bits(Peek(bytes, t.r, 6), 6), LAMBDA peek :
        With(CHOOSE v \in 0..15 : SubSeq(peek, 1, NCode[v + 1]) = Huffman(v), LAMBDA v :
        IF ~t.ok THEN t ELSE [t EXCEPT !.v = v, !.r.nbits = @ - NCode[v + 1]]))

\* input_nnybble: pairs are read a byte at a time, after an untouched byte is
\* given back; an odd last nybble is read alone.  The cells are in s.v.
InputNNybble(bytes, s, n) ==
    LET back == IF s.r.nbits = Byte THEN [pos |-> s.r.pos - 1, nbits |-> 0] ELSE s.r
        pairs == n \div 2
        after == [s EXCEPT !.r = [back EXCEPT !.pos = @ + pairs]]
        at(k) == Byte * back.pos - back.nbits + 4 * (k - 1)
    IN  With([k \in 1..2 * pairs |->
                 Number([i \in 1..4 |-> BitAt(bytes, at(k) + i - 1)])], LAMBDA read :
        With(InputBits(bytes, after, 4), LAMBDA last :
        With(InputBits(bytes, s, 4), LAMBDA alone :
        IF n = 1 THEN (IF alone.ok THEN [alone EXCEPT !.v = <<@>>] ELSE alone)
        ELSE IF back.pos + pairs > Len(bytes) THEN Failed(s, "eof")
        ELSE IF 2 * pairs = n THEN [after EXCEPT !.v = read]
        ELSE IF last.ok THEN [last EXCEPT !.v = Append(read, @)] ELSE last)))

\* A top size one level wider, and what of the full size is left past c.
Grow(top, c) == IF top.left <= c THEN [n |-> 2 * top.n - 1, left |-> top.left]
                ELSE [n |-> 2 * top.n, left |-> top.left - c]

\* The bit of its parent a cell is: the parent's four in the order of Nybbles.
Child(parent, c) ==
    BitOf(parent[<<c[1] \div 2, c[2] \div 2>>], 2^(3 - 2 * (c[1] % 2) - (c[2] % 2)))

\* qtree_expand: each parent's bits, then a code for each that is set, last
\* cell first.
ExpandLevel(bytes, s, nx, ny) ==
    With([c \in Cells(nx, ny) |-> Child(s.cells, c)], LAMBDA flags :
        FoldLeft(LAMBDA t, k :
                     LET c == CellAt(ny, nx * ny + 1 - k)
                     IN  With(InputHuffman(bytes, t), LAMBDA u :
                         IF ~t.ok \/ flags[c] = 0 THEN t
                         ELSE IF ~u.ok THEN u ELSE [u EXCEPT !.cells[c] = u.v]),
                 [s EXCEPT !.cells = flags], [k \in 1..nx * ny |-> k]))

\* The levels from the top down, the sizes of each as of those above it.
ExpandLevels(bytes, top, x, y, c, levels) ==
    FoldLeft(LAMBDA s, k :
                LET half == c \div 2 ^ (k - 1)
                    gx == Grow(s.x, half)
                    gy == Grow(s.y, half)
                IN  IF ~s.read.ok THEN s
                    ELSE [read |-> ExpandLevel(bytes, s.read, gx.n, gy.n), x |-> gx, y |-> gy],
             [read |-> top, x |-> x, y |-> y], [k \in 1..levels |-> k]).read

\* One plane's cells, by its leading nybble.
DecodePlane(bytes, s, q) ==
    With(InputBits(bytes, s, 4), LAMBDA b :
    LET nx == CeilDiv(q.nqx, 2)
        ny == CeilDiv(q.nqy, 2)
        log2n == Log2Ceil(MaxOf(q.nqx, q.nqy))
    IN  With(InputNNybble(bytes, b, nx * ny), LAMBDA direct :
    With(InputHuffman(bytes, b), LAMBDA top :
        IF ~b.ok THEN b
        ELSE IF b.v = 0
        THEN IF ~direct.ok THEN direct
             ELSE [direct EXCEPT !.cells = [c \in Cells(nx, ny) |-> direct.v[Place(ny, c)]]]
        ELSE IF b.v # 15 THEN Failed(b, "format")
        ELSE IF ~top.ok THEN top
        ELSE ExpandLevels(bytes, [top EXCEPT !.cells = (<<0, 0>> :> top.v)],
                          [n |-> 1, left |-> q.nqx], [n |-> 1, left |-> q.nqy],
                          2^log2n \div 2, MaxOf(log2n, 1) - 1))))

\* qtree_decode: each plane of a quadrant joins the plane's bits.
DecodeQuadrant(bytes, s, q, planes) ==
    LET inside(c) == c[1] - q.x \in 0..q.nqx - 1 /\ c[2] - q.y \in 0..q.nqy - 1
    IN  FoldLeft(LAMBDA t, p :
            With(DecodePlane(bytes, t, q), LAMBDA u :
                IF ~t.ok \/ ~u.ok THEN Failed(u, u.error)
                ELSE [u EXCEPT !.a = [c \in DOMAIN u.a |->
                        IF inside(c)
                        THEN u.a[c] + 2^(planes - p) * Child(u.cells, <<c[1] - q.x, c[2] - q.y>>)
                        ELSE u.a[c]]]),
            s, [p \in 1..planes |-> p])

\* dodecode: the quadrants, the end nybble, then a sign for every value not 0,
\* from the next whole byte.
Dodecode(stream) ==
    LET nx == stream.nx
        ny == stream.ny
        start == [ok |-> TRUE, error |-> "none", r |-> [pos |-> 0, nbits |-> 0], v |-> 0,
                  cells |-> <<>>, a |-> [c \in Cells(nx, ny) |-> 0]]
    IN  With(FoldLeft(LAMBDA s, q : IF s.ok THEN DecodeQuadrant(stream.bytes, s, q,
                                                     stream.planes[q.group]) ELSE s,
                      start, Quadrants(nx, ny)), LAMBDA planes :
    With(IF planes.ok THEN InputBits(stream.bytes, planes, 4) ELSE planes, LAMBDA end :
        IF ~end.ok THEN end
        ELSE IF end.v # 0 THEN Failed(end, "end")
        ELSE FoldLeft(LAMBDA s, k :
                 LET c == CellAt(ny, k)
                 IN  With(InputBits(stream.bytes, s, 1), LAMBDA t :
                     IF ~s.ok \/ s.a[c] = 0 THEN s
                     ELSE IF ~t.ok THEN t
                     ELSE [t EXCEPT !.a[c] = IF t.v = 1 THEN -@ ELSE @]),
                 [end EXCEPT !.r.nbits = 0], [k \in 1..nx * ny |-> k])))

-----------------------------------------------------------------------------
(* The inverse transform.  A value the plane cannot hold is corrupt. *)

Clamp(v, lo, hi) == MaxOf(lo, MinOf(v, hi))

\* v / 2^k toward zero.
Toward0(v, m) == IF v >= 0 THEN v \div m ELSE -((-v) \div m)

\* hsmooth: what the neighbouring blocks imply for hx, hy and hc, each moved
\* by at most half the scale; blocks at the edge of the corner are kept.
Inner(p, top) == p >= 2 /\ p + 2 < top

SmoothDiff(hm, h0, hp, diff, smax) ==
    LET dmax == 4 * MaxOf(MinOf(hp - h0, h0 - hm), 0)
        dmin == 4 * MinOf(MaxOf(hp - h0, h0 - hm), 0)
    IN  IF dmin >= dmax THEN diff
        ELSE diff + Clamp(Toward0(Clamp(hp - hm, dmin, dmax) - 8 * diff, 8), -smax, smax)

SmoothCurve(a, i, j, smax) ==
    LET h0 == a[<<i, j>>]
        hmm == a[<<i - 2, j - 2>>]
        hpm == a[<<i + 2, j - 2>>]
        hmp == a[<<i - 2, j + 2>>]
        hpp == a[<<i + 2, j + 2>>]
        hx2 == 2 * a[<<i + 1, j>>]
        hy2 == 2 * a[<<i, j + 1>>]
        hc == a[<<i + 1, j + 1>>]
    IN  With(16 * MinOf(MinOf(MaxOf(hpp - h0, 0) - hx2 - hy2, MaxOf(h0 - hpm, 0) + hx2 - hy2),
                        MinOf(MaxOf(h0 - hmp, 0) - hx2 + hy2, MaxOf(hmm - h0, 0) + hx2 + hy2)), LAMBDA dmax :
        With(16 * MaxOf(MaxOf(MinOf(hpp - h0, 0) - hx2 - hy2, MinOf(h0 - hpm, 0) + hx2 - hy2),
                        MaxOf(MinOf(h0 - hmp, 0) - hx2 + hy2, MinOf(hmm - h0, 0) + hx2 + hy2)), LAMBDA dmin :
        IF dmin >= dmax THEN hc
        ELSE hc + Clamp(Toward0(Clamp(hpp + hmm - hmp - hpm, dmin, dmax) - 64 * hc, 64),
                        -smax, smax)))

Hsmooth(a, nxt, nyt, scale) ==
    LET smax == scale \div 2
    IN  With([c \in DOMAIN a |->
                IF c[1] % 2 = 1 /\ c[2] % 2 = 0 /\ Inner(c[1] - 1, nxt) /\ c[2] < nyt
                THEN SmoothDiff(a[<<c[1] - 3, c[2]>>], a[<<c[1] - 1, c[2]>>],
                                a[<<c[1] + 1, c[2]>>], a[c], smax)
                ELSE a[c]], LAMBDA x :
        With([c \in DOMAIN a |->
                IF c[1] % 2 = 0 /\ c[2] % 2 = 1 /\ c[1] < nxt /\ Inner(c[2] - 1, nyt)
                THEN SmoothDiff(x[<<c[1], c[2] - 3>>], x[<<c[1], c[2] - 1>>],
                                x[<<c[1], c[2] + 1>>], x[c], smax)
                ELSE x[c]], LAMBDA y :
        IF smax <= 0 THEN a
        ELSE [c \in DOMAIN a |->
                IF c[1] % 2 = 1 /\ c[2] % 2 = 1 /\ Inner(c[1] - 1, nxt) /\ Inner(c[2] - 1, nyt)
                THEN SmoothCurve(y, c[1] - 1, c[2] - 1, smax)
                ELSE y[c]]))

\* round_signed: what is added, which must fit a coefficient, then the mask.
Nudged(v, prnd, nrnd) == v + (IF v >= 0 THEN prnd ELSE nrnd)
RoundSigned(v, prnd, nrnd, unit) == Down(Nudged(v, prnd, nrnd), unit)

\* The cell c of its block at level k back to a sample: the bits that rounding
\* dropped from h0, hx and hy are those of hc, hx and hy.  `sums' are the values
\* the code checks on the way.
Backward(a, c, nxt, nyt, k) ==
    LET i == Down(c[1], 2)
        j == Down(c[2], 2)
        unit == 2^(k + 1)
        shift == IF k = 0 THEN 4 ELSE 2
        nudge0 == IF k = 0 THEN 0 ELSE 2^(k - 1) - 1
        h0 == a[<<i, j>>]
        v10 == a[<<i + 1, j>>]
        v01 == a[<<i, j + 1>>]
        v11 == a[<<i + 1, j + 1>>]
        diff(v) == RoundSigned(v, 2^k, 2^k - 1, unit)
        nudged(v) == Nudged(v, 2^k, 2^k - 1)
    IN  With(RoundSigned(v11, 2^k \div 2, nudge0, 2^k), LAMBDA hc :
        With(BitOf(hc, 2^k) * 2^k, LAMBDA low0 :
    LET toward(v) == IF v >= 0 THEN v - low0 ELSE v + low0
    IN  With(toward(diff(v10)), LAMBDA hx :
        With(toward(diff(v01)), LAMBDA hy :
        With(((BitOf(hc, unit) + BitOf(hx, unit) + BitOf(hy, unit)) % 2) * unit, LAMBDA low1 :
    LET full == IF h0 >= 0 THEN h0 + low0 - low1
                ELSE h0 + (IF low0 = 0 THEN low1 ELSE low0 - low1)
        edge(h) == IF h0 >= 0 THEN h0 - BitOf(h, unit) * unit ELSE h0 + BitOf(h, unit) * unit
        sx == IF c[1] % 2 = 1 THEN 1 ELSE -1
        sy == IF c[2] % 2 = 1 THEN 1 ELSE -1
        line(v, sign) == [v |-> (edge(diff(v)) + sign * diff(v)) \div shift,
                          sums |-> {nudged(v), edge(diff(v))}]
    IN  IF HasRow(i, nxt) /\ HasCol(j, nyt)
        THEN [v |-> (full + sx * hx + sy * hy + sx * sy * hc) \div shift,
              sums |-> {nudged(v10), nudged(v01), Nudged(v11, 2^k \div 2, nudge0), full}]
        ELSE IF HasRow(i, nxt) THEN line(v10, sx)
        ELSE IF HasCol(j, nyt) THEN line(v01, sy)
        ELSE [v |-> h0 \div shift, sums |-> {}])))))

\* Level k of the inverse on the corner above the one before; a value out of the
\* plane's range is corrupt.
HinvLevel(t, k, scale, smoothing) ==
    LET gx == Grow(t.x, 2^k)
        gy == Grow(t.y, 2^k)
        u == Unshuffled(t.a, gx.n, gy.n)
    IN  With(IF smoothing THEN Hsmooth(u, gx.n, gy.n, scale) ELSE u, LAMBDA s :
        With([c \in Cells(gx.n, gy.n) |-> Backward(s, c, gx.n, gy.n, k)], LAMBDA f :
    LET b == [c \in DOMAIN t.a |-> IF c \in DOMAIN f THEN f[c].v ELSE s[c]]
    IN  IF \/ \E c \in DOMAIN b : {s[c], b[c]} \ Coeffs # {}
           \/ \E c \in DOMAIN f : f[c].sums \ Coeffs # {}
        THEN [t EXCEPT !.ok = FALSE]
        ELSE [ok |-> TRUE, a |-> b, x |-> gx, y |-> gy]))

\* hinv: from the smallest corner up.
Hinv(first, nx, ny, levels, scale, smoothing) ==
    FoldLeft(LAMBDA t, k : IF t.ok THEN HinvLevel(t, levels - k, scale, smoothing) ELSE t,
             [ok |-> TRUE, a |-> first, x |-> [n |-> 1, left |-> nx], y |-> [n |-> 1, left |-> ny]],
             [k \in 1..levels |-> k])

\* hdecompress_into of a tile of nx x ny: the header is held to the tile's own
\* shape before anything is sized by it.
HcompressDecode(stream, nx, ny, smoothing) ==
    With(Dodecode(stream), LAMBDA d :
    LET coded == [d.a EXCEPT ![<<0, 0>>] = stream.sum]
        scaled == IF stream.scale <= 1 THEN coded
                  ELSE [c \in DOMAIN coded |-> coded[c] * stream.scale]
        log2n == Log2Ceil(MaxOf(nx, ny))
        first == [scaled EXCEPT ![<<0, 0>>] =
                    RoundSigned(@, 2^log2n, 2^log2n - 1, 2^(log2n + 1))]
    IN  With(Hinv(first, nx, ny, log2n, stream.scale, smoothing), LAMBDA t :
        IF ~stream.magic THEN HError("magic")
        ELSE IF stream.nx < 0 \/ stream.ny < 0 THEN HError("negative")
        ELSE IF nx * ny = 0 \/ <<stream.nx, stream.ny>> # <<nx, ny>> THEN HError("dimensions")
        ELSE IF \E g \in 1..3 : stream.planes[g] > CoeffBits - 1 THEN HError("planes")
        ELSE IF ~d.ok THEN HError(d.error)
        ELSE IF \E c \in DOMAIN scaled : scaled[c] \notin Coeffs THEN HError("overflow")
        ELSE IF MaxOf(nx, ny) <= 1 THEN [ok |-> TRUE, out |-> RowMajor(scaled, nx, ny)]
        ELSE IF ~t.ok \/ Nudged(scaled[<<0, 0>>], 2^log2n, 2^log2n - 1) \notin Coeffs
        THEN HError("overflow")
        ELSE [ok |-> TRUE, out |-> RowMajor(t.a, nx, ny)]))

=============================================================================
