--------------------------- MODULE MCCodecWorker ---------------------------
(***************************************************************************)
(* CodecWorker on small tiles.  The samples of each codec are the edges of *)
(* its width and every tile of a few values; blocks of two samples stand   *)
(* for RICE_1's of 16 and 32, data fields of two bits for PLIO_1's twelve, *)
(* planes of 12 bits for HCOMPRESS_1's 64.                                 *)
(***************************************************************************)
EXTENDS CodecWorker

MCRandom == <<1, 3, 2, 1, 3, 2, 1>>

Line(codec, width, values) ==
    [codec |-> codec, tile |-> [shape |-> <<Len(values)>>, width |-> width, blank |-> {}],
     values |-> values]

Plane(ny, nx, values) ==
    [codec |-> HcompressCodec([kind |-> "Lossless", value |-> 0], FALSE, <<1, 2>>),
     tile |-> [shape |-> <<ny, nx>>, width |-> 2, blank |-> {}], values |-> values]

Upto(n, values) == UNION {[1..k -> values] : k \in 1..n}

\* A block of n samples whose last alone differs: the mean leaves nothing to split,
\* and the difference is a unary prefix of 2 * v zeros and the one that ends it.
LongPrefix(n, v) == [k \in 1..n |-> IF k = n THEN v ELSE 0]

\* Raw differences: a block whose noise leaves nothing to split.
Noisy == <<0, 255, 7, 130, 64, 200>>

MCSamples ==
    {Line(RiceCodec(2, 1), 1, v) : v \in Upto(4, {0, 1, 128, 255})}
    \cup {Line(RiceCodec(2, 2), 2, v) : v \in Upto(3, {-32768, -1, 0, 2, 32767})}
    \cup {Line(RiceCodec(16, 1), 1, v) : v \in {LongPrefix(16, n) : n \in 15..17} \cup {Noisy}}
    \cup {Line(RiceCodec(32, 2), 2, LongPrefix(32, 40))}
    \cup {Line(PlioCodec(0), 2, v) : v \in Upto(5, {0, 1, 5})}
    \cup {Line(PlioCodec(8), 2, v) : v \in Upto(3, {-8, -7, 0, 7})}
    \cup {Plane(2, 2, v) : v \in [1..4 -> {-100, 0, 7}]}
    \cup {Plane(3, 2, v) : v \in [1..6 -> {0, 5}]}
    \cup {Plane(5, 3, [k \in 1..15 |-> (k * k) % m]) : m \in {2, 7, 11}}

MCJobs ==
    {Line(RiceCodec(2, 1), 1, <<0, 255, 3>>), Line(RiceCodec(2, 2), 2, <<-32768, 5>>),
     Line(PlioCodec(0), 2, <<0, 0, 5, 5>>), Plane(2, 2, <<3, -4, 0, 9>>),
     Plane(3, 2, <<1, 2, 3, 4, 5, 60>>), Line(GzipPlain, 2, <<-1, 258, 0>>),
     Line(GzipShuffled, 2, <<-2, 300>>), Line(GzipShuffled, 4, <<-3, 70000, 1>>),
     Line(NoCompress, 2, <<-5, 6>>)}

\* The step leaves a range of IntMax values, just below and above every bound.
MCFloatJobs ==
    {[q |-> [step |-> [kind |-> "Absolute", value |-> 4], method |-> m, zdither0 |-> z],
      tile |-> [values |-> v, width |-> Len(v), index |-> i]] :
        m \in DitherMethods, z \in {1, 7}, i \in {0, 3},
        v \in UNION {[1..n -> {-7, 0, 1, NotFinite}] : n \in 2..3}
              \cup [1..2 -> {-7, 0, 11, 12, 13, 72, 73, 74, NotFinite}]}
    \cup {[q |-> [step |-> [kind |-> "Relative", value |-> s], method |-> m, zdither0 |-> 1],
           tile |-> [values |-> [k \in 1..12 |-> 16 * ((k * k) % 7)], width |-> w, index |-> 1]] :
            m \in DitherMethods, s \in {1, 4}, w \in {12, 3}}

=============================================================================
