----------------------------- MODULE MCTiledRead -----------------------------
(***************************************************************************)
(* TiledRead on the containers the writer of TileEncode makes of small     *)
(* images, on one another program might have written and on damaged ones.  *)
(* Two workers decode waves of at most two tiles.                          *)
(***************************************************************************)
EXTENDS TiledRead

MCRandom == <<1, 3, 2, 1, 3, 2, 1>>
MCPrefix == <<7>>

All == [kind |-> "All"]
Part(x0, x1, y0, y1) ==
    [kind |-> "Section", ranges |-> <<[lo |-> x0, hi |-> x1], [lo |-> y0, hi |-> y1]>>]

Config(compression, tiles, quantization) ==
    [compression |-> compression, tiles |-> tiles, quantization |-> quantization]
Kind(kind) == [kind |-> kind]
Lossless == [kind |-> "Lossless", value |-> 0]
Absolute(method) ==
    [step |-> [kind |-> "Absolute", value |-> 4], method |-> method, seed |-> "Fixed", fixed |-> 6]

\* What a view of an image gives: its samples, floats in Grain-ths.
TruthOf(view) ==
    IF ~IsFloat(view.bitpix) THEN view.values
    ELSE [k \in DOMAIN view.values |->
            IF view.values[k] = NotFinite THEN NotFinite ELSE Grain * view.values[k]]

\* An image to be written, and its unit.
Image(image, config, tolerance, regions, resident) ==
    [image |-> image, config |-> config, tolerance |-> tolerance, regions |-> regions,
     resident |-> resident]
Written(i) ==
    [container |-> CompressImage(i.image, i.config), values |-> TruthOf(i.image.view),
     tolerance |-> i.tolerance, regions |-> i.regions, resident |-> i.resident]

\* Ragged tiles in two bands; a null and a scaling.
Ragged ==
    Image(ImageOf(<<3, 3>>, View("I16", <<1, -2, 300, 4, 5, -6, 7, -99, 9>>), Scaling(2, 1, {-99})),
            Config(Kind("Rice"), <<2, 2>>, {}), 0,
            <<All, Part(0, 3, 0, 3), Part(1, 3, 1, 3), Part(2, 3, 0, 1), Part(0, 1, 1, 3),
              Part(1, 1, 0, 3)>>, FALSE)

\* One band of three tiles, so that the whole image is read in waves.
Line ==
    Image(ImageOf(<<5, 1>>, View("U8", <<1, 2, 3, 250, 5>>), Scaling(1, -128, {})),
            Config(Kind("Gzip2"), <<2, 1>>, {}), 0, <<All, Part(1, 4, 0, 1), Part(4, 5, 0, 1)>>, TRUE)

Smooth ==
    Image(ImageOf(<<8, 4>>, View("U8", [k \in 1..32 |-> (k * 7) % 256]), IdentityScaling),
            Config([kind |-> "Hcompress", scale |-> Lossless], <<4, 4>>, {}), 0,
            <<All, Part(3, 6, 1, 3)>>, FALSE)

\* Three quantized tiles: the last does not quantize and is gzip'd as it is.
Floats(method) ==
    Image(ImageOf(<<3, 3>>, View("F32", <<0, 9, NotFinite, 8, 0, 4, 0, 200, 1>>), Scaling(1, 2, {})),
            Config(Kind("Gzip1"), <<3, 1>>, {Absolute(method)}), 2 * Grain,
            <<All, Part(1, 3, 1, 3), Part(0, 2, 0, 2)>>, FALSE)

Stored ==
    Image(ImageOf(<<2, 2>>, View("F32", <<5, NotFinite, 0, -1>>), IdentityScaling),
            Config(Kind("Gzip1"), <<2, 1>>, {LosslessQuantization}), 0, <<All, Part(1, 2, 0, 2)>>, TRUE)

Mask == 
    Image(ImageOf(<<2, 2>>, View("I16", <<0, 3, 3, 0>>), IdentityScaling),
            Config(Kind("Plio"), <<2, 1>>, {}), 0, <<All, Part(0, 2, 1, 2)>>, FALSE)

\* Four tiles each stored its own way, with a null a tile and a mask.
Stream(at, len, stream) == [at |-> at, len |-> len, stream |-> stream]
At(count, offset) == [count |-> count, offset |-> offset]
Foreign ==
    With(RiceEncode([blocksize |-> 16, bits |-> 16], <<10, 11>>), LAMBDA rice :
    With(GzipEncode(I64ToBe(<<20, 21>>, 2), 1), LAMBDA gzip :
    With(PlioEncode(0, <<0, 1>>), LAMBDA plio :
    LET n == Len(rice)
        m == Len(gzip.data) + 18
        p == Len(plio)
        row(cd, gz, un, mask, null) ==
            [cd |-> cd, gz |-> gz, un |-> un, mask |-> mask, zblank |-> null]
        none == EmptyDescriptor
    IN  [container |->
            [error |-> "none",
             header |-> [zcmptype |-> {"RICE_1"}, zbitpix |-> {16}, dims |-> {<<4, 2>>},
                         ztile |-> <<{2}, {}>>, naxis2 |-> 4,
                         params |-> <<[name |-> "BLOCKSIZE", value |-> {16}],
                                      [name |-> "BYTEPIX", value |-> {2}]>>,
                         bscale |-> {}, bzero |-> {}, blank |-> {-1}, zblank |-> {},
                         zquantiz |-> {}, zdither0 |-> {}, zscale |-> {}, zzero |-> {},
                         zmaskcmp |-> {"PLIO_1"}],
             columns |-> [NoColumns EXCEPT !.cd = {"U8"}, !.gz = {"U8"}, !.un = {"I16"},
                                           !.mask = {"I16"}, !.zblank = {"I16"}],
             rows |-> <<row(At(n, 0), none, none, none, 11),
                        row(none, At(m, n), none, At(p, n + m), 99),
                        row(none, none, At(2, n + m + 2 * p), none, 30),
                        row(At(n, 0), At(m, n), none, none, 99)>>,
             heap |-> <<Stream(0, n, rice), Stream(n, m, gzip),
                        Stream(n + m, 2 * p, plio),
                        Stream(n + m + 2 * p, 4, I64ToBe(<<30, 31>>, 2))>>],
         values |-> <<10, -1, 20, -1, -1, 31, 10, 11>>, tolerance |-> 0,
         regions |-> <<All, Part(1, 4, 1, 2), Part(0, 3, 0, 2)>>, resident |-> FALSE])))

\* A tile's uncompressed cell that holds more samples than the tile.
LongCell ==
    [Foreign EXCEPT !.container.rows[3].un.count = 4,
                    !.container.heap[4].len = 8,
                    !.container.heap[4].stream = I64ToBe(<<30, 31, 32, 33>>, 2)]

\* Plain images: of three axes, of the unsigned convention, of bytes in memory, of
\* floats, with a BLANK, short of a byte and with groups.
Plain(image, regions, resident) ==
    [plain |-> [axes |-> image.shape, bitpix |-> image.view.bitpix, cards |-> ScalingCards(image.scaling),
                pcount |-> 0, gcount |-> 1, bytes |-> EncodeInto(image.view)],
     values |-> image.view.values, tolerance |-> 0, regions |-> regions, resident |-> resident]
Box(x0, x1, y0, y1, z0, z1) ==
    [kind |-> "Section", ranges |-> <<[lo |-> x0, hi |-> x1], [lo |-> y0, hi |-> y1], [lo |-> z0, hi |-> z1]>>]

Cube ==
    Plain(ImageOf(<<2, 3, 2>>, View("I16", [k \in 1..12 |-> 100 * k - 600]), Scaling(3, 1, {-100})),
          <<All, Box(0, 2, 1, 3, 0, 2), Box(1, 2, 1, 3, 1, 2), Box(0, 2, 0, 0, 0, 2)>>, FALSE)
OffsetWords == Plain(OffsetImage(<<3, 1>>, "I16", <<0, 65535, 40000>>), <<All, Part(1, 3, 0, 1)>>, TRUE)
OffsetBytes == Plain(OffsetImage(<<2, 2>>, "U8", <<-128, 127, 0, -1>>), <<All, Part(1, 2, 0, 2), Part(1, 3, 0, 1)>>, TRUE)
PlainFloats ==
    Plain(ImageOf(<<3>>, View("F32", <<5, NotFinite, -7>>), Scaling(1, 2, {})),
          <<All, [kind |-> "Section", ranges |-> <<[lo |-> 1, hi |-> 3]>>]>>, FALSE)
Short == [Cube EXCEPT !.plain.bytes = SubSeq(@, 1, 23)]
Groups == [Cube EXCEPT !.plain.pcount = 1]

\* The tile `t' of a unit replaced by one whose stream is cut short or whose
\* descriptor reaches past the heap.
CutTile(u, t) == [u EXCEPT !.container.heap[t].stream = SubSeq(@, 1, 1)]
PastTile(u, t) == [u EXCEPT !.container.rows[t].cd.count = 30]

Damaged(u) ==
    [CutTile(PastTile(u, 4), 2) EXCEPT !.regions = Append(@, Part(0, 4, 0, 1))]

MCUnits ==
    UNION {With(Written(i), LAMBDA u : IF i = Ragged THEN {u, Damaged(u)} ELSE {u}) :
           i \in {Ragged, Line, Smooth, Floats("Subtractive1"), Floats("Subtractive2"), Stored,
                  Mask}}
    \cup {Foreign, LongCell, Cube, OffsetWords, OffsetBytes, PlainFloats, Short, Groups}

=============================================================================
