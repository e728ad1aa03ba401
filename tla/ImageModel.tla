------------------------------ MODULE ImageModel ------------------------------
(***************************************************************************)
(* An image and its samples (image_model/ and hdu/image_geometry.rs).      *)
(*                                                                         *)
(* A view is [bitpix, values]; an image is [shape, view, scaling].  A      *)
(* scaling is [bscale, bzero, blank], blank a set of at most one value.  A *)
(* float sample, like a physical value, is a whole number of units or       *)
(* NotFinite; its bit pattern is the number's, and one number's is NaN's.   *)
(* An element whose physical values come from f64 keeps them whole.         *)
(***************************************************************************)
EXTENDS TileCodec, TileGeometry

\* The samples a physical read stages at a time (256 in the code).
CONSTANT Block

ASSUME BlockAssumption == Block \in Nat \ {0}

Bitpixes == {"U8", "I16", "I32", "I64", "F32", "F64"}

BitpixCode(bitpix) ==
    CASE bitpix = "U8" -> 8 [] bitpix = "I16" -> 16 [] bitpix = "I32" -> 32
      [] bitpix = "I64" -> 64 [] bitpix = "F32" -> -32 [] bitpix = "F64" -> -64

\* Bitpix::try_from: none is InvalidBitpix.
BitpixOf(code) == {b \in Bitpixes : BitpixCode(b) = code}

ElemSize(bitpix) == AbsOf(BitpixCode(bitpix)) \div 8

IsFloat(bitpix) == BitpixCode(bitpix) < 0

HoldsInteger(bitpix, v) == ~IsFloat(bitpix) /\ InWidth(v, ElemSize(bitpix))

\* shape_product: a shape of no axes has no samples.
ShapeProduct(shape) == IF shape = <<>> THEN 0 ELSE Product(shape)

-----------------------------------------------------------------------------
(* Views.  Data, View and DecodeBuffer are the same samples owned, borrowed   *)
(* and lent to a decode, one variant a bitpix.                                *)

View(bitpix, values) == [bitpix |-> bitpix, values |-> values]

Zeroed(bitpix, len) == View(bitpix, Zeros(len))

\* NaN's pattern: the largest, which no sample of a model has.
NanBytes(width) == [k \in 1..width |-> IF k = 1 THEN 127 ELSE 255]

SampleBytes(bitpix, v) ==
    IF v = NotFinite THEN NanBytes(ElemSize(bitpix)) ELSE BeBytes(v, ElemSize(bitpix))

\* View::encode_into and Raw::decode_be.
EncodeInto(view) ==
    FlattenSeq([k \in DOMAIN view.values |-> SampleBytes(view.bitpix, view.values[k])])

DecodeBe(bitpix, bytes) ==
    LET width == ElemSize(bitpix)
        at(k) == SubSeq(bytes, (k - 1) * width + 1, k * width)
    IN  [k \in 1..Len(bytes) \div width |->
            IF IsFloat(bitpix) /\ at(k) = NanBytes(width) THEN NotFinite ELSE FromBe(at(k))]

WordsFor(nbytes) == CeilDiv(nbytes, 8)

-----------------------------------------------------------------------------
(* Scaling. *)

Scaling(bscale, bzero, blank) == [bscale |-> bscale, bzero |-> bzero, blank |-> blank]

IdentityScaling == Scaling(1, 0, {})

IsIdentity(scaling) == scaling.bscale = 1 /\ scaling.bzero = 0

\* Scaling::validate: the keyword at fault.
ScalingDefect(scaling, bitpix) ==
    IF scaling.bscale = NotFinite THEN "BSCALE"
    ELSE IF scaling.bzero = NotFinite THEN "BZERO"
    ELSE IF \E b \in scaling.blank : ~HoldsInteger(bitpix, b) THEN "BLANK"
    ELSE "none"

\* add_to_header: the cards a scaling adds, each a set of at most one value.
ScalingCards(scaling) ==
    [bscale |-> IF IsIdentity(scaling) THEN {} ELSE {scaling.bscale},
     bzero |-> IF IsIdentity(scaling) THEN {} ELSE {scaling.bzero},
     blank |-> scaling.blank]

\* from_header: [error, scaling].
ScalingOf(cards, bitpix) ==
    LET scaling == Scaling(OrElse(cards.bscale, 1), OrElse(cards.bzero, 0),
                           IF IsFloat(bitpix) THEN {} ELSE cards.blank)
    IN  [error |-> ScalingDefect(scaling, bitpix), scaling |-> scaling]

\* Scaling::physical and extend_physical: a value in `unit'-ths of a unit.
Physical(scaling, bitpix, unit, v) ==
    IF v = NotFinite \/ (v \in scaling.blank /\ HoldsInteger(bitpix, v)) THEN NotFinite
    ELSE scaling.bscale * v + unit * scaling.bzero

PhysicalValues(view, scaling) ==
    [k \in DOMAIN view.values |-> Physical(scaling, view.bitpix, 1, view.values[k])]

\* extend_physical_be: the bytes in chunks of Block samples, each decoded into the
\* block and its part of the block converted.
ExtendPhysicalBe(bitpix, bytes, scaling) ==
    LET step == Block * ElemSize(bitpix)
        chunk(k) == SubSeq(bytes, (k - 1) * step + 1, MinOf(k * step, Len(bytes)))
    IN  FlattenSeq([k \in 1..CeilDiv(Len(bytes), step) |->
            PhysicalValues(View(bitpix, DecodeBe(bitpix, chunk(k))), scaling)])

\* extend_physical_be_cells: cells fill the block in turn, a cell split where the
\* block is full, and the part filled last is converted at the end.
ExtendPhysicalBeCells(bitpix, cells, scaling) ==
    LET size == ElemSize(bitpix)
        physical(block) == PhysicalValues(View(bitpix, block), scaling)
        take(s, v) ==
            IF Len(s.block) + 1 = Block
            THEN [block |-> <<>>, out |-> s.out \o physical(Append(s.block, v))]
            ELSE [s EXCEPT !.block = Append(@, v)]
        cell(s, bytes) == FoldLeft(take, s, DecodeBe(bitpix, bytes))
    IN  With(FoldLeft(cell, [block |-> <<>>, out |-> <<>>], cells), LAMBDA last :
        last.out \o physical(last.block))

-----------------------------------------------------------------------------
(* The unsigned convention: an offset of half the type's range. *)

\* v = 2^n.
IsPowerOfTwo(v, n) ==
    FoldLeft(LAMBDA h, k : IF h % 2 = 0 THEN h \div 2 ELSE 0, v, Zeros(n)) = 1

IsOffset(bitpix, bzero) ==
    IF IsFloat(bitpix) \/ bzero = NotFinite THEN FALSE
    ELSE IF bitpix = "U8" THEN bzero = -128
    ELSE IsPowerOfTwo(bzero, 8 * ElemSize(bitpix) - 1)

\* SampleType::from_scaling.
SampleType(bitpix, scaling) ==
    IF scaling.bscale = 1 /\ IsOffset(bitpix, scaling.bzero)
    THEN CASE bitpix = "U8" -> "I8" [] bitpix = "I16" -> "U16"
           [] bitpix = "I32" -> "U32" [] bitpix = "I64" -> "U64"
    ELSE bitpix

UnsignedTypes == {"I8", "U16", "U32", "U64"}

\* Scaling::unsigned_kind: a null has no unsigned value.
UnsignedKind(bitpix, scaling) ==
    IF scaling.blank # {} THEN {} ELSE {SampleType(bitpix, scaling)} \cap UnsignedTypes

\* flip_*: the stored sample with its sign bit flipped, as the unsigned type has it.
Flip(bitpix, v) ==
    LET half == 2^(8 * ElemSize(bitpix) - 1)
        flipped == ((v % (2 * half)) + half) % (2 * half)
    IN  IF bitpix = "U8" /\ flipped >= half THEN flipped - 2 * half ELSE flipped

\* store_*: the same bit flipped back, in the stored type.
Store(bitpix, v) ==
    LET half == 2^(8 * ElemSize(bitpix) - 1)
        flipped == ((v % (2 * half)) + half) % (2 * half)
    IN  IF bitpix # "U8" /\ flipped >= half THEN flipped - 2 * half ELSE flipped

\* unsigned_into: the buffer is replaced, and left alone when the image has no
\* unsigned type.
UnsignedInto(view, scaling, buffer) ==
    IF UnsignedKind(view.bitpix, scaling) = {} THEN [taken |-> FALSE, buffer |-> buffer]
    ELSE [taken |-> TRUE,
          buffer |-> [kind |-> SampleType(view.bitpix, scaling),
                      values |-> [k \in DOMAIN view.values |->
                                    Flip(view.bitpix, view.values[k])]]]

\* decode_be_cells_into of an unsigned column.
UnsignedCells(bitpix, cells) ==
    FlattenSeq([c \in DOMAIN cells |->
        [k \in DOMAIN DecodeBe(bitpix, cells[c]) |-> Flip(bitpix, DecodeBe(bitpix, cells[c])[k])]])

-----------------------------------------------------------------------------
(* An image. *)

ImageOf(shape, view, scaling) == [shape |-> shape, view |-> view, scaling |-> scaling]

\* Borrowed::new and Image::new.
ImageError(image) ==
    IF Len(image.view.values) # ShapeProduct(image.shape) THEN "SizeMismatch"
    ELSE ScalingDefect(image.scaling, image.view.bitpix)

\* Image::from_u16 and its kin.
OffsetImage(shape, bitpix, values) ==
    ImageOf(shape, View(bitpix, [k \in DOMAIN values |-> Store(bitpix, values[k])]),
            Scaling(1, IF bitpix = "U8" THEN -128 ELSE 2^(8 * ElemSize(bitpix) - 1), {}))

\* ImageGeometry::compressed and new of a container's header: an integer image
\* without a BLANK takes its ZBLANK for one.
CompressedGeometry(h) ==
    LET bitpix == BitpixOf(OrElse(h.zbitpix, 0))
        b == CHOOSE x \in bitpix : TRUE
    IN  With(ScalingOf(h, b), LAMBDA plain :
    LET scaling == [plain.scaling EXCEPT !.blank =
                        IF ~IsFloat(b) /\ @ = {} THEN h.zblank ELSE @]
    IN  With(IF plain.error # "none" THEN plain.error ELSE ScalingDefect(scaling, b), LAMBDA defect :
        IF h.zbitpix = {} THEN [error |-> "MissingZBITPIX"]
        ELSE IF bitpix = {} THEN [error |-> "InvalidBitpix"]
        ELSE IF h.dims = {} THEN [error |-> "MissingZNAXIS"]
        ELSE IF defect # "none" THEN [error |-> defect]
        ELSE [error |-> "none", shape |-> OrElse(h.dims, <<>>), bitpix |-> b,
              scaling |-> scaling]))

\* ImageGeometry::from_header of a plain image, its axes and groups read.
PlainGeometry(axes, bitpix, cards, pcount, gcount) ==
    With(ScalingOf(cards, bitpix), LAMBDA scaling :
        IF pcount # 0 \/ gcount # 1 THEN [error |-> "ImageHasGroups"]
        ELSE IF scaling.error # "none" THEN [error |-> scaling.error]
        ELSE [error |-> "none", shape |-> axes, bitpix |-> bitpix, scaling |-> scaling.scaling])

=============================================================================
