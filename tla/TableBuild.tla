------------------------------ MODULE TableBuild ------------------------------
(***************************************************************************)
(* Building and writing a binary table (fits_writer/builder.rs): columns   *)
(* are accepted one at a time, laid out, and encoded in chunks.            *)
(*                                                                         *)
(* A column to write is [name, kind, storage, repeat, values, ends,        *)
(* scaling, tnull, tdim]: the element kind, "Fixed" or the width "P" or    *)
(* "Q" of its descriptors, the elements a fixed row, all rows' values one  *)
(* after another, the end of each row's array (ragged.rs), and what may be *)
(* absent as a set of at most one value.  A builder is [rows, columns],    *)
(* rows such a set.  A logical value is 1, 0 or Null, a complex one a pair. *)
(***************************************************************************)
EXTENDS TileEncode

\* The undefined logical value.
Null == -1

\* TFIELDS at most (999), and the bytes the writer gathers before it writes.
CONSTANTS MaxFields, ChunkBytes

ASSUME TableBuildAssumption == MaxFields \in Nat /\ ChunkBytes \in Nat \ {0}

IsArrays(col) == col.storage # "Fixed"

-----------------------------------------------------------------------------
(* Ragged arrays. *)

\* Ragged::range, half-open; rows count from zero.
RaggedRange(ends, row) == [lo |-> IF row = 0 THEN 0 ELSE ends[row], hi |-> ends[row + 1]]

\* Ragged::new: the ends run forward to the end of the values.
RaggedOk(values, ends) ==
    /\ \A i \in DOMAIN ends : (IF i = 1 THEN 0 ELSE ends[i - 1]) <= ends[i]
    /\ (IF ends = <<>> THEN 0 ELSE ends[Len(ends)]) = Len(values)

-----------------------------------------------------------------------------
(* Cells as bytes. *)

LogicalByte(v) == CASE v = 1 -> 84 [] v = 0 -> 70 [] v = Null -> 0

ElementBytes(kind, v) ==
    CASE kind = "Logical" -> <<LogicalByte(v)>>
      [] kind \in {"U8", "Character"} -> <<v>>
      [] kind = "ComplexF32" -> SampleBytes("F32", v[1]) \o SampleBytes("F32", v[2])
      [] kind = "ComplexF64" -> SampleBytes("F64", v[1]) \o SampleBytes("F64", v[2])
      [] OTHER -> SampleBytes(kind, v)

\* The bytes of one cell: its bits packed from the top of the first byte.
CellBytes(kind, values) ==
    IF kind = "Bit" THEN Packed(values)
    ELSE FlattenSeq([k \in DOMAIN values |-> ElementBytes(kind, values[k])])

\* append_cells of the values of a half-open range, `repeat' of them a cell.
AppendCells(col, lo, hi, repeat) ==
    IF repeat = 0 THEN <<>>
    ELSE FlattenSeq([c \in 1..(hi - lo) \div repeat |->
            CellBytes(col.kind, SubSeq(col.values, lo + (c - 1) * repeat + 1, lo + c * repeat))])

\* append_array.
ArrayBytes(col, row) ==
    LET at == RaggedRange(col.ends, row)
    IN  AppendCells(col, at.lo, at.hi, at.hi - at.lo)

ArrayCount(col, row) == RaggedRange(col.ends, row).hi - RaggedRange(col.ends, row).lo

\* WriteColumn::array_len's bytes.
ArrayLen(col, row) == OrElse(PayloadLen(col.kind, ArrayCount(col, row)), 0)

-----------------------------------------------------------------------------
(* WriteColumn and Builder. *)

WriteColumn(name, kind, storage, repeat, values, ends) ==
    [name |-> name, kind |-> kind, storage |-> storage, repeat |-> repeat, values |-> values,
     ends |-> ends, scaling |-> {}, tnull |-> {}, tdim |-> {}]

\* characters: each field padded with spaces to the width, a wider one refused.
Characters(name, fields, width) ==
    IF \E f \in DOMAIN fields : Len(fields[f]) > width
    THEN [error |-> "CharacterFieldTooWide"]
    ELSE [error |-> "none",
          column |-> WriteColumn(name, "Character", "Fixed", width,
                        FlattenSeq([f \in DOMAIN fields |->
                            fields[f] \o [k \in 1..width - Len(fields[f]) |-> 32]]), <<>>)]

\* bits: each row exactly the width.
BitField(name, rows, width) ==
    IF \E r \in DOMAIN rows : Len(rows[r]) # width
    THEN [error |-> "BitFieldLengthMismatch"]
    ELSE [error |-> "none",
          column |-> WriteColumn(name, "Bit", "Fixed", width, FlattenSeq(rows), <<>>)]

\* A column of arrays, which are a Ragged.
RaggedColumn(name, kind, storage, values, ends) ==
    IF ~RaggedOk(values, ends) THEN [error |-> "panic"]
    ELSE [error |-> "none", column |-> WriteColumn(name, kind, storage, 1, values, ends)]

\* inferred_rows: the rows a column's values imply, none for a column without any.
InferredRows(col) ==
    IF IsArrays(col) THEN [error |-> "none", rows |-> {Len(col.ends)}]
    ELSE IF col.repeat = 0 /\ col.values = <<>> THEN [error |-> "none", rows |-> {}]
    ELSE IF col.repeat = 0 \/ Len(col.values) % col.repeat # 0 THEN [error |-> "PartialTableRow"]
    ELSE [error |-> "none", rows |-> {Len(col.values) \div col.repeat}]

NewBuilder == [rows |-> {}, columns |-> <<>>]
BuilderOfRows(n) == [rows |-> {n}, columns |-> <<>>]

\* accept_row_count: the first column to imply a count fixes it.
AcceptRowCount(rows, inferred) ==
    IF rows # {} /\ inferred # {} /\ rows # inferred THEN [error |-> "TableRowCountMismatch"]
    ELSE IF rows = {} /\ inferred = {} THEN [error |-> "TableRowCountUndetermined"]
    ELSE [error |-> "none", rows |-> IF rows = {} THEN inferred ELSE rows]

\* Builder::push: a refused column leaves the builder alone.
Push(builder, col) ==
    LET inferred == InferredRows(col)
        accepted == AcceptRowCount(builder.rows, inferred.rows)
    IN  IF inferred.error # "none" THEN [error |-> inferred.error, builder |-> builder]
        ELSE IF accepted.error # "none" THEN [error |-> accepted.error, builder |-> builder]
        ELSE [error |-> "none",
              builder |-> [rows |-> accepted.rows, columns |-> Append(builder.columns, col)]]

RowCount(builder) == OrElse(builder.rows, 0)

-----------------------------------------------------------------------------
(* The layout. *)

\* CharacterField::members: the text up to the first NUL.
Members(bytes) ==
    LET nuls == {k \in DOMAIN bytes : bytes[k] = 0}
    IN  IF nuls = {} THEN bytes
        ELSE SubSeq(bytes, 1, (CHOOSE k \in nuls : \A j \in nuls : k <= j) - 1)

ValidCharacter(bytes) == \A k \in DOMAIN Members(bytes) : Members(bytes)[k] \in 32..126

\* ColumnScaling::validate and validate_binary_metadata.
MetadataError(col) ==
    LET numeric == col.kind \notin {"Character", "Logical", "Bit"}
    IN  IF \E s \in col.scaling : ~numeric THEN "Structure"
        ELSE IF \E s \in col.scaling : s.bscale = NotFinite \/ s.bzero = NotFinite
        THEN "Range"
        ELSE IF \E null \in col.tnull : \A b \in KindBitpix(col.kind) : ~HoldsInteger(b, null)
        THEN "Range" ELSE "none"

\* The cells of a column as ranges of its values.
CellRanges(col, rowCount) ==
    [r \in 1..rowCount |->
        IF IsArrays(col) THEN RaggedRange(col.ends, r - 1)
        ELSE [lo |-> (r - 1) * col.repeat, hi |-> r * col.repeat]]

\* validate_column.
ColumnError(col, rowCount) ==
    LET ranges == CellRanges(col, rowCount)
        text(r) == SubSeq(col.values, ranges[r].lo + 1, ranges[r].hi)
        vlaTdim(r) == OrElse({VlaTdimError(d, ranges[r].hi - ranges[r].lo) : d \in col.tdim}, "none")
        bad(r) == IF col.kind = "Character" /\ ~ValidCharacter(text(r)) THEN "InvalidAscii"
                  ELSE IF IsArrays(col) THEN vlaTdim(r) ELSE "none"
    IN  With({r \in DOMAIN ranges : bad(r) # "none"}, LAMBDA rows :
        IF MetadataError(col) # "none" THEN MetadataError(col)
        ELSE IF rows # {} THEN bad(CHOOSE r \in rows : \A q \in rows : r <= q)
        ELSE IF ~IsArrays(col) /\ \E d \in col.tdim : TdimError(d, col.repeat) # "none"
        THEN OrElse({TdimError(d, col.repeat) : d \in col.tdim}, "none")
        ELSE IF ~IsArrays(col) /\ PayloadLen(col.kind, col.repeat) = {} THEN "DataUnitOverflow"
        ELSE "none")

RowWidth(col) ==
    IF IsArrays(col) THEN DescriptorBytes(col.storage) ELSE OrElse(PayloadLen(col.kind, col.repeat), 0)

ColumnTform(col) ==
    IF IsArrays(col) THEN Tform(1, col.kind, col.storage) ELSE Tform(col.repeat, col.kind, "Fixed")

\* heap_arrays: the arrays row by row, as [col, row].
HeapArrays(builder) ==
    LET columns == builder.columns
        inRow(r) == SelectSeq([i \in DOMAIN columns |-> [col |-> i, row |-> r - 1]],
                              LAMBDA a : IsArrays(columns[a.col]))
    IN  FlattenSeq([r \in 1..RowCount(builder) |-> inRow(r)])

\* The bytes of each array, and where each begins on the heap.
HeapLens(builder) ==
    [k \in DOMAIN HeapArrays(builder) |->
        ArrayLen(builder.columns[HeapArrays(builder)[k].col], HeapArrays(builder)[k].row)]

\* next_vla_heap_len, array by array: the first that fails.
HeapError(builder) ==
    With(HeapArrays(builder), LAMBDA arrays :
        With(HeapLens(builder), LAMBDA lens :
    LET offsets == HeapOffsets(lens)
        col(k) == builder.columns[arrays[k].col]
        descriptor(k) == [count |-> ArrayCount(col(k), arrays[k].row), offset |-> offsets[k]]
        error(k) == IF DescriptorError(descriptor(k), col(k).storage) # "none"
                    THEN "DescriptorOutOfRange"
                    ELSE IF Checked(offsets[k] + lens[k]) = {} THEN "DataUnitOverflow" ELSE "none"
        bad == {k \in DOMAIN arrays : error(k) # "none"}
    IN  IF bad = {} THEN "none" ELSE error(CHOOSE k \in bad : \A j \in bad : k <= j)))

\* Builder::layout; a number past an i64, QMax, has no card.
Layout(builder) ==
    LET columns == builder.columns
        n == RowCount(builder)
        widths == [i \in DOMAIN columns |-> RowWidth(columns[i])]
    IN  With({i \in DOMAIN columns : ColumnError(columns[i], n) # "none"}, LAMBDA bad :
    LET first == CHOOSE i \in bad : \A j \in bad : i <= j
    IN  IF Len(columns) > MaxFields THEN [error |-> "Range"]
        ELSE IF bad # {} THEN [error |-> ColumnError(columns[first], n)]
        ELSE IF Checked(HeapLen(widths)) = {} \/ MaxOf(n, HeapLen(widths)) > QMax
        THEN [error |-> "DataUnitOverflow"]
        ELSE IF HeapError(builder) # "none" THEN [error |-> HeapError(builder)]
        ELSE IF HeapLen(HeapLens(builder)) > QMax THEN [error |-> "DataUnitOverflow"]
        ELSE [error |-> "none", rowCount |-> n, rowLen |-> HeapLen(widths),
              heapLen |-> HeapLen(HeapLens(builder)), widths |-> widths,
              offsets |-> HeapOffsets(widths)])

\* Builder::header: what the schema is read from.
TableHeader(builder, layout) ==
    [bitpix |-> 8, naxis |-> 2, rowLen |-> layout.rowLen, rowCount |-> layout.rowCount,
     pcount |-> layout.heapLen, gcount |-> 1, theap |-> {},
     columns |-> [i \in DOMAIN builder.columns |->
        LET col == builder.columns[i]
        IN  [tform |-> ColumnTform(col), name |-> {col.name},
             tscale |-> {s.bscale : s \in col.scaling}, tzero |-> {s.bzero : s \in col.scaling},
             tnull |-> col.tnull, tdim |-> col.tdim, unread |-> {}]]]

-----------------------------------------------------------------------------
(* Encoding. *)

\* The heap's place of each array: HeapOffsets of the arrays before it.
ArrayOffset(builder, i, row) ==
    With(HeapArrays(builder), LAMBDA arrays :
    LET k == CHOOSE k \in DOMAIN arrays : arrays[k] = [col |-> i, row |-> row]
    IN  HeapOffsets(HeapLens(builder))[k])

\* One cell of the main table: the values' bytes, or the array's descriptor.
MainCell(builder, i, row) ==
    LET col == builder.columns[i]
    IN  IF IsArrays(col)
        THEN WriteDescriptor([count |-> ArrayCount(col, row),
                              offset |-> ArrayOffset(builder, i, row)], col.storage)
        ELSE AppendCells(col, row * col.repeat, (row + 1) * col.repeat, col.repeat)

MainRow(builder, row) ==
    FlattenSeq([i \in DOMAIN builder.columns |-> MainCell(builder, i, row)])

\* encode_chunks: the rows in bands of whole rows, then the arrays, gathered until
\* they reach the chunk's size.
EncodeChunks(builder, layout, chunkBytes) ==
    LET band == MaxOf(chunkBytes \div MaxOf(layout.rowLen, 1), 1)
        n == layout.rowCount
    IN  With([b \in 1..CeilDiv(n, band) |->
                FlattenSeq([r \in 1..MinOf(band, n - (b - 1) * band) |->
                    MainRow(builder, (b - 1) * band + r - 1)])], LAMBDA bands :
        With(HeapArrays(builder), LAMBDA arrays :
    LET gather(s, a) ==
            With(s.chunk \o ArrayBytes(builder.columns[a.col], a.row), LAMBDA chunk :
                IF Len(chunk) >= chunkBytes
                THEN [chunk |-> <<>>, out |-> Append(s.out, chunk)]
                ELSE [s EXCEPT !.chunk = chunk])
    IN  With(FoldLeft(gather, [chunk |-> <<>>, out |-> <<>>], arrays), LAMBDA heap :
        bands \o heap.out \o (IF heap.chunk = <<>> THEN <<>> ELSE <<heap.chunk>>))))

=============================================================================
