------------------------------- MODULE BinTable -------------------------------
(***************************************************************************)
(* Reading a binary table (bintable/): its schema, views of its bytes, its  *)
(* columns, and the copy of selected rows and columns.                     *)
(*                                                                         *)
(* A schema is [rowCount, rowLen, heapOffset, heapEnd, columns]; a column   *)
(* of it [tform, name, scaling, tdim, offset, unread], `unread' the         *)
(* keywords that are there and cannot be read, whose error comes when they  *)
(* are asked for.  A view is [schema, bytes].  Rows and columns count from  *)
(* zero.                                                                    *)
(***************************************************************************)
EXTENDS TableBuild

Ok(value) == [error |-> "none", value |-> value]
Err(error) == [error |-> error]

\* `then' of the value of a result, its error passed on: the ? operator.
Then(result, then(_)) == IF result.error # "none" THEN Err(result.error) ELSE then(result.value)

\* The values of results, or the first error among them.
Collected(results) ==
    LET bad == {k \in DOMAIN results : results[k].error # "none"}
    IN  IF bad = {} THEN Ok([k \in DOMAIN results |-> results[k].value])
        ELSE Err(results[CHOOSE k \in bad : \A j \in bad : k <= j].error)

-----------------------------------------------------------------------------
(* The schema. *)

\* ColumnKeywords::read, or labels for a container, and TDIMn.
SchemaColumn(c, offset, container) ==
    LET badTdim == /\ c.tform.storage = "Fixed"
                   /\ \E d \in c.tdim : TdimError(d, c.tform.repeat) # "none"
    IN  [tform |-> c.tform, name |-> c.name, offset |-> offset,
         scaling |-> IF container THEN Scaling(1, 0, {})
                     ELSE Scaling(OrElse(c.tscale, 1), OrElse(c.tzero, 0), c.tnull),
         tdim |-> IF container THEN {} ELSE c.tdim,
         unread |-> IF container THEN c.unread \cap {"TTYPE"}
                    ELSE c.unread \cup (IF badTdim THEN {"TDIM"} ELSE {})]

\* What follows if the keywords asked for were read.
Asked(col, keywords, then) ==
    IF col.unread \cap keywords # {} THEN Err("InvalidColumnKeyword") ELSE then

ScalingKeywords == {"TSCAL", "TZERO", "TNULL"}

\* Schema::parse_columns; TableShape::read is its first check.
ParseColumns(h, container) ==
    LET widths == [i \in DOMAIN h.columns |-> ByteWidth(h.columns[i].tform)]
        offsets == [i \in DOMAIN widths |-> MinOf(HeapOffsets(widths)[i], UsizeMax)]
        computed == MinOf(HeapLen(widths), UsizeMax)
        main == h.rowCount * h.rowLen
        heap == OrElse(h.theap, main)
        end == main + h.pcount
    IN  IF h.bitpix # 8 \/ h.naxis # 2 \/ h.gcount # 1 THEN Err("Structure")
        ELSE IF Len(h.columns) > MaxFields THEN Err("Range")
        ELSE IF \E i \in DOMAIN h.columns : ~TformOk(h.columns[i].tform) THEN Err("InvalidTform")
        ELSE IF computed # h.rowLen THEN Err("RowWidthMismatch")
        ELSE IF Checked(main) = {} THEN Err("DataUnitOverflow")
        ELSE IF heap < main THEN Err("Structure")
        ELSE IF Checked(end) = {} THEN Err("DataUnitOverflow")
        ELSE IF heap > end THEN Err("Structure")
        ELSE Ok([rowCount |-> h.rowCount, rowLen |-> h.rowLen, heapOffset |-> heap,
                 heapEnd |-> end,
                 columns |-> [i \in DOMAIN h.columns |->
                                SchemaColumn(h.columns[i], offsets[i], container)]])

\* Schema::compacted: the heap follows the rows and ends the data.
Compacted(schema, rowCount, dataLen) ==
    [schema EXCEPT !.rowCount = rowCount, !.heapOffset = rowCount * schema.rowLen,
                   !.heapEnd = dataLen]

\* index_of: the first column of the name; one whose name is unread before it fails.
IndexOfColumn(columns, name) ==
    LET hits == {i \in DOMAIN columns :
                    "TTYPE" \in columns[i].unread \/ name \in columns[i].name}
        first == CHOOSE i \in hits : \A j \in hits : i <= j
    IN  IF hits = {} THEN Err("ColumnNotFound")
        ELSE Asked(columns[first], {"TTYPE"}, Ok(first - 1))

\* ColumnSelector::resolve: [index] or [name].
ResolveColumn(columns, selector) ==
    IF "name" \in DOMAIN selector THEN IndexOfColumn(columns, selector.name)
    ELSE IF selector.index >= Len(columns) THEN Err("IndexOutOfBounds")
    ELSE Ok(selector.index)

-----------------------------------------------------------------------------
(* Views. *)

\* TableView::new.
ViewOf(schema, bytes) ==
    IF Len(bytes) < schema.heapEnd THEN Err("UnexpectedEof") ELSE Ok([schema |-> schema, bytes |-> bytes])

\* TableView::compact.
CompactView(schema, rowCount, bytes) ==
    [schema |-> Compacted(schema, rowCount, Len(bytes)), bytes |-> bytes]

Bytes(bytes, lo, hi) == SubSeq(bytes, lo + 1, hi)

\* TableView::cell and cells.
CellOf(view, col, row) ==
    LET at == row * view.schema.rowLen + col.offset
    IN  Bytes(view.bytes, at, at + ByteWidth(col.tform))

CellsOf(view, col) == [r \in 1..view.schema.rowCount |-> CellOf(view, col, r - 1)]

\* pq_descriptor and PqDescriptor::decode.
CellDescriptor(bytes, col) ==
    With(DecodeDescriptor(bytes), LAMBDA decoded :
        IF col.tform.repeat = 0 THEN Ok(EmptyDescriptor)
        ELSE IF decoded.error # "none" THEN Err(decoded.error) ELSE Ok(decoded.d))

\* validate_vla_tdim.
VlaTdimOk(col, count) ==
    IF "TDIM" \in col.unread THEN "InvalidColumnKeyword"
    ELSE OrElse({VlaTdimError(d, count) : d \in col.tdim}, "none")

\* VlaColumn::cell: [count, bytes].
VlaCellOf(view, col, row) ==
    Then(CellDescriptor(CellOf(view, col, row), col), LAMBDA d :
        With(HeapRange(d, col.tform.element, view.schema.heapOffset, view.schema.heapEnd), LAMBDA ranges :
        LET at == CHOOSE r \in ranges : TRUE
        IN  IF VlaTdimOk(col, d.count) # "none" THEN Err(VlaTdimOk(col, d.count))
            ELSE IF ranges = {} THEN Err("DescriptorPastHeap")
            ELSE Ok([count |-> d.count, bytes |-> Bytes(view.bytes, at.lo, at.hi)])))

-----------------------------------------------------------------------------
(* Column values.  Column data is [kind, values]. *)

LogicalFromByte(b) == CASE b = 84 -> 1 [] b = 70 -> 0 [] OTHER -> Null

Pairs(values) == [k \in 1..Len(values) \div 2 |-> <<values[2 * k - 1], values[2 * k]>>]

\* decode_cells of one cell.
CellValues(kind, bytes, count) ==
    CASE kind = "Bit" -> SubSeq(FlattenSeq([k \in DOMAIN bytes |-> Bits(bytes[k], Byte)]), 1, count)
      [] kind = "Logical" -> [k \in DOMAIN bytes |-> LogicalFromByte(bytes[k])]
      [] kind \in {"U8", "Character"} -> bytes
      [] kind = "ComplexF32" -> Pairs(DecodeBe("F32", bytes))
      [] kind = "ComplexF64" -> Pairs(DecodeBe("F64", bytes))
      [] OTHER -> DecodeBe(kind, bytes)

ColumnData(kind, values) == [kind |-> kind, values |-> values]

IsFixed(col) == col.tform.storage = "Fixed"

\* raw_into: the buffer's contents are replaced, whatever kind they were.
RawInto(view, col) ==
    LET cells == CellsOf(view, col)
        kind == col.tform.element
    IN  IF ~IsFixed(col) THEN Err("ColumnKindMismatch")
        ELSE Ok(ColumnData(kind, FlattenSeq([r \in DOMAIN cells |->
                    CellValues(kind, cells[r], col.tform.repeat)])))

IsComplex(kind) == kind \in {"ComplexF32", "ComplexF64"}

\* decode_complex: the zero is added to the real part only.
ComplexValues(kind, bytes, scaling) ==
    With(CellValues(kind, bytes, 0), LAMBDA pairs :
        [k \in DOMAIN pairs |->
            <<scaling.bscale * pairs[k][1] + scaling.bzero, scaling.bscale * pairs[k][2]>>])

\* physical_into appends; unsigned_into, complex and bits.
PhysicalOf(view, col, out) ==
    IF ~IsFixed(col) \/ KindBitpix(col.tform.element) = {} THEN Err("ColumnKindMismatch")
    ELSE Asked(col, ScalingKeywords,
               Ok(out \o ExtendPhysicalBeCells(col.tform.element, CellsOf(view, col), col.scaling)))

UnsignedOf(view, col) ==
    LET kinds == UNION {UnsignedKind(b, col.scaling) : b \in KindBitpix(col.tform.element)}
    IN  IF ~IsFixed(col) THEN Err("ColumnKindMismatch")
        ELSE Asked(col, ScalingKeywords,
                   Ok({ColumnData(k, UnsignedCells(col.tform.element, CellsOf(view, col))) :
                        k \in kinds}))

ComplexOf(view, col) ==
    LET cells == CellsOf(view, col)
        kind == col.tform.element
    IN  IF ~IsFixed(col) \/ ~IsComplex(kind) THEN Err("ColumnKindMismatch")
        ELSE Asked(col, ScalingKeywords \ {"TNULL"},
                   Ok(FlattenSeq([r \in DOMAIN cells |->
                        ComplexValues(kind, cells[r], col.scaling)])))

-----------------------------------------------------------------------------
(* Arrays.  Ragged values are [values, ends]. *)

\* vla_column and VlaCells: the cells in order, the first bad one the error.
VlaCellsOf(view, col) ==
    IF IsFixed(col) THEN Err("ColumnKindMismatch")
    ELSE Collected([r \in 1..view.schema.rowCount |-> VlaCellOf(view, col, r - 1)])

EndsOf(cells) == [r \in DOMAIN cells |-> HeapLen([q \in 1..r |-> cells[q].count])]

Ragged(cells, values(_)) ==
    [values |-> FlattenSeq([r \in DOMAIN cells |-> values(cells[r])]), ends |-> EndsOf(cells)]

VlaInto(view, col) ==
    Then(VlaCellsOf(view, col), LAMBDA cells :
        Ok(Ragged(cells, LAMBDA c : CellValues(col.tform.element, c.bytes, c.count))))

VlaPhysical(view, col) ==
    LET kind == col.tform.element
    IN  IF IsFixed(col) \/ KindBitpix(kind) = {} THEN Err("ColumnKindMismatch")
        ELSE Asked(col, ScalingKeywords, Then(VlaCellsOf(view, col), LAMBDA cells :
                Ok([values |-> ExtendPhysicalBeCells(kind, [r \in DOMAIN cells |-> cells[r].bytes],
                                                     col.scaling),
                    ends |-> EndsOf(cells)])))

VlaUnsigned(view, col) ==
    LET kind == col.tform.element
        kinds == UNION {UnsignedKind(b, col.scaling) : b \in KindBitpix(kind)}
    IN  IF IsFixed(col) THEN Err("ColumnKindMismatch")
        ELSE Asked(col, ScalingKeywords, IF kinds = {} THEN Ok({})
             ELSE Then(VlaCellsOf(view, col), LAMBDA cells :
                Ok({[values |-> UnsignedCells(kind, [r \in DOMAIN cells |-> cells[r].bytes]),
                     ends |-> EndsOf(cells)]})))

VlaComplex(view, col) ==
    LET kind == col.tform.element
    IN  IF IsFixed(col) \/ ~IsComplex(kind) THEN Err("ColumnKindMismatch")
        ELSE Asked(col, ScalingKeywords \ {"TNULL"}, Then(VlaCellsOf(view, col), LAMBDA cells :
                Ok(Ragged(cells, LAMBDA c : ComplexValues(kind, c.bytes, col.scaling)))))

\* BitColumn::row of bits and vla_bits, which checks every row's span first.
BitRows(view, col) ==
    IF col.tform.element # "Bit" THEN Err("ColumnKindMismatch")
    ELSE IF IsFixed(col)
    THEN Ok([r \in 1..view.schema.rowCount |->
                CellValues("Bit", CellOf(view, col, r - 1), col.tform.repeat)])
    ELSE Then(VlaCellsOf(view, col), LAMBDA cells :
            Ok([r \in DOMAIN cells |-> CellValues("Bit", cells[r].bytes, cells[r].count)]))

=============================================================================
