------------------------------ MODULE TableSelect ------------------------------
(***************************************************************************)
(* Copying selected rows and columns of a binary table, and reading one    *)
(* cell (bintable/selection.rs).                                           *)
(*                                                                         *)
(* `src' is the unit's bytes, a read past which is UnexpectedEof.  Rows    *)
(* are a range [lo, hi]; a column mask is {} for every column or a set of  *)
(* one sequence of Booleans.  The copy of picked rows, which only tiled     *)
(* images make, is in TiledRead.                                           *)
(***************************************************************************)
EXTENDS BinTable

RowsLen(rows) == rows.hi - rows.lo

\* validate_row and validate_row_range.
RowError(row, rowCount) == IF row >= rowCount THEN "RowRangeOutOfBounds" ELSE "none"
RowRangeError(rows, rowCount) ==
    IF rows.lo > rows.hi \/ rows.hi > rowCount THEN "RowRangeOutOfBounds" ELSE "none"

\* row_range of bounds [kind, at], which saturate at usize::MAX.
RowRange(start, end, rowCount) ==
    LET after(at) == MinOf(at + 1, UsizeMax)
        rows == [lo |-> CASE start.kind = "Included" -> start.at
                          [] start.kind = "Excluded" -> after(start.at)
                          [] OTHER -> 0,
                 hi |-> CASE end.kind = "Included" -> after(end.at)
                          [] end.kind = "Excluded" -> end.at
                          [] OTHER -> rowCount]
    IN  IF RowRangeError(rows, rowCount) # "none" THEN Err("RowRangeOutOfBounds") ELSE Ok(rows)

Masked(mask, i) == \E m \in mask : ~m[i]

-----------------------------------------------------------------------------
(* Merged reads: [out, pending, error], pending a set of at most one range. *)

FetchAppend(src, out, range) ==
    IF range.hi > Len(src) THEN [out |-> out, pending |-> {}, error |-> "UnexpectedEof"]
    ELSE [out |-> out \o Bytes(src, range.lo, range.hi), pending |-> {}, error |-> "none"]

FlushReads(src, m) ==
    IF m.error # "none" \/ m.pending = {} THEN m
    ELSE FetchAppend(src, m.out, CHOOSE r \in m.pending : TRUE)

\* Merged::push: adjacent ranges become one read.
PushRead(src, m, range) ==
    LET joins == \E p \in m.pending : p.hi = range.lo
        flushed == FlushReads(src, m)
    IN  IF m.error # "none" \/ range.lo = range.hi THEN m
        ELSE IF joins THEN [m EXCEPT !.pending = {[p EXCEPT !.hi = range.hi] : p \in m.pending}]
        ELSE IF flushed.error # "none" THEN flushed
        ELSE [flushed EXCEPT !.pending = {range}]

\* Merged::next_offset: where the next range will lie in the output.
NextOffset(m) == Len(m.out) + OrElse({p.hi - p.lo : p \in m.pending}, 0)

-----------------------------------------------------------------------------
(* The copy. *)

\* VlaCellSpan::new of a descriptor's bytes.
CellSpan(schema, col, bytes) ==
    With(DecodeDescriptor(bytes), LAMBDA decoded :
        With(HeapRange(decoded.d, col.tform.element, schema.heapOffset, schema.heapEnd), LAMBDA ranges :
        IF decoded.error # "none" THEN Err(decoded.error)
        ELSE IF ranges = {} THEN Err("DescriptorPastHeap")
        ELSE Ok([count |-> decoded.d.count, range |-> CHOOSE r \in ranges : TRUE])))

\* The descriptors a copy follows: [row, col] in row order.
ArrayCells(schema, rowCount) ==
    LET arrays == SelectSeq([i \in DOMAIN schema.columns |-> i], LAMBDA i :
                    schema.columns[i].tform.storage # "Fixed" /\ schema.columns[i].tform.repeat # 0)
    IN  FlattenSeq([r \in 1..rowCount |->
            [k \in DOMAIN arrays |-> [row |-> r - 1, col |-> arrays[k]]]])

Slot(schema, cell) ==
    LET lo == cell.row * schema.rowLen + schema.columns[cell.col].offset
    IN  [lo |-> lo, hi |-> lo + ByteWidth(schema.columns[cell.col].tform)]

\* heap_len of the rows in `main': the bytes of the arrays selected.
SelectedHeapLen(schema, mask, main, rowCount) ==
    With(SelectSeq(ArrayCells(schema, rowCount), LAMBDA c : ~Masked(mask, c.col)), LAMBDA cells :
    LET span(c) == CellSpan(schema, schema.columns[c.col],
                            Bytes(main, Slot(schema, c).lo, Slot(schema, c).hi))
    IN  Then(Collected([k \in DOMAIN cells |-> span(cells[k])]), LAMBDA spans :
            LET len == HeapLen([k \in DOMAIN spans |-> spans[k].range.hi - spans[k].range.lo])
            IN  IF Checked(len) = {} THEN Err("DataUnitOverflow") ELSE Ok(len)))

\* The output with a descriptor written over its slot.
WriteSlot(out, slot, bytes) ==
    [k \in DOMAIN out |-> IF k > slot.lo /\ k <= slot.hi THEN bytes[k - slot.lo] ELSE out[k]]

\* One descriptor: an array not selected becomes empty, one selected is queued and
\* its descriptor names its place in the output.
CopyArray(src, schema, mask, mainLen, m, cell) ==
    LET col == schema.columns[cell.col]
        slot == Slot(schema, cell)
        width == col.tform.storage
    IN  With(CellSpan(schema, col, Bytes(m.out, slot.lo, slot.hi)), LAMBDA span :
    LET moved == [count |-> span.value.count, offset |-> NextOffset(m) - mainLen]
        queued == PushRead(src, m, span.value.range)
    IN  IF m.error # "none" THEN m
        ELSE IF Masked(mask, cell.col)
        THEN [m EXCEPT !.out = WriteSlot(@, slot, WriteDescriptor(EmptyDescriptor, width))]
        ELSE IF span.error # "none" THEN [m EXCEPT !.error = span.error]
        ELSE IF queued.error # "none" THEN queued
        ELSE IF DescriptorError(moved, width) # "none"
        THEN [queued EXCEPT !.error = "DescriptorOutOfRange"]
        ELSE [queued EXCEPT !.out = WriteSlot(@, slot, WriteDescriptor(moved, width))])

\* The rows, validated and read.
CopyRows(src, schema, rows) ==
    LET start == [out |-> <<>>, pending |-> {}, error |-> "none"]
        all == [lo |-> rows.lo * schema.rowLen, hi |-> rows.hi * schema.rowLen]
    IN  IF RowRangeError(rows, schema.rowCount) # "none"
        THEN [start EXCEPT !.error = RowRangeError(rows, schema.rowCount)]
        ELSE FlushReads(src, PushRead(src, start, all))

\* TableSelection::copy_into: [error] or the bytes of the selection.
CopyInto(src, schema, rows, mask) ==
    LET n == RowsLen(rows)
        mainLen == n * schema.rowLen
    IN  With(CopyRows(src, schema, rows), LAMBDA main :
        With(IF schema.rowLen = 0 THEN Ok(0) ELSE SelectedHeapLen(schema, mask, main.out, n), LAMBDA heap :
        With(FoldLeft(LAMBDA m, c : CopyArray(src, schema, mask, mainLen, m, c),
                      main, ArrayCells(schema, n)), LAMBDA copied :
    LET whole == FlushReads(src, copied)
    IN  IF Checked(mainLen) = {} THEN Err("DataUnitOverflow")
        ELSE IF main.error # "none" THEN Err(main.error)
        ELSE IF heap.error # "none" THEN Err(heap.error)
        ELSE IF whole.error # "none" THEN Err(whole.error)
        ELSE Ok(whole.out))))

-----------------------------------------------------------------------------
(* One cell, and the columns of a selection. *)

\* Fetch::bytes.
FetchBytes(src, lo, hi) == IF hi > Len(src) THEN Err("UnexpectedEof") ELSE Ok(Bytes(src, lo, hi))

\* decode_vla_cell.
DecodeVlaCell(col, bytes, count) ==
    IF VlaTdimOk(col, count) # "none" THEN Err(VlaTdimOk(col, count))
    ELSE Ok(ColumnData(col.tform.element, CellValues(col.tform.element, bytes, count)))

\* TableCell::read.
ReadCell(src, schema, row, index) ==
    LET col == schema.columns[index + 1]
        start == row * schema.rowLen + col.offset
        kind == col.tform.element
    IN  IF RowError(row, schema.rowCount) # "none" THEN Err(RowError(row, schema.rowCount))
        ELSE Then(FetchBytes(src, start, start + ByteWidth(col.tform)), LAMBDA cell :
                IF IsFixed(col) THEN Ok(ColumnData(kind, CellValues(kind, cell, col.tform.repeat)))
                ELSE IF col.tform.repeat = 0 THEN DecodeVlaCell(col, <<>>, 0)
                ELSE Then(CellSpan(schema, col, cell), LAMBDA span :
                        Then(FetchBytes(src, span.range.lo, span.range.hi), LAMBDA bytes :
                            DecodeVlaCell(col, bytes, span.count))))

\* SelectedColumn::new and refill: a buffer of the other shape is replaced, so what
\* a column held before does not matter.
SelectColumn(view, index) ==
    LET col == view.schema.columns[index + 1]
    IN  IF IsFixed(col) THEN RawInto(view, col) ELSE VlaInto(view, col)

\* Selection::refill: the columns in the order asked for, until one fails.
RefillColumns(view, indices) ==
    Collected([k \in DOMAIN indices |-> SelectColumn(view, indices[k])])

=============================================================================
