-------------------------------- MODULE TableIO --------------------------------
(***************************************************************************)
(* Tables from builder to reader: HDUs are built column by column and       *)
(* written, plain ones in chunks that a Running sum follows, then a reader  *)
(* opens the file and reads rows, columns, cells, ASCII columns and -TAB    *)
(* coordinates in any order.  Reads of compressed tables share the rows of  *)
(* the last decode (reader/data_source.rs).                                 *)
(***************************************************************************)
EXTENDS TiledTable, AsciiTable, Tabular, Checksum

\* What is written and read: sequences of HDUs to write, what may happen to the
\* file before it is read, the row ranges, column selections and cells read, and
\* the image headers whose coordinates are read.  Probes are the coordinates whose
\* transform is checked, BlockBytes is the block size.
CONSTANTS Files, Damages, RowRanges, Selections, CellsRead, WcsHeaders, Probes, BlockBytes

ASSUME TableIOAssumption == BlockBytes \in Nat \ {0} /\ BlockBytes % WordBytes = 0

VARIABLES
    todo,       \* the HDUs still to write, the first one's columns still to push
    builder,    \* of the first one
    pieces,     \* what encode_chunks has still to give, {} when nothing is written
    unit,       \* the bytes it has given
    sum,        \* of them
    file,       \* the HDUs written, each with its builder
    phase,      \* "write" or "read"
    cache,      \* DataSource::decoded, a set of at most one [hdu, tiles, mask, rows]
    last        \* the last operation and its result

vars == <<todo, builder, pieces, unit, sum, file, phase, cache, last>>

Zero(n) == [k \in 1..n |-> 0]

-----------------------------------------------------------------------------
(* Writing. *)

BuilderFor(hdus) ==
    IF hdus = <<>> \/ Head(hdus).rows = {} THEN NewBuilder
    ELSE BuilderOfRows(OrElse(Head(hdus).rows, 0))

Nothing == [op |-> "none"]

Init ==
    /\ todo \in Files
    /\ builder = BuilderFor(todo)
    /\ pieces = {} /\ unit = <<>> /\ sum = NewRunning
    /\ file = <<>> /\ phase = "write" /\ cache = {} /\ last = Nothing

Writing == phase = "write" /\ todo # <<>> /\ pieces = {}

\* Builder::push and AsciiBuilder::push of the next column, which may be refused.
PushColumn ==
    /\ Writing /\ Head(todo).columns # <<>>
    /\ LET column == Head(Head(todo).columns)
           pushed == IF Head(todo).store = "ascii" THEN AsciiPush(builder, column)
                     ELSE Push(builder, column)
       IN  /\ builder' = pushed.builder
           /\ last' = [op |-> "push", result |-> pushed.error]
    /\ todo' = [todo EXCEPT ![1].columns = Tail(@)]
    /\ UNCHANGED <<pieces, unit, sum, file, phase, cache>>

Ready(store) == Writing /\ Head(todo).columns = <<>> /\ Head(todo).store = store

\* The HDU written, and the builder of the next one.
Written(contents) ==
    /\ file' = Append(file, [store |-> Head(todo).store, name |-> Head(todo).name,
                             version |-> Head(todo).version, built |-> builder,
                             damaged |-> FALSE, contents |-> contents])
    /\ todo' = Tail(todo)
    /\ builder' = BuilderFor(Tail(todo))

\* An HDU whose table is refused is not written.
RefuseTable(error) ==
    /\ last' = [op |-> "write", result |-> error]
    /\ todo' = Tail(todo)
    /\ builder' = BuilderFor(Tail(todo))
    /\ UNCHANGED <<pieces, unit, sum, file, phase, cache>>

\* write_table: the layout, then sum_body over the chunks.
StartTable ==
    /\ Ready("plain")
    /\ \E layout \in {Layout(builder)} :
        \/ layout.error # "none" /\ RefuseTable(layout.error)
        \/ /\ layout.error = "none"
           /\ pieces' = {EncodeChunks(builder, layout, ChunkBytes)}
           /\ sum' = NewRunning /\ unit' = <<>>
           /\ last' = [op |-> "write", result |-> "none"]
           /\ UNCHANGED <<todo, builder, file, phase, cache>>

\* One chunk of it.
SumChunk ==
    /\ \E rest \in pieces :
        /\ rest # <<>>
        /\ unit' = unit \o Head(rest)
        /\ sum' = RunningUpdate(sum, Head(rest))
        /\ pieces' = {Tail(rest)}
    /\ UNCHANGED <<todo, builder, file, phase, cache, last>>

\* finish_hdu: the fill is part of the sum, DATASUM and CHECKSUM are made of it.
FinishTable ==
    /\ pieces = {<<>>}
    /\ LET fill == Zero((BlockBytes - (Len(unit) % BlockBytes)) % BlockBytes)
           whole == RunningUpdate(sum, fill)
       IN  Written([header |-> TableHeader(builder, Layout(builder)), bytes |-> unit,
                    fill |-> fill, datasum |-> whole.sum, checksum |-> EncodeSum(whole.sum)])
    /\ pieces' = {} /\ unit' = <<>> /\ sum' = NewRunning
    /\ UNCHANGED <<phase, cache, last>>

\* write_compressed_table.
WriteTiled ==
    /\ Ready("tiled")
    /\ \E c \in {CompressTable(builder, Head(todo).config)} :
        \/ c.error # "none" /\ RefuseTable(c.error)
        \/ /\ c.error = "none"
           /\ Written(c.value)
           /\ last' = [op |-> "write", result |-> "none"]
           /\ UNCHANGED <<pieces, unit, sum, phase, cache>>

\* write_ascii_table.
WriteAscii ==
    /\ Ready("ascii")
    /\ \E c \in {EncodeAscii(builder)} :
        \/ c.error # "none" /\ RefuseTable(c.error)
        \/ /\ c.error = "none"
           /\ Written(c.value)
           /\ last' = [op |-> "write", result |-> "none"]
           /\ UNCHANGED <<pieces, unit, sum, phase, cache>>

-----------------------------------------------------------------------------
(* What may happen to the file: its end is lost, an array's descriptor is a    *)
(* foreign one, a compressed stream is damaged.                                *)

Damaged(contents, d) ==
    CASE d.kind = "cut" -> [contents EXCEPT !.bytes = SubSeq(@, 1, Len(@) - d.by)]
      [] d.kind = "descriptor" -> [contents EXCEPT !.bytes = WriteSlot(@, d.slot, d.bytes)]
      [] d.kind = "stream" -> [contents EXCEPT !.heap = RemoveAt(@, d.which)]

Damage ==
    /\ phase = "write" /\ todo = <<>>
    /\ \A h \in DOMAIN file : ~file[h].damaged
    /\ \E h \in DOMAIN file, d \in Damages :
        /\ file[h].store = d.store /\ file[h].name = d.name
        /\ file' = [file EXCEPT ![h].damaged = TRUE, ![h].contents = Damaged(@, d)]
    /\ UNCHANGED <<todo, builder, pieces, unit, sum, phase, cache, last>>

-----------------------------------------------------------------------------
(* Opening: the schemas are parsed once an HDU (hdu/mod.rs). *)

ParsedTable(hdu) ==
    CASE hdu.store = "plain" -> ParseColumns(hdu.contents.header, FALSE)
      [] hdu.store = "tiled" -> TiledTableOf(hdu.contents.header)
      [] hdu.store = "ascii" -> ParseAscii(hdu.contents.header)

Open ==
    /\ phase = "write" /\ todo = <<>>
    /\ phase' = "read"
    /\ file' = [h \in DOMAIN file |-> [store |-> file[h].store, name |-> file[h].name,
                    version |-> file[h].version, built |-> file[h].built,
                    damaged |-> file[h].damaged, contents |-> file[h].contents,
                    parsed |-> ParsedTable(file[h])]]
    /\ last' = Nothing
    /\ UNCHANGED <<todo, builder, pieces, unit, sum, cache>>

Tiled(h) == file[h].store = "tiled"

\* Hdu::table_schema.
SchemaOf(h) == IF Tiled(h) THEN Then(file[h].parsed, LAMBDA t : Ok(t.schema)) ELSE file[h].parsed

-----------------------------------------------------------------------------
(* Reading.  A read gives [result, cache]. *)

Uncached(result) == [result |-> result, cache |-> cache]

\* Mutant: the rows of other columns are taken for these.
HitAnyColumns(held, h, tiles, mask) ==
    \E c \in held : c.hdu = h /\ c.tiles = tiles

\* The last decode read the same tiles and columns of the same table.
Hit(held, h, tiles, mask) ==
    \E c \in held : c.hdu = h /\ c.tiles = tiles /\ c.mask = mask

\* DataSource::decoded: what is held is given up before a new decode, which may fail.
Decoded(h, held, rows, mask) ==
    LET tiled == file[h].parsed.value
        tiles == TilesOf(tiled, rows)
    IN  IF Hit(held, h, tiles, mask)
        THEN [result |-> Ok((CHOOSE c \in held : TRUE).rows), cache |-> held]
        ELSE With(DecodeTable(file[h].contents, tiled, rows, mask), LAMBDA d :
                [result |-> d,
                 cache |-> IF d.error # "none" THEN {}
                           ELSE {[hdu |-> h, tiles |-> tiles, mask |-> mask, rows |-> d.value]}])

\* select_rows: the bytes of the rows; the rows decoded begin at their first row.
RowsSelected(h, held, rows, mask) ==
    IF ~Tiled(h)
    THEN [result |-> CopyInto(file[h].contents.bytes, file[h].parsed.value, rows, mask), cache |-> held]
    ELSE IF RowRangeError(rows, file[h].parsed.value.schema.rowCount) # "none"
    THEN [result |-> Err("RowRangeOutOfBounds"), cache |-> held]
    ELSE With(Decoded(h, held, rows, mask), LAMBDA d :
             [cache |-> d.cache,
              result |-> Then(d.result, LAMBDA v :
                IF v.firstRow > rows.lo \/ v.firstRow > rows.hi THEN Err("panic")
                ELSE CopyInto(v.data, v.schema,
                              [lo |-> rows.lo - v.firstRow, hi |-> rows.hi - v.firstRow], mask))])

\* The results of a table's column readers by what they are asked for.
ReadColumnAs(view, index, how) ==
    LET col == view.schema.columns[index + 1]
    IN  CASE how = "raw" -> SelectColumn(view, index)
          [] how = "physical" -> IF IsFixed(col) THEN PhysicalOf(view, col, <<>>)
                                 ELSE VlaPhysical(view, col)
          [] how = "unsigned" -> IF IsFixed(col) THEN UnsignedOf(view, col) ELSE VlaUnsigned(view, col)
          [] how = "complex" -> IF IsFixed(col) THEN ComplexOf(view, col) ELSE VlaComplex(view, col)
          [] how = "bits" -> BitRows(view, col)

\* read_table: the whole table, decoded without the cache.
WholeTable(h, schema) ==
    IF ~Tiled(h) THEN ViewOf(schema, file[h].contents.bytes)
    ELSE Then(DecodeTable(file[h].contents, file[h].parsed.value,
                          [lo |-> 0, hi |-> schema.rowCount], {}),
              LAMBDA d : ViewOf(d.schema, d.data))

\* One of its columns.
ReadTableOf(h, index, how) ==
    Then(SchemaOf(h), LAMBDA schema :
        Then(WholeTable(h, schema), LAMBDA v :
            IF index >= Len(schema.columns) THEN Err("IndexOutOfBounds")
            ELSE ReadColumnAs(v, index, how)))

MaskOf(schema, indices) ==
    {[i \in DOMAIN schema.columns |-> \E k \in DOMAIN indices : indices[k] = i - 1]}

\* The rows selected of a schema's table, as a table of their own whose columns are
\* read.
ColumnsSelected(h, schema, rows, mask, indices) ==
    With(RowsSelected(h, cache, rows, mask), LAMBDA selected :
        [cache |-> selected.cache,
         result |-> Then(selected.result, LAMBDA bytes :
            RefillColumns(CompactView(schema, RowsLen(rows), bytes), indices))])

\* read_table_rows, and all columns of the table it gives.
ReadRowsOf(h, bounds) ==
    LET schema == SchemaOf(h)
        rows == Then(schema, LAMBDA s : RowRange(bounds.start, bounds.end, s.rowCount))
    IN  IF rows.error # "none" THEN Uncached(Err(rows.error))
        ELSE ColumnsSelected(h, schema.value, rows.value, {},
                             [k \in DOMAIN schema.value.columns |-> k - 1])

\* read_table_columns_into.
ReadColumnsOf(h, bounds, selectors) ==
    LET schema == SchemaOf(h)
        rows == Then(schema, LAMBDA s : RowRange(bounds.start, bounds.end, s.rowCount))
        indices == Then(rows, LAMBDA r : Collected([k \in DOMAIN selectors |->
                        ResolveColumn(schema.value.columns, selectors[k])]))
    IN  IF indices.error # "none" THEN Uncached(Err(indices.error))
        ELSE ColumnsSelected(h, schema.value, rows.value,
                             MaskOf(schema.value, indices.value), indices.value)

\* read_table_cell.
ReadCellOf(h, row, selector) ==
    LET schema == SchemaOf(h)
        index == Then(schema, LAMBDA s : ResolveColumn(s.columns, selector))
        rows == [lo |-> row, hi |-> MinOf(row + 1, UsizeMax)]
    IN  IF index.error # "none" THEN Uncached(Err(index.error))
        ELSE IF ~Tiled(h)
        THEN Uncached(ReadCell(file[h].contents.bytes, schema.value, row, index.value))
        ELSE IF RowRangeError(rows, schema.value.rowCount) # "none"
        THEN Uncached(Err("RowRangeOutOfBounds"))
        ELSE With(Decoded(h, cache, rows, MaskOf(schema.value, <<index.value>>)), LAMBDA d :
                [cache |-> d.cache,
                 result |-> Then(d.result, LAMBDA v :
                    ReadCell(v.data, v.schema, row - v.firstRow, index.value))])

\* HduSelector::Extension.
ExtensionOf(reference) ==
    {h \in DOMAIN file : /\ file[h].name = reference.extension
                         /\ file[h].version = reference.version
                         /\ reference.level = 1}

\* The transforms of some descriptors of one table, after those of others.
TransformsOf(s, ds) ==
    LET hs == ExtensionOf(ds[1].reference)
        h == CHOOSE x \in hs : \A y \in hs : x <= y
        names == UNION {ReferencedColumns(ds[k]) : k \in DOMAIN ds}
        indices == Then(SchemaOf(h), LAMBDA schema :
            Collected([k \in 1..Cardinality(names) |->
                IndexOfColumn(schema.columns, SetToSeq(names)[k])]))
        schema == SchemaOf(h).value
        rows == [lo |-> 0, hi |-> MinOf(schema.rowCount, 1)]
        transform(d, bytes) == Then(TabularArrays(d, CompactView(schema, rows.hi, bytes)),
                                    LAMBDA a : TransformOf(d, a))
    IN  IF s.result.error # "none" THEN s
        ELSE IF hs = {} THEN [s EXCEPT !.result = Err("HduNotFound")]
        ELSE IF file[h].store = "ascii" THEN [s EXCEPT !.result = Err("HduKindMismatch")]
        ELSE IF indices.error # "none" THEN [s EXCEPT !.result = Err(indices.error)]
        ELSE With(RowsSelected(h, s.cache, rows, MaskOf(schema, indices.value)), LAMBDA read :
                [cache |-> read.cache,
                 result |-> Then(read.result, LAMBDA bytes :
                    Then(Collected([k \in DOMAIN ds |-> transform(ds[k], bytes)]),
                         LAMBDA ts : Ok(s.result.value \o ts)))])

TableOf(r) == [extension |-> r.extension, version |-> r.version, level |-> r.level]

\* Descriptors by the table they name, the tables in the order they are first named.
ByTable(ds) ==
    LET firsts == SelectSeq([k \in DOMAIN ds |-> k], LAMBDA k :
                    \A j \in 1..k - 1 : TableOf(ds[j].reference) # TableOf(ds[k].reference))
    IN  [n \in DOMAIN firsts |-> SelectSeq(ds, LAMBDA d :
            TableOf(d.reference) = TableOf(ds[firsts[n]].reference))]

\* read_wcs, the descriptors of one table after those of another.
ReadWcsOf(axes) ==
    With(Descriptors(axes), LAMBDA ds :
        IF ds.error # "none" THEN Uncached(Err(ds.error))
        ELSE FoldLeft(TransformsOf, Uncached(Ok(<<>>)), ByTable(ds.value)))

\* read_ascii_table, and its columns.
ReadAsciiOf(h) ==
    Then(file[h].parsed, LAMBDA schema :
        Then(AsciiOf(schema, file[h].contents), LAMBDA table :
            Ok([i \in DOMAIN schema.columns |->
                    [raw |-> AsciiRaw(table, i - 1), physical |-> AsciiPhysical(table, i - 1, <<>>)]])))

-----------------------------------------------------------------------------

Reading == phase = "read" /\ last = Nothing /\ UNCHANGED <<todo, builder, pieces, unit, sum, file, phase>>

\* The caller is done with what a read gave it.
Take ==
    /\ phase = "read" /\ last # Nothing
    /\ last' = Nothing
    /\ UNCHANGED <<todo, builder, pieces, unit, sum, file, phase, cache>>

IsTable(h) == file[h].store # "ascii"

Answer(op, h, args, r) ==
    /\ cache' = r.cache
    /\ last' = [op |-> op, hdu |-> h, args |-> args, result |-> r.result]

ReadTable ==
    /\ Reading
    /\ \E h \in DOMAIN file : IsTable(h) /\
        \E i \in 0..Len(file[h].built.columns) - 1,
           how \in {"raw", "physical", "unsigned", "complex", "bits"} :
            \E r \in {ReadTableOf(h, i, how)} : Answer("table", h, <<i, how>>, Uncached(r))

ReadRows ==
    /\ Reading
    /\ \E h \in DOMAIN file, b \in RowRanges :
        IsTable(h) /\ \E r \in {ReadRowsOf(h, b)} : Answer("rows", h, b, r)

ReadColumns ==
    /\ Reading
    /\ \E h \in DOMAIN file, b \in RowRanges, s \in Selections :
        IsTable(h) /\ \E r \in {ReadColumnsOf(h, b, s)} : Answer("columns", h, <<b, s>>, r)

ReadTableCell ==
    /\ Reading
    /\ \E h \in DOMAIN file, c \in CellsRead :
        IsTable(h) /\ \E r \in {ReadCellOf(h, c.row, c.column)} : Answer("cell", h, c, r)

ReadWcs ==
    /\ Reading
    /\ \E axes \in WcsHeaders : \E r \in {ReadWcsOf(axes)} : Answer("wcs", 0, axes, r)

ReadAscii ==
    /\ Reading
    /\ \E h \in DOMAIN file :
        ~IsTable(h) /\ \E r \in {ReadAsciiOf(h)} : Answer("ascii", h, <<>>, Uncached(r))

Next ==
    \/ PushColumn \/ StartTable \/ SumChunk \/ FinishTable \/ WriteTiled \/ WriteAscii
    \/ Damage \/ Open
    \/ ReadTable \/ ReadRows \/ ReadColumns \/ ReadTableCell \/ ReadWcs \/ ReadAscii
    \/ Take

Spec == Init /\ [][Next]_vars

-----------------------------------------------------------------------------
(* What was built. *)

Columns(h) == file[h].built.columns
Rows(h) == RowCount(file[h].built)

\* The values of a column in the rows lo to hi: flat, or ragged with ends of its own.
BuiltColumn(col, lo, hi) ==
    LET start == IF lo = 0 THEN 0 ELSE col.ends[lo]
    IN  IF IsArrays(col)
        THEN [values |-> SubSeq(col.values, start + 1, IF hi = 0 THEN 0 ELSE col.ends[hi]),
              ends |-> [r \in 1..hi - lo |-> col.ends[lo + r] - start]]
        ELSE ColumnData(col.kind, SubSeq(col.values, lo * col.repeat + 1, hi * col.repeat))

BuiltCell(col, row) == ColumnData(col.kind, BuiltColumn(col, row, row + 1).values)

\* The values as numbers: scaled, and not a number where they are null; the zero of
\* a complex column moves real parts.
BuiltPhysical(col) ==
    LET scale == OrElse({s.bscale : s \in col.scaling}, 1)
        zero == OrElse({s.bzero : s \in col.scaling}, 0)
        number(v) == IF v = NotFinite \/ v \in col.tnull THEN NotFinite ELSE scale * v + zero
    IN  [k \in DOMAIN col.values |->
            IF IsComplex(col.kind)
            THEN <<scale * col.values[k][1] + zero, scale * col.values[k][2]>>
            ELSE number(col.values[k])]

\* A whole column as a reader of it is asked for it, {} if it has no such values.
\* An unsigned column is one of 16 bits whose zero is the middle of their range.
BuiltAs(col, how) ==
    LET shaped(kind, values) == IF IsArrays(col) THEN [values |-> values, ends |-> col.ends]
                                ELSE ColumnData(kind, values)
        numbers == IF IsArrays(col) THEN shaped("", BuiltPhysical(col)) ELSE BuiltPhysical(col)
        unsigned == /\ col.kind = "I16" /\ col.tnull = {}
                    /\ \E s \in col.scaling : s.bscale = 1 /\ s.bzero = 2 ^ 15
        row(r) == BuiltColumn(col, r - 1, r).values
    IN  CASE how = "raw" -> {shaped(col.kind, col.values)}
          [] how = "physical" -> {numbers : b \in KindBitpix(col.kind)}
          [] how = "complex" -> {numbers : k \in {col.kind} \cap {"ComplexF32", "ComplexF64"}}
          [] how = "unsigned" -> {IF unsigned THEN {shaped("U16", BuiltPhysical(col))} ELSE {}}
          [] how = "bits" -> {[r \in 1..(IF IsArrays(col) THEN Len(col.ends)
                                         ELSE Len(col.values) \div col.repeat) |-> row(r)] :
                                k \in {col.kind} \cap {"Bit"}}

\* The columns a selection names: the first of a name.
BuiltIndices(h, selector) ==
    LET named == {i \in DOMAIN Columns(h) : Columns(h)[i].name = selector.name}
    IN  IF "name" \in DOMAIN selector THEN {i \in named : \A j \in named : i <= j}
        ELSE {selector.index + 1} \cap DOMAIN Columns(h)

\* The rows a range names, {} for one that runs backwards or past the table.
BuiltRows(h, b) ==
    LET lo == CASE b.start.kind = "Included" -> b.start.at
                [] b.start.kind = "Excluded" -> b.start.at + 1 [] OTHER -> 0
        hi == CASE b.end.kind = "Included" -> b.end.at + 1
                [] b.end.kind = "Excluded" -> b.end.at [] OTHER -> Rows(h)
    IN  IF lo <= hi /\ hi <= Rows(h) THEN {[lo |-> lo, hi |-> hi]} ELSE {}

\* What a read of an undamaged table gives, {} if it must fail.
BuiltAnswer ==
    LET h == last.hdu
    IN  CASE last.op = "rows" ->
                {[i \in DOMAIN Columns(h) |-> BuiltColumn(Columns(h)[i], r.lo, r.hi)] :
                    r \in BuiltRows(h, last.args)}
          [] last.op = "columns" ->
                {[k \in DOMAIN last.args[2] |->
                    LET i == CHOOSE i \in BuiltIndices(h, last.args[2][k]) : TRUE
                    IN  BuiltColumn(Columns(h)[i], r.lo, r.hi)] :
                    r \in {x \in BuiltRows(h, last.args[1]) :
                            \A k \in DOMAIN last.args[2] : BuiltIndices(h, last.args[2][k]) # {}}}
          [] last.op = "cell" ->
                {BuiltCell(Columns(h)[i], last.args.row) :
                    i \in {j \in BuiltIndices(h, last.args.column) : last.args.row < Rows(h)}}
          [] last.op = "table" -> BuiltAs(Columns(h)[last.args[1] + 1], last.args[2])

\* Every read of rows, columns, a cell or a whole column of a table, plain or
\* compressed, whatever was read before it and is held decoded, gives the cells the
\* columns were built of, scaled where numbers are asked for, and fails if there are
\* none such; a damaged table gives those or an error.
TableReadIsBuilt ==
    last.op \in {"rows", "columns", "cell", "table"} =>
        \/ file[last.hdu].damaged /\ last.result.error \notin {"none", "panic"}
        \/ BuiltAnswer = {} /\ last.result.error \notin {"none", "panic"}
        \/ last.result.error = "none" /\ last.result.value \in BuiltAnswer

\* A read that follows descriptors another program wrote succeeds only if each
\* array it gives lies whole in the heap.
ArraysLieInTheHeap ==
    (last.op \in {"rows", "columns", "cell"} /\ last.result.error = "none"
        /\ file[last.hdu].store = "plain") =>
        LET schema == file[last.hdu].parsed.value
            bytes == file[last.hdu].contents.bytes
            inside(d, kind) ==
                \/ d.count = 0
                \/ \E len \in PayloadLen(kind, d.count) : d.offset + len <= schema.heapEnd - schema.heapOffset
            descriptor(c, row) == DecodeDescriptor(CellOf([schema |-> schema, bytes |-> bytes], c, row))
            read(i, row) ==
                CASE last.op = "rows" -> \E r \in BuiltRows(last.hdu, last.args) : row \in r.lo..r.hi - 1
                  [] last.op = "columns" ->
                        /\ \E r \in BuiltRows(last.hdu, last.args[1]) : row \in r.lo..r.hi - 1
                        /\ \E k \in DOMAIN last.args[2] : i \in BuiltIndices(last.hdu, last.args[2][k])
                  [] last.op = "cell" -> row = last.args.row /\ i \in BuiltIndices(last.hdu, last.args.column)
        IN  \A i \in DOMAIN schema.columns, row \in 0..schema.rowCount - 1 :
                (~IsFixed(schema.columns[i]) /\ read(i, row)) =>
                    inside(descriptor(schema.columns[i], row).d, schema.columns[i].tform.element)

\* The sum taken chunk by chunk while a table is written is that of its whole data
\* unit, fill included, whatever lengths the chunks have, and the CHECKSUM made of
\* a sum is alphanumeric and brings the sum to all ones again.
SumIsOfWholeUnit ==
    \A h \in DOMAIN file : (file[h].store = "plain" /\ ~file[h].damaged) =>
        LET c == file[h].contents
            asc == Append(Tail(c.checksum), c.checksum[1])
            placeholder == [k \in DOMAIN asc |-> 48]
        IN  /\ c.datasum = Accumulate(c.bytes \o c.fill, 0)
            /\ \A k \in DOMAIN asc : asc[k] \in Alphanumeric
            /\ Accumulate(asc, c.datasum) = Accumulate(placeholder, AllOnes)

\* An ASCII table reads as it was built: text, integers and nulls as they are, and
\* reals within half a unit of the last place their format writes.
AsciiReadsAsBuilt ==
    (last.op = "ascii" /\ ~file[last.hdu].damaged) =>
        LET near(col, v, w) ==
                LET place == IF col.tform.letter = "F" THEN -col.tform.decimals ELSE w.e
                    low == MinOf(MinOf(v.e, w.e), place)
                    at(x) == x.m * 10 ^ (x.e - low)
                IN  2 * AbsOf(at(v) - at(w)) <= 10 ^ (place - low)
            same(col, v, w) == IF IsReal(col.tform) THEN near(col, v, w) ELSE v = w
        IN  /\ last.result.error = "none"
            /\ \A i \in DOMAIN Columns(last.hdu) :
                LET col == Columns(last.hdu)[i]
                    raw == last.result.value[i].raw
                IN  /\ raw.error = "none"
                    /\ \A r \in DOMAIN col.values :
                        /\ (raw.value[r] = {}) = (col.values[r] = {})
                        /\ \A v \in col.values[r], w \in raw.value[r] : same(col, v, w)

\* An index vector whose neighbours differ.
Distinct(t, p) ==
    \A i \in t.indices[p] : \A k \in 1..Len(i.values) - 1 : i.values[k] # i.values[k + 1]

\* What pixel to world gives, world to pixel takes back to a place of the same
\* world coordinate, whether the table was plain or compressed.  Two places are
\* left out: past the last of two points of a single axis, which the code has no
\* inverse of, and tables whose index repeats a value.
TabularInverts ==
    (last.op = "wcs" /\ last.result.error = "none") =>
        \A k \in DOMAIN last.result.value :
            LET t == last.result.value[k]
                n == Len(t.axes)
                past(xs) == /\ n = 1 /\ t.lengths = <<2>>
                            /\ Less(Whole(1), AxisInterval(t, 1, xs[1]).value.fraction)
            IN  (\A p \in DOMAIN t.axes : Distinct(t, p)) =>
                \A xs \in [1..n -> Probes] :
                    With(ToWorld(t, xs), LAMBDA world :
                        With(ToIntermediate(t, world.value), LAMBDA back :
                        world.error = "none" =>
                        \/ past(xs)
                        \/ back.error = "none" /\ ToWorld(t, back.value) = world))

\* read_table_rows and read_table_columns fail for the rows asked for only if those
\* run backwards or past the table.
RangeErrorsAreOfTheRange ==
    last.op \in {"rows", "columns"} =>
        (last.result.error = "RowRangeOutOfBounds" =>
            BuiltRows(last.hdu, IF last.op = "rows" THEN last.args ELSE last.args[1]) = {})

=============================================================================
