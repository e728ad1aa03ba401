# A TLA+ model of fits-well

fits-well reads, writes and edits FITS files. This directory holds TLA+ modules of the
parts of it that keep state, run concurrently or encode and decode data, TLC
configurations that check them on small instances, and TLAPS proofs of what matters most for every value of the constants.
`PROJECT.json` lists the runs, the mutants, the theorems, the hazards and, for each
definition, the lines of Rust it models.

A path such as `fits_writer/mod.rs` is relative to the crate's own `src/` directory.

## 1. The system

### Components

| Component | State it keeps | Operations | What makes it correct |
| --- | --- | --- | --- |
| block grid (`block`) | none | `padding`, `padded_len` | every unit ends on a 2880-byte boundary |
| header model (`header_model`) | a vector of records; an index from each keyword and each HIERARCH name to its first record | parse, `set`, `insert`, `remove`, `remove_all`, `remove_where`, `append_filtered_from`, `rename_keywords`, `set_comment`, `push_commentary`, render | the index and the records never part; what is rendered reads back |
| cards and values (`header_model/card`, `value`) | none | parse and render of one record | a record that would read back as another is refused |
| HDU list (`hdu`) | the HDUs, with their headers, kinds, offsets and lengths | scan, select, replace | the list is what is in the file |
| writer (`fits_writer`) | the sink; Empty, Active or Failed; the header form | one call for each kind of HDU; an image stream | a usable writer holds only whole HDUs; a failed one adds nothing |
| editor (`fits_editor`) | the file; the list of one scan | `replace_header`, `replace_header_into`, `append` | an edit changes one header and keeps every HDU |
| sources (`reader/source.rs`) | the stream and the position it is believed to have | `slice`, `read_append`, `read_into` | a read gives the bytes it asked for |
| data checksum (`reader/data_checksum.rs`) | the next byte to sum; the sum | `feed`, `finish` | the verdict is on the whole unit |
| reader (`reader`) | staging buffers; a tile index for each HDU; a cache of decoded table rows | images, sections, tables, cells, coordinates | a read is the part of what was written that was asked for, whatever is held |
| tile map (`compression/first_failure.rs`) | a shared atomic hint; a slot for each tile | `try_map_init`, `try_for_each_init` | the outcome of the serial loop |
| codecs (`compression/rice`, `plio`, `hcompress`, `gzip`, `quantize`) | bit buffers inside one call; the scratch of a worker | encode, decode | decode undoes encode, whatever the scratch held |
| compressed images and tables (`compression/decode`, `encode`, `table`) | plans, tile indexes, waves, scratch sets | decode of a section, encode | each tile lands in its own place; the error is the first tile's; no buffer passes the bytes promised |
| binary and ASCII tables (`bintable`, `ascii`, builders) | builders, schemas, selections, heaps | build, read, select rows, cells | a table reads as it was built; descriptors stay inside the heap |
| checksum arithmetic (`checksum`) | the carry of a running sum | `accumulate`, `update`, `encode` | the sum of the pieces is the sum of the whole |
| image model, ragged arrays | none | sample conversion, scaling, sections | numeric |
| random groups | none | views over the groups' bytes | numeric |
| tabular coordinates (`world_coordinates/tabular`) | none | transform both ways | the inverse undoes the transform |
| other world coordinates, time coordinates, units | none | parsing, transforms | numeric |

### How they interact

A writer renders a header (`header_model` over `card`), pads it (`block`), signs it
(`checksum`) and gives bytes to its sink. A scan (`hdu/hdus`) reads those bytes back
through a source, block by block. An editor is a scan, a render and a write over the
same file, and turns into a writer to append. A reader is a scan and, for each image or
table, reads through the same source; the image reads feed the data checksum on the way.
The tiles of compressed data fan out over the rayon pool through `map_tiles`, or in waves
that are decoded in parallel and scattered in order. A binary-table builder lays out its
columns and gives its bytes to the writer in chunks that the checksum follows; a reader of
a compressed table decodes the tiles a read touches and holds those rows for the next read.
Tabular coordinates are read from a table of the same file.

### What is hard

- **Concurrency.** The tiles of compressed data are decoded concurrently. The map's hint is
  read and written with Relaxed ordering, and an `expect` rests on the argument that skips
  are sound. A wave's tiles end in any order, a failed one among them, and a worker takes
  its scratch from one tile to another of a different shape.
- **Failure.** Every byte goes through a sink that may fail, or a process that may stop,
  at any point. A stream writes its header before its data and goes back to sign it; an
  edit overwrites a header in place.
- **Remembered state.** The side index of a header, the list of HDUs of an editor, the
  believed position of a stream, the next byte of a checksum, the tile index of an image
  and the decoded rows of a table are all caches of something else, patched by each
  operation. Reused buffers hold what the last tile, read or failure left.
- **Numbers at an edge.** Codes that span two words of a bit buffer, ragged tiles at the
  end of an axis, differences that wrap, runs that fill their word, descriptors that end at
  the end of the heap, fields as wide as their value.
- **Order.** Reads come in any order, overlap and repeat. Header edits come in any order.

`PROJECT.json` lists each of these as a hazard, at the line where it bites.

## 2. The modules

| Module | Models | EXTENDS / uses |
| --- | --- | --- |
| `SerialMap` | what `map_tiles` promises, from its serial form | |
| `FirstFailure` | `try_map_init` | extends `SerialMap`; implements it |
| `HeaderModel` | `Header` and `Record` | |
| `HeaderModelProofs` | theorems about it | |
| `FitsFile` | the bytes of a file: blocks, render, parse, `HduKind`, scan, checksum rules | |
| `FitsFileProofs` | lemmas about it: rendering and parsing, headers, the scan, sums | |
| `HduLog` | what a writer promises: a log of whole HDUs | |
| `FitsWriter` | `FitsWriter` and `ImageWriter` | extends `FitsFile`; implements `HduLog` |
| `FitsWriterProofs` | its inductive invariant, and theorems about it | |
| `FitsEditor` | `FitsEditor` | extends `FitsFile` |
| `FitsEditorProofs` | its inductive invariant, and theorems about it | |
| `DataRead` | `StreamSource`, `DataChecksum` and their use by `ImageReader` | |
| `ReaderProofs` | theorems about `FirstFailure` and `DataRead` | |
| `BitStream` | bits, bytes and two's complement | |
| `Rice`, `Plio`, `Hcompress`, `Gzip`, `Quantize` | one codec each, both ways | each extends `BitStream` |
| `TileCodec` | the dispatch from a tile to its codec, and a worker's scratch | extends the codecs |
| `CodecWorker` | one worker that decodes tile after tile | extends `TileCodec` |
| `ImageRegion`, `TileGeometry` | sections, byte runs, the tile grid, scatter | |
| `ImageModel` | images, samples as bytes, scaling, the unsigned convention | extends `TileCodec`, `TileGeometry` |
| `Descriptor` | column elements and heap descriptors | extends `ImageModel` |
| `TileEncode`, `TileDecode` | an image written as tiles; the read of one tile | each extends the one before |
| `TiledRead` | image reads through a handle, tiled in parallel or plain | extends `TileDecode` |
| `Folding` | lemmas about what a loop over a sequence computes | instantiated by the two below |
| `TileDecodeProofs` | lemmas about the tile grid, sections and codecs; a decode is that of a fresh scratch | |
| `TiledReadProofs` | the inductive invariants of `TiledRead`, and theorems about it | extends `TileDecodeProofs` |
| `TableBuild` | binary table builders, layout and chunks | extends `TileEncode` |
| `BinTable`, `TableSelect` | schemas, views and column readers; copies of rows, one cell | each extends the one before |
| `TiledTable` | compressed tables, both ways | extends `TableSelect` |
| `AsciiTable` | ASCII tables, both ways | extends `BinTable` |
| `Tabular` | -TAB coordinates, both ways | extends `BinTable` |
| `Checksum` | the ones'-complement sum, in pieces, and its encoding | |
| `TableIO` | tables from builder to reader | extends `TiledTable`, `AsciiTable`, `Tabular`, `Checksum` |
| `MCFitsWriter`, `MCFitsEditor`, `MCCodecWorker`, `MCTiledRead`, `MCTableIO` | the headers, files, tiles, images and tables of the runs | |

The modules of codecs, images and tables write `With(v, LAMBDA x : ...)` (`BitStream`) where
a value that is long to work out is used more than once, and `LET` elsewhere; `Then` is Rust's
`?`: it goes on with a result's value or gives its error.

### FirstFailure

The closure of `try_map_init` is four steps of a worker: `TakeIndex`, `Load` the hint
and skip or go on, run `f` (`RunOk`, `RunErr`), and `Record` a failure with `fetch_min`.
`Collect` is the ordered collect after rayon has joined the workers; a `None` it meets is
the panic of `expect`. Which worker takes which index, and when, is left open, as rayon's
work stealing leaves it.

Relaxed ordering is modelled, not assumed away: `hints` is the modification order of the
atomic, and a load may return any entry no older than the newest its own worker has seen.
Which indices fail is chosen once, in `Init`, as `f` is a function of its index.

### HeaderModel

A header is built by a parse, one card at a time (`ParseRecord`, `ParseContinue`,
`ParseOrphanContinue`, `ParseEnd`, `ParseMissingEnd`), and then edited by one action for
each public edit. A record keeps its kind, its name, whether it has a comment, and of its
value only what the control flow tells apart: a text that ends with the continuation flag
`&` is "open", a commentary text that spells a quoted CONTINUE is "cont". The two hash
maps have disjoint keys and are one function; 0 is an absent entry. `insert_at` and
`take_at` patch the index as the code does, entry by entry, and the bulk edits rebuild it
with `Reindex`. An operation that fails changes nothing, so errors are negated guards.

### FitsFile, FitsWriter, HduLog

A file is a sequence of cells: a record in a header, as many bytes in a data unit. A block
has `B` cells, 36 in the code. The keywords that place, type and size an HDU are one
"open" record, and a header may hold it anywhere, as `HduKind::from_header` looks it up by
name while the scan wants it first. A checksum is the sequence of the cells it sums: that
tells apart more than the 32-bit sum does, and leaves the arithmetic to a later module.

A call of the writer renders everything before its first byte and then emits: `plan` is
what is left to emit. `Emit(n)` lets the sink take any part of it, and `EmitFails` fails
it at any point. So every state is one that a crash can leave behind, and `ScanFindsCommitted` is
about a crash anywhere; its premise is that each committed header has one of SIMPLE and
XTENSION, and first, as a raw header need not (see the findings). A stream is `StartStream`, `WriteChunk`s, and `Finish` with the
block fill, then `Sign`, which seeks back and writes the header again, or
`FinishUnsigned`. A stream dropped at any time poisons the writer. `HduLog` is the promise:
a log of whole HDUs that grows by one write at a time and stops at the first failure. The
refinement maps the log to the committed extents of the sink.

### FitsEditor

`ReplaceHeader` does all the checks of `replace_header` and renders; `EditWrites`,
`EditFails` and `EditDone` are its write, byte by byte, and the update of the list.
`ReplaceHeaderInto` writes the second file, and `Rename` and `Discard` are what a caller
does with it. `AppendHdus` ends the editor. `Reopen` is a restart of the program, also in
the middle of a write. `torn` remembers the headers that a failed or cut write left
half written, so that the properties can say what holds of all others.

`WriterAssumption` and `EditorAssumption` say what the constants of both are: a header is
a finite run of the records that a `Header` can hold (`IsHeader`; END is none of them, as
`Header::parse` stops at it), and a file is a finite run of cells, any at all, of which
those that are "open" declare a role, a type and a length.

### DataRead

A byte is named by its offset, so a read from a wrong place shows. `SeekNone`,
`SeekRelative` and `SeekStart` are the arms of `seek_to`; `ReadOk`, `ReadShort`,
`ReadFails`, `SeekFails` and `AllocationFails` are the ways a read ends, each with what
it leaves in `position`. Reads of the image (`ReadImage`, any range of its unit) feed the
sum; any other read (`ReadOther`) only moves the stream. `StartFinish`, `FinishChunk` and
`FinishDone` are the finish, which may fail at any chunk. `Truncate` is another program.

### The codecs and CodecWorker

Each codec is a pair of operators over sequences of samples, bytes or words, that follow
the code's loops as folds and recursive functions: the block splits, the escape and the
uncoded blocks of RICE_1, the opcodes of PLIO_1, the H-transform, the quadtree and the bit
planes of HCOMPRESS_1, the members and the byte shuffle of GZIP, the quantizer with its
reserved values and its dither. A damaged stream is the same record with its end cut or a
check wrong, and a decode of it fails where the code does. `CodecWorker` sends tiles of
every codec, whole and damaged, through one `CodecScratch`: a decode may leave anything in
it, and the next must not see it.

### ImageRegion to TiledRead

`TileEncode` makes the container of an image as the writer does: the codec and its
parameters, the fallback to gzip, the null value, the quantized columns, the streams on the
heap. `TileDecode` reads one tile of it. `TiledRead` is the reader: `Open` makes the handle
and the tile index; `Read` fetches the container, or copies the rows of the tiles a section
touches to a table of their own, where a tile's row is no longer its number; `Work`
(`DecodeNext`) is a worker that decodes the next tile of an item; `Leave` (`Skip`) is an
item that rayon leaves out once an earlier one has failed; `EndItems` scatters a wave in
order, goes to the next or ends the read; `EndFailed` ends it with the error of the first
failed item. Bands are the other layout: each worker writes its tiles straight into its own
part of the image. Plain images (`OpenPlain`, `PlainReads`) are read run by run. A source
may fail any read.

`UnitsAssumption` says what a unit is before anything is read of it: a container's
extents are naturals and its tile extents any integers (`TypedHeader`), its table has a row
for each of NAXIS2 and a descriptor of naturals in each array column (`TypedTable`), and
a region is all of the image or a range of naturals an axis (`TypedRegion`). Whether the
header, the table or the region is a legal one is for the code to find out. `Left` counts
the steps a read has left: three for each tile of the waves to come, and those of the items
at work (`Pending`).

### TableBuild to TableIO

A column goes through all checks of the builder (`PushColumn`), a table is laid out
(`StartTable`) and written in chunks that `Running` sums (`SumChunk`, `FinishTable`), or
compressed in tiles of rows (`WriteTiled`), or is an ASCII table (`WriteAscii`). `Damage`
is another program that changed the file. After `Open`, reads of whole tables, rows,
columns, cells, ASCII columns and coordinates come in any order, and `cache` is the decode
that a `DataSource` holds between them, with its HDU, tiles and columns. `Take` is the
caller that is done with what a read gave. What a read must give is computed from the
columns that were pushed, without the encoded bytes.

## 3. The runs

| Run | Instance | States | Shows |
| --- | --- | --- | --- |
| `first_failure` | 4 tiles, 2 workers, every set of failures | 19 k | no skip is unsound, the collect never panics, and the map implements `SerialMap` with its liveness |
| `header_model` | keywords A, B and HISTORY, one HIERARCH name, commentary names, 3 records, 2 appended | 91 k | the index invariant and `index_of`'s shortened search, after any parse and any edits |
| `fits_writer` | blocks of 3 cells, data units of 0 to 4 cells, 3 HDUs, 0 or 1 spare record, with and without checksums | 267 k | a usable writer's file is whole and its sums hold; committed HDUs scan after a crash; a byte once written changes only to sign a stream; a failed writer stops; it implements `HduLog` |
| `fits_editor` | 4 files (one with bytes after the last HDU, one cut short), 10 headers, 15 cells, 1 fault | 145 k | the list is the scan; CHECKSUM stays valid; only the header's blocks change; the second file is a splice; an append starts at the end of whole HDUs |
| `data_read` | 8 bytes, a unit of 4, chunks of 3, 3 reads of a handle | 1.7 M | the position is right or unknown, reads give what they asked, the sum is a prefix, the verdict is on the whole unit |
| `codecs` | the edges of each width, every tile of a few values, planes up to 5 by 3; two tiles of a worker, whole or damaged | 4.8 k | every codec gives back what it was given, a float is within half a step, and a worker decodes as a new one would, but for the error of one kind of corrupt stream |
| `tiled_read` | images of two axes with ragged tiles in each codec, a foreign container, one with a cell longer than its tile, damaged ones and plain images; two workers | 29 k | a read is the crop of the image, or the failure of the first bad tile; the reader's buffers stay within what was promised and, but for the samples of a cell longer than any tile, the scratch sets within their plan; every read ends |
| `tables` | tables of every kind of column, plain and compressed, ASCII tables and coordinate tables of one and two axes; whole or damaged | 12 k | a read gives what was built, whatever is held decoded; arrays lie in the heap; the sum is of the whole unit; coordinates invert |
| `plio_full_run` | as `codecs` | violated | see findings |
| `table_empty_read` | as `tables` | violated | see findings |
| `header_round_trip` | 2 keywords, orphan CONTINUE records, 3 records | violated | see findings |
| `editor_order` | as `fits_editor`, no fault | violated | see findings |

### Bounds

- Four tiles and two workers give a failure before, between and after others, a tile
  skipped past each, and a load that is stale by more than one entry. Symmetry is not used.
- Three records are the fewest with a duplicate before and after a removed one. HISTORY is
  among the keywords because a keyword also names a commentary record of its text, which
  is what `index_of` must not miss.
- Blocks of three cells with data of up to four give units that are empty, shorter than a
  block, exactly one and one more, and headers that fill their blocks with and without
  signatures. Three HDUs give one before and one after any.
- In `data_read` the unit starts after the file does and ends before it, chunks do not
  divide it, and three reads overlap, repeat and leave gaps. The refusal of a unit the
  file never held is a branch of `FinishChunk` that this instance does not take; the
  theorems below cover it, as they hold for every `Size` and `UnitEnd`.

- In `codecs` the constants of the formats are smaller, so that their limits are met by
  tiles of a few samples: data fields of two bits for PLIO_1's 12, coefficients of 12 bits
  for HCOMPRESS_1's 64, blocks of two samples beside those of RICE_1, integers up to 15 for
  the quantizer, a dither table of seven values. Blocks of 16 and 32 samples of which only
  the last differs have unary prefixes either side of RICE_1's 32-bit word and past the
  reader's 64 bits. Two tiles of a worker are a first that leaves its buffers in some state
  and a second that meets them. A gzip member may lose its header or trailer, end early,
  fail its CRC, inflate past the tile, or turn corrupt before the tile's end or past it. The
  last is where a decode is not that of a new worker: a buffer of just the tile's room is
  full before the corrupt data (`GzipOverrun`), a longer one of an earlier tile may not
  be (`GzipStream`). `DecodeForgetsScratch` lets the two differ there, and only there;
  both are errors.
- In `tiled_read` a wave holds at most two tiles (`WaveBytes` is 16), so an image takes
  several, the last of them short; sections start and end inside tiles, and touch tiles
  that are not neighbours in the table.
- In `tables` three rows in tiles of two give a full tile and a short one. Chunks of 11
  bytes divide neither rows nor words, and words of three bytes (`WordBytes`, 4 in the code,
  whose sums pass the model checker's integers) in blocks of 6 leave a carry of one or two
  bytes between chunks; one table's word is filled by three pieces. `PMax`, `QMax` and `UsizeMax` are 400, 500
  and 1000, so that a small descriptor passes each. The search of a coordinate halves a
  cell 3 times, 31 in the code, and the probes are on that grid.

Deadlock is checked in `tiled_read` and `tables`, where a caller can always go on.
`CHECK_DEADLOCK FALSE` is set in the other runs: a call that has returned, a failed parse,
a poisoned writer, an editor that became a writer and a worker past its bound have nothing
left to do.

### Fairness

Only `FirstFailure` states fairness: weak fairness of each worker's step and of the
collect. Rayon blocks the caller until the range is done, its workers are operating-system
threads, and each step of the closure is enabled until it is taken, as it waits for no
other worker. The other components run only when a caller calls, so no liveness is claimed
of them. Of a read that runs in `TiledRead`, `ReadProgresses` says that every step lowers
the number of steps that are left to it; with no deadlock, such a read ends on every
schedule that goes on, and no fairness between the workers is needed.

## 4. Findings

- **An orphan CONTINUE can fold after an edit** (`header_round_trip`). The doc of `Header`
  says that the round trip preserves the logical model. A CONTINUE card that follows no
  open text is kept as commentary; if an edit then leaves a text that ends with `&` right
  before it, the header renders, and reads back with the two folded into one.
- **An edit may move SIMPLE or XTENSION** (`editor_order`). The README says that an edit
  cannot break a file. The editor's checks find the keyword wherever it stands, and the
  scan only in the first record, so an edit with a record inserted before it succeeds and
  the HDU, with all after it, is lost to the next scan. `write_raw_hdu` accepts such a
  header too; `ListIsScan`, `AppendContinuesWhole` and `ScanFindsCommitted` are stated
  for headers that have it first, as all that the writer makes itself do.
- **A PLIO_1 zero run that fills its words is lost** (`plio_full_run`). A lone high sample
  after zeros is folded into the last zero word by adding one to its length. After 4095
  zeros, or a multiple of that, the length is already the longest and the sum carries into
  the opcode. `PlioRoundTripButFull` is the round trip of all other tiles.
- **Empty reads of a compressed table share a cache entry** (`table_empty_read`). Every
  empty range names the tiles 0..0, so the rows held for one empty read are taken for
  another's, and the range asked for is moved by the first row of the one held: 2..2 after
  0..0 is refused as out of bounds, and 0..0 after 2..2 underflows.

Three more were met while modelling and have no run of their own:

- The doc of `DecodeCapacities` (`compression/decode/decode_capacities.rs:9-12`) says that no
  set of buffers grows past what it is reserved to. An integer cell of `UNCOMPRESSED_DATA` is
  decoded whole (`tile_decoder.rs:212`) before its length is compared with the tile's, so the
  samples of the set grow to the cell, and after the next decode the codecs' do. The read then
  fails. `SetsStayReserved` lets these two buffers be as long as such a cell, and no others.
- `locate_one_dimensional` (`world_coordinates/tabular/mod.rs:712`) decides by the number
  of a cell which half interval a coordinate may be extrapolated to. Of a table of two
  points, cell 0 is also the last one, so a coordinate past the last point has
  no inverse, while the doc (672-673) promises both half intervals. The shortcut for the
  first coordinate (679) also ignores that an index vector may repeat its first value.
  `TabularInverts` leaves both out.
- Rows of no bytes make `chunks_mut(0)` in the decode of a compressed table
  (`compression/table/mod.rs:732`, 748 and 756), which panics. No table of the run has
  such rows.

## 5. What is proved

| Theorem | For every |
| --- | --- |
| `FirstFailureCorrect`, `SkipSound`, `HintFalls`, `ImplementsSerial`, `MapTyped` | range, set of workers and set of failing indices |
| `HeaderIndexed`, `HeaderTyped`, `IndexInvariant`, `IndexOfCorrect` | length of header and sets of names |
| `WInvHolds`, `WriterTyped`, `WholeFile`, `CommittedFound`, `SignaturesOnly`, `LogRefined`, `FailedWriterIsIdle`, `FailedWriterStops` | block size, raw headers, lengths of data and number of HDUs |
| `EditorInvHolds`, `EditorTyped`, `ListScanned`, `AppendWhole`, `SecondFile`, `HeaderOnly`, `SumsStay` | block size, files, headers and number of faults |
| `ReaderTyped`, `PositionTracks`, `ReadsCorrect`, `SumCorrect`, `VerdictCorrect` | file, unit, chunk and number of reads |
| `DecodeIsFresh` | plan, table, tile and scratch set |
| `CompactTableReads` | table and choice of its rows |
| `ReadIsShared`, `ReadsProgress`, `ReadReportsFirstBadTile`, `BuffersArePromised` | units and their regions, pool of workers and wave |

The assumptions are the named ones in the modules: bounds are naturals, `usize::MAX` is
above every index, a block has a record, a unit starts no later than it ends, a chunk
has a byte, and headers, files and units are those of section 2. The widths and limits of
the formats that the codecs name are positive. TLC evaluates each in a run.

- **FirstFailure.** The invariant adds to the type: every entry of `hints` is `usize::MAX`
  or an index that fails; a worker that records holds an index that fails; a slot is "ok"
  or "err" as its index fails; every index is pending, held by a worker or has a slot. A
  stale hint is still an entry of `hints`, so an index past it comes after a failure:
  that is why Relaxed is enough. When all are idle and nothing is pending, the first slot
  that is not "ok" cannot be a skipped one, which gives the outcome and the refinement.
- **HeaderModel.** The index invariant with the type is inductive. Lemmas state what
  `InsertIndex`, `TakeIndex` and `Reindex` do to an index of the records; each edit then
  cites one. `take_at` is the delicate one: the entry of a removed first record goes to
  the first later one of its name. `index_of` searches only up to the index's entry when
  there is one; the index invariant is what makes that the whole search.
- **FitsFile.** What both proofs about files share. A header that fits its blocks reads
  back as its records with its length; a signed header has the sums of its unit; the scan
  finds the HDU at an offset from the cells of its unit alone, whatever follows. The scan
  is a recursive function of the offset that goes on behind the HDU it found. The
  induction theorems take an operator and cannot be cited, so each fact about it is
  proved from a least counterexample: a set of naturals that is not empty has a least
  element, and an HDU ends behind its offset.
- **FitsWriter.** The type says nothing of what the bytes are, so the invariant (`WInv`)
  does. The committed HDUs are whole units, end to end from the first cell, with both sums
  right when the form asks for them. In a call, what is in the file behind them, with what
  `plan` has left, is what the call rendered when it began; for a stream, an unfinished
  header, its samples so far, and the sum of those. So when the plan runs out, what the
  call commits is whole, and until then a usable file ends at the last commit. Only `Sign` goes back, and a lemma
  (`CellsWritten`) says which cells it writes: the record block rendered again differs
  from the one in the file in its two sums only. A failed writer has no bytes left to emit
  but for a chunk that it will refuse; each other step maps to a step of the log or a stutter.
- **FitsEditor.** The list of the editor is not the scan while a header is torn, so the
  invariant (`EditorInv`) says what survives: the listed HDUs lie end to end in the file;
  none is found behind the last; each header that is not torn reads as it is listed. While
  an edit writes, the file has the first cells of the new header unit and the edit has the
  others, and nothing else of the file moved. With nothing torn, those facts determine the
  scan. `replace_header_into` copies the HDUs one by one; the same induction shows that
  the copies join up to the file with one unit changed, also where bytes follow the last
  HDU.
- **The sums of the editor.** `SumsStay` has two hypotheses beside the specification:
  `FilesSound`, the CHECKSUM of each HDU a scan finds in `Files` is right or stands beside
  a wrong DATASUM that a caller's header also declares, and `RescansWhole`, an editor is
  opened (`Reopen`, `Rename`) only when no header is torn. `SumInv` adds to `EditorInv`:
  the unit an edit in place writes has its sum over the data that is there before the list
  has the HDU, whichever cells are written so far; and what a scan will find in the second
  file has its sums. For the latter, each HDU of the list is found again at its place in
  the splice, with the cells it had (`PutsBefore`, `PutsEdited`, `PutsAfter`), and a scan
  finds nothing but these (`ScanIsPrefix`). Failed writes are not excluded: a torn header
  is written again, or the second file replaces it.
- **DataRead.** The four properties are inductive together with one fact: between a seek
  and its read, the stream stands at the offset asked. The position is unknown in
  between a hop and its read, which is what lets a failed reservation in between be
  harmless.

- **TileDecode.** `DecodeIsFresh` compares two decodes of one tile, in the scratch a
  worker has and in a fresh one, branch by branch: which cell the tile has, which codec
  decodes it, then nulls and masks. The codecs read nothing they have not written in the
  same call, so the two agree on the error and the samples; the buffers keep the sizes that
  the next tile is entitled to. The loops are folds. `Folding` says of a fold of any step
  what it keeps, from its definition in the community modules: the states over the first k
  elements exist, by the least k for which they would not, and extend one another. Each
  loop is an instance with its own step and invariant, and its user proves from the least
  member of a set of naturals what the lemmas ask for (`WellOrdered`).
- **CompactTable.** Each cell is copied behind all earlier ones (`IsCopy`: streams in
  order, none empty, none overlapping), so a descriptor made earlier still finds its own
  stream (`GrowsOn`), and a copy that was refused copies nothing more.
- **TiledRead, the shared work.** `ReadInv` says that what runs is laid out for the handle's
  image, in waves or bands of a tile at least (`ReadLaidOut`: this is where a wave of no
  tiles, or a band past the grid, would stop a read), and that a worker is in one band, with
  nobody else, past its first tile (`WorkShared`). With it each step lowers `Left`:
  a decode by a pending step, an item left out by all of its own, a new wave by three for each
  tile against two that it adds.
- **TiledRead, the first bad tile.** `JudgedInv` adds what the reader remembers: the index
  in its slot is that of the unit (`IndexOfUnit`); the read that runs is of a region of it,
  with the rows and plan of that region (`JobOfRegion`); every worker's set has the sizes of
  the plan (`SetsSized`). `TilesJudged` is the argument: an item is done when no tile of it
  fails, failed at the first of its tiles that does, with that tile's error, and left out only
  behind a failed one; all waves before this one had no bad tile. `DecodeIsFresh` and
  `CompactTableReads` make "fails" a fact about the tile in the file, whoever decodes it and
  from whichever copy of its row. When all items have ended, the first failed
  one has no bad tile before it, so its error is that of the serial loop.
- **TiledRead, the promise.** `view_bytes` goes over the regions once; what it adds up
  covers the buffers as they were and each region's needs (`ViewBytesIs`, a fold). A read grows
  the buffers by its own region's needs only, so they stay below (`PromiseKept`), in
  whatever order. What a read grows the buffers by is what it fetched (`FetchedInto`), and
  `FetchedIsNeeded` proves that to be what `view_bytes` computed (`NeedOf`), from the rows and
  cells that the copy ends with. The rest is that every need is a natural: the rows of a
  section are tiles of the grid, and the copy of their cells has a length.

### Only model-checked

- **Liveness of the map**, `ImplementsSerialMap` with its fairness: out of the prover's
  reach. `ImplementsSerial` is its safe part.
- **`ChecksumStaysValid`** where an editor is opened on a torn file. A torn header may end
  up in one unit with the cells that follow it; a scan may then find HDUs inside another's
  data, and nothing is known of the sums there. So `SumsStay` leaves it out, and the run
  checks it on four files, whose sums `MCFilesSound` checks.
- **The round trips**: those of the codecs and `QuantizedWithinHalfStep` (`CodecWorker`), and
  `ReadIsCrop`, which rests on them. Each is an induction over the samples of a tile, whose
  hypothesis is about two loops at once, that of the encoder and that of the decoder over
  what it wrote. The lemmas of `Folding` are about one loop; a proof for all inputs would need
  one such hypothesis for each format, at the level of its bits.
- **`DecodeForgetsScratch`** (`CodecWorker`) compares the worker's scratch with an empty one,
  whose inflate buffer has another capacity. `DecodeIsFresh` is its counterpart for the
  tiles of a plan, and proved: there every buffer has the capacity the plan gives it.
- **`SetsStayReserved`**: the inflate buffers' part of it is in what `DecodeIsFresh` rests
  on (`RoomInPlan`, `DecodeTileKeeps`). Of the other buffers it bounds what each codec's
  decode gives, HCOMPRESS_1's planes among it.
- **The tables** (`TableIO`): `TableReadIsBuilt`, `ArraysLieInTheHeap`, `SumIsOfWholeUnit`,
  `AsciiReadsAsBuilt` and `TabularInverts` compare what is read with the columns that were
  pushed, again across an encoder and a decoder.

## 6. Abstractions to know of

- A resident source (`SliceSource`) has no position and its reads cannot fail inside a
  range; only the stream is modelled.
- `write_chunk` encodes in bounded pieces and sums each before it writes it; the model
  sums the chunk and then emits it in pieces. They differ only in the sum of a stream that
  has failed, which nobody reads again.
- A template's records are part of the header a write is given.
- A declared DATASUM always parses in the editor model; a DATASUM that does not parse
  counts as absent in the code.
- A stream that is leaked and never dropped is not modelled.
- Reading a `HeaderUnit` always finds an HDU the kind parser accepts: `Hdu::parse` errors
  that end a scan as its defect are not modelled.
- Deflate is a library: a gzip member keeps the bytes it inflates to, its length, and
  whether its checks hold. A member is 18 bytes longer than what it holds, so in the model
  only RICE_1 arrays of a compressed table get shorter and are stored compressed.
- A float is a whole number of units or one value that is not finite; scale and zero are
  integers. Coordinates are exact fractions. Rounding of the machine is not modelled.
- A stream on a heap is one item with a place and a length; a descriptor that matches none
  is a damaged cell, and its decode fails. The bytes of plain tables and images are bytes.
- A descriptor that is rewritten for the compacted rows always fits its two words; the code
  refuses one that does not (`DescriptorOutOfRange`), past 2 GiB of copied cells.
- A band's worker reserves its scratch set once a band; the model does at each of its tiles,
  where the set already has that size.
- A view is of the caller's words, which each read makes new.
- A plain physical read that fails keeps the samples of the runs before, as the code does;
  the chunks inside one run are one step.
- An ASCII field is the blanks around a text or a number; the Fortran spellings of one
  number are not told apart. That names are ASCII is left to the cards of the header model.
- The parallel loops over the tiles of a compressed table are the map of `FirstFailure`,
  and one step here.

## 7. Plan

The order puts first what keeps state across calls and can be left half done. Done: the
tile map, the header model, the file format, the writer, the editor, the stream reader,
the codecs, tiled and plain image reads, tables of all kinds, the checksum arithmetic and
tabular coordinates.

Proved since: the type and the safety of the map, the header model, the writer, the editor
and the stream reader; of tiled reads, the invariant of the shared work, their progress, the first
bad tile and the promise of `view_bytes`. What is left to prove are the checksum of pieces
(`Checksum`) and the round trips of the codecs, in that order: the sum is a single loop over
the words, which `Folding` reaches.

### Not modelled

- **Celestial and spectral coordinates, distortions**: trigonometry and series in floating
  point, which TLC has no values for.
- **Time coordinates and units**: parsers and a calendar without state, whose properties
  are round trips of single calls that unit tests reach.
- **Random groups**: views over bytes that are already read, without state.
- **The layout of a card**: columns, quoting and number formats of one record. The header
  model keeps which records refuse to render and which read back as another.
- **Errors**: the type and its text. The models keep which error each path gives.
- **Leaked streams** (`mem::forget` of an image stream): the writer then goes on after a
  short data unit, and nothing in the code can see it.
- `read_groups`, `read_data_unit` and `verify_checksum` read one unit and keep nothing.
