------------------------------ MODULE FitsWriter -------------------------------
(***************************************************************************)
(* `FitsWriter` and its `ImageWriter` stream: the one path every byte of a *)
(* written file takes.                                                     *)
(*                                                                         *)
(* A call renders all it can before its first byte, and then emits: `plan` *)
(* is what it still has to emit.  The sink takes some of it at a time      *)
(* (`write_all` is a loop of writes) and may fail at any point, which      *)
(* poisons the writer.  An image stream writes its header first, with      *)
(* placeholder checksums, and goes back to sign it when it is finished.    *)
(*                                                                         *)
(* Every state is one a crash can leave behind, as `sink` is what the file *)
(* holds.  The scratch buffers hold no state between calls.                *)
(***************************************************************************)
EXTENDS FitsFile, FiniteSets

CONSTANTS
    RawHeaders, \* headers a caller of write_raw_hdu may give
    MaxLen,     \* bound on the cells of a data unit
    MaxHdus,    \* bound on the HDUs of a file
    MaxSpare    \* bound on with_spare_records

ASSUME WriterAssumption ==
    /\ \A header \in RawHeaders : IsHeader(header)
    /\ MaxLen \in Nat /\ MaxHdus \in Nat /\ MaxSpare \in Nat

VARIABLES
    sink,       \* the bytes written
    pos,        \* the sink's position
    state,      \* WriterState
    form,       \* HeaderForm: the checksums and the spare records
    call,       \* the call under way, "none" between calls
    plan,       \* the bytes the call has still to emit
    stream,     \* the open ImageWriter
    placed,     \* the extent of each HDU committed
    adding      \* the extents of the HDUs the call will commit

vars == <<sink, pos, state, form, call, plan, stream, placed, adding>>

NoStream == [open |-> FALSE, header |-> <<>>, offset |-> 0, expected |-> 0,
             written |-> 0, chunk |-> 0, sum |-> <<>>, end |-> 0]

Extent(from, to) == [from |-> from, to |-> to]

EmptyPrimary == <<Open(FALSE, FALSE, 0)>>

Forms == [checksums : BOOLEAN, spare : 0..MaxSpare]

\* A new writer on an empty sink, or one that continues a file whose primary is
\* written (FitsEditor::append).
Init ==
    /\ form \in Forms
    /\ \/ /\ sink = <<>>
          /\ state = "Empty"
          /\ placed = <<>>
       \/ /\ sink = RenderInto(EmptyPrimary,
                               IF form.checksums THEN WithDataSum(<<>>) ELSE Unsigned, 0)
          /\ state = "Active"
          /\ placed = <<Extent(0, Len(sink))>>
    /\ pos = Len(sink)
    /\ call = "none"
    /\ plan = <<>>
    /\ stream = NoStream
    /\ adding = <<>>

Idle == call = "none" /\ ~stream.open

--------------------------------------------------------------------------------
(* The sink. *)

\* Bytes written at the position go over those there.
Overwrite(file, at, bytes) ==
    [i \in 1..(IF Len(file) > at + Len(bytes) THEN Len(file) ELSE at + Len(bytes)) |->
        IF i \in at + 1..at + Len(bytes) THEN bytes[i - at] ELSE file[i]]

EnsureUsable == state # "Failed"

\* Mutant: a poisoned writer still writes.
EmitUnchecked(n) ==
    /\ plan # <<>>
    /\ sink' = Overwrite(sink, pos, SubSeq(plan, 1, n))
    /\ pos' = pos + n
    /\ plan' = SubSeq(plan, n + 1, Len(plan))
    /\ UNCHANGED <<state, form, call, stream, placed, adding>>

\* `emit`: the sink takes the next n bytes.
Emit(n) ==
    /\ plan # <<>>
    /\ EnsureUsable
    /\ sink' = Overwrite(sink, pos, SubSeq(plan, 1, n))
    /\ pos' = pos + n
    /\ plan' = SubSeq(plan, n + 1, Len(plan))
    /\ UNCHANGED <<state, form, call, stream, placed, adding>>

\* The call returns its error.  An error of `finish` drops the stream, which
\* was not finished; one of `write_chunk` leaves it with its caller, and no one
\* reads its sum again.
Abandon ==
    /\ call' = "none"
    /\ plan' = <<>>
    /\ adding' = <<>>
    /\ stream' = IF call = "chunk" THEN [stream EXCEPT !.chunk = 0, !.sum = <<>>]
                                   ELSE NoStream

\* `emit`: the sink fails, and the writer is poisoned.
EmitFails ==
    /\ plan # <<>>
    /\ EnsureUsable
    /\ state' = "Failed"
    /\ Abandon
    /\ UNCHANGED <<sink, pos, form, placed>>

\* `emit`: a poisoned writer refuses, as a chunk after a failed one finds.
EmitRefused ==
    /\ plan # <<>>
    /\ ~EnsureUsable
    /\ Abandon
    /\ UNCHANGED <<sink, pos, state, form, placed>>

--------------------------------------------------------------------------------
(* One HDU in one call. *)

\* The signing of a header whose data is known.
Signing(sum) == IF form.checksums THEN WithDataSum(sum) ELSE Unsigned

\* `next_position`: the primary of an empty file, an extension after it.
NextIsPrimary == state = "Empty"

\* `placed`: an extension header written first goes after an empty primary.
GoesFirst(header) == NextIsPrimary /\ ~HasRole(header, FALSE)

\* Mutant: the empty primary is left out.
LeadOmitted(header) == <<>>

\* The empty primary a call writes before an extension that comes first.
Lead(header) ==
    IF NextIsPrimary /\ ~GoesFirst(header)
    THEN RenderInto(EmptyPrimary, Signing(<<>>), form.spare)
    ELSE <<>>

\* `finish_hdu`, up to its first byte: the role, the data length, and every
\* byte of the HDU.
FinishHdu(header, len) ==
    LET kind == KindOf(header, GoesFirst(header))
        unit == Data(len) \o DataFill(kind)
        lead == Lead(header)
        hdu  == RenderInto(header, Signing(unit), form.spare) \o unit
    IN  /\ Idle
        /\ EnsureUsable
        /\ HasRole(header, GoesFirst(header))
        /\ kind.len = len
        /\ call' = "hdu"
        /\ plan' = lead \o hdu
        /\ adding' = (IF lead = <<>> THEN <<>> ELSE <<Extent(pos, pos + Len(lead))>>)
                     \o <<Extent(pos + Len(lead), pos + Len(lead) + Len(hdu))>>
        /\ UNCHANGED <<sink, pos, state, form, stream, placed>>

\* The end of `finish_hdu`.
HduWritten ==
    /\ call = "hdu"
    /\ plan = <<>>
    /\ state' = "Active"
    /\ call' = "none"
    /\ placed' = placed \o adding
    /\ adding' = <<>>
    /\ UNCHANGED <<sink, pos, form, plan, stream>>

\* `write_raw_hdu`: the caller's own header and data.
WriteRawHdu == \E header \in RawHeaders, len \in 0..MaxLen : FinishHdu(header, len)

\* `write_image`: the primary first, an IMAGE extension later.
WriteImage ==
    \E len \in 0..MaxLen : FinishHdu(<<Open(~NextIsPrimary, FALSE, len)>>, len)

\* `write_table`, `write_compressed_image`, `write_compressed_table` (a
\* BINTABLE) and `write_ascii_table` (a TABLE): always an extension.
WriteTable ==
    \E ascii \in BOOLEAN, len \in 0..MaxLen :
        FinishHdu(<<Open(TRUE, ascii, len), Card(1)>>, len)

\* `write_empty_primary`.
WriteEmptyPrimary == NextIsPrimary /\ FinishHdu(EmptyPrimary, 0)

--------------------------------------------------------------------------------
(* An image stream. *)

\* Mutant: the stream's header leaves no room for its checksums.
StartUnsigned(len) ==
    LET header == <<Open(~NextIsPrimary, FALSE, len)>>
    IN  /\ Idle
        /\ EnsureUsable
        /\ call' = "start"
        /\ plan' = RenderInto(header, Unsigned, form.spare)
        /\ stream' = [NoStream EXCEPT !.header = header, !.offset = pos, !.expected = len]
        /\ UNCHANGED <<sink, pos, state, form, placed, adding>>

\* `stream_image` and `start_stream`: the header at the sink's position, with
\* placeholders when the writer writes checksums.
StartStream(len) ==
    LET header == <<Open(~NextIsPrimary, FALSE, len)>>
    IN  /\ Idle
        /\ EnsureUsable
        /\ call' = "start"
        /\ plan' = RenderInto(header, IF form.checksums THEN Unfinished ELSE Unsigned,
                              form.spare)
        /\ stream' = [NoStream EXCEPT !.header = header, !.offset = pos, !.expected = len]
        /\ UNCHANGED <<sink, pos, state, form, placed, adding>>

StreamStarted ==
    /\ call = "start"
    /\ plan = <<>>
    /\ state' = "Active"
    /\ call' = "none"
    /\ stream' = [stream EXCEPT !.open = TRUE]
    /\ UNCHANGED <<sink, pos, form, plan, placed, adding>>

\* Mutant: a chunk past the image's end is written.
WriteChunkUnbounded(n) ==
    LET chunk == SubSeq(Data(stream.written + n), stream.written + 1, stream.written + n)
    IN  /\ stream.open
        /\ call = "none"
        /\ call' = "chunk"
        /\ plan' = chunk
        /\ stream' = [stream EXCEPT !.chunk = n, !.sum = @ \o chunk]
        /\ UNCHANGED <<sink, pos, state, form, placed, adding>>

\* `write_chunk`: a chunk that would pass the image's end is refused, and so is
\* one of another type; neither changes anything.  The sum takes a chunk before
\* the sink does.
WriteChunk(n) ==
    LET chunk == SubSeq(Data(stream.expected), stream.written + 1, stream.written + n)
    IN  /\ stream.open
        /\ call = "none"
        /\ stream.written + n <= stream.expected
        /\ call' = "chunk"
        /\ plan' = chunk
        /\ stream' = [stream EXCEPT !.chunk = n, !.sum = @ \o chunk]
        /\ UNCHANGED <<sink, pos, state, form, placed, adding>>

ChunkWritten ==
    /\ call = "chunk"
    /\ plan = <<>>
    /\ call' = "none"
    /\ stream' = [stream EXCEPT !.written = @ + stream.chunk, !.chunk = 0]
    /\ UNCHANGED <<sink, pos, state, form, plan, placed, adding>>

\* Mutant: a stream dropped early leaves the writer usable.
DropUnpoisoned ==
    /\ stream.open
    /\ call = "none"
    /\ stream' = NoStream
    /\ UNCHANGED <<sink, pos, state, form, call, plan, placed, adding>>

\* The stream is dropped before its finish, or by a finish that refuses (the
\* writer failed, or the samples are not all there).
DropStream ==
    /\ stream.open
    /\ call = "none"
    /\ state' = "Failed"
    /\ stream' = NoStream
    /\ UNCHANGED <<sink, pos, form, call, plan, placed, adding>>

\* `finish`: all samples are there, and the block fill follows them.
Finish ==
    /\ stream.open
    /\ call = "none"
    /\ EnsureUsable
    /\ stream.written = stream.expected
    /\ call' = "fill"
    /\ plan' = Fill(Zero, Padding(stream.expected))
    /\ UNCHANGED <<sink, pos, state, form, stream, placed, adding>>

\* The stream's HDU is whole, up to `end`.
CommitStream(end) ==
    /\ call' = "none"
    /\ placed' = Append(placed, Extent(stream.offset, end))
    /\ stream' = NoStream
    /\ UNCHANGED <<sink, state, form, adding>>

\* Mutant: the seek back goes to the start of the file.
SignAtStart ==
    LET sum == stream.sum \o Fill(Zero, Padding(stream.expected))
    IN  /\ call = "fill"
        /\ plan = <<>>
        /\ form.checksums
        /\ call' = "rewrite"
        /\ pos' = 0
        /\ plan' = RenderInto(stream.header, WithDataSum(sum), form.spare)
        /\ stream' = [stream EXCEPT !.sum = sum, !.end = pos]
        /\ UNCHANGED <<sink, state, form, placed, adding>>

\* `finish_stream` and `rewrite_header` with checksums: the sum takes the fill,
\* the sink seeks back to the header, and the signed one goes over it.
Sign ==
    LET sum == stream.sum \o Fill(Zero, Padding(stream.expected))
    IN  /\ call = "fill"
        /\ plan = <<>>
        /\ form.checksums
        /\ call' = "rewrite"
        /\ pos' = stream.offset
        /\ plan' = RenderInto(stream.header, WithDataSum(sum), form.spare)
        /\ stream' = [stream EXCEPT !.sum = sum, !.end = pos]
        /\ UNCHANGED <<sink, state, form, placed, adding>>

\* Without checksums the fill ends the stream.
FinishUnsigned ==
    /\ call = "fill"
    /\ plan = <<>>
    /\ ~form.checksums
    /\ CommitStream(pos)
    /\ UNCHANGED <<pos, plan>>

\* The header is signed, and the sink returns to the end of what is written.
Signed ==
    /\ call = "rewrite"
    /\ plan = <<>>
    /\ pos' = stream.end
    /\ CommitStream(stream.end)
    /\ UNCHANGED plan

\* A seek to the header or back from it fails: `rewrite_header` poisons.
SeekFails ==
    /\ call = "rewrite" \/ (call = "fill" /\ form.checksums)
    /\ plan = <<>>
    /\ state' = "Failed"
    /\ Abandon
    /\ UNCHANGED <<sink, pos, form, placed>>

--------------------------------------------------------------------------------
Next ==
    \/ \E n \in 1..Len(plan) : Emit(n)
    \/ EmitFails
    \/ EmitRefused
    \/ /\ Len(placed) < MaxHdus
       /\ \/ WriteRawHdu
          \/ WriteImage
          \/ WriteTable
          \/ WriteEmptyPrimary
          \/ \E len \in 0..MaxLen : StartStream(len)
    \/ HduWritten
    \/ StreamStarted
    \/ \E n \in 1..MaxLen : WriteChunk(n)
    \/ ChunkWritten
    \/ DropStream
    \/ Finish
    \/ Sign
    \/ FinishUnsigned
    \/ Signed
    \/ SeekFails

Spec == Init /\ [][Next]_vars

--------------------------------------------------------------------------------
(* Properties. *)

Calls == {"none", "hdu", "start", "chunk", "fill", "rewrite"}

\* Type invariant: the writer's own state, the stream's counts within the image,
\* and a position within what is written.
TypeOK ==
    /\ form \in Forms
    /\ state \in {"Empty", "Active", "Failed"}
    /\ call \in Calls
    /\ call = "none" => plan = <<>> /\ adding = <<>>
    /\ pos \in 0..Len(sink)
    /\ stream.written + stream.chunk \in 0..stream.expected
    /\ stream.open => state # "Empty"

\* The bytes of the unit are the whole HDU of that index: a header of its role,
\* the data it declares, and the right fill up to the block boundary.
WholeUnit(index, unit) ==
    /\ Tagged(unit, "end") # {}
    /\ HasRole(ParseHeader(unit), index = 1)
    /\ LET kind   == KindOf(ParseHeader(unit), index = 1)
           header == PaddedLen(Least(Tagged(unit, "end")))
       IN  SubSeq(unit, header + 1, Len(unit)) = Data(kind.len) \o DataFill(kind)

Committed(i) == SubSeq(sink, placed[i].from + 1, placed[i].to)

\* Between calls a writer that has not failed holds nothing but whole HDUs, end
\* to end from the start of the file to the sink's position, and is Empty
\* exactly when it has written none.  Where it writes checksums, the sums of
\* each HDU hold, the streamed ones too.
UsableFileIsWhole ==
    Idle /\ EnsureUsable =>
        /\ pos = Len(sink)
        /\ state = "Empty" <=> sink = <<>>
        /\ \A i \in 1..Len(placed) :
              /\ placed[i].from = (IF i = 1 THEN 0 ELSE placed[i - 1].to)
              /\ WholeUnit(i, Committed(i))
              /\ form.checksums =>
                    LET hdu == HduOf(Unit(sink, placed[i].from), placed[i].from)
                    IN  DatasumValid(sink, hdu) /\ ChecksumValid(sink, hdu)
        /\ Len(sink) = (IF placed = <<>> THEN 0 ELSE placed[Len(placed)].to)

\* A header that has both SIMPLE and XTENSION has two roles.
OneRole(unit) == ~(HasRole(unit, TRUE) /\ HasRole(unit, FALSE))

\* Whatever call the program stops in, a scan of the file finds every HDU
\* committed before it, provided each header has one of SIMPLE and XTENSION and
\* has it first, as every header the writer makes itself does.
ScanFindsCommitted ==
    (\A i \in 1..Len(placed) : Committed(i)[1][1] = "open" /\ OneRole(Committed(i))) =>
        LET found == Scan(sink)
        IN  /\ Len(found) >= Len(placed)
            /\ \A i \in 1..Len(placed) :
                  found[i].offset = placed[i].from /\ DataEnd(found[i]) = placed[i].to

\* A written byte never changes, but for the placeholder sums of the open
\* stream's own header: going back to sign it moves nothing.
OverwritesOnlySignatures ==
    [][\A i \in 1..Len(sink) :
          sink'[i] # sink[i] =>
              /\ i > stream.offset
              /\ sink[i] \in {Placeholder, Datasum(<<>>)}
              /\ sink'[i][1] = sink[i][1]]_vars

\* After a failed write, the writer refuses all later ones: not a byte more, and
\* no way back.
FailedIsFinal ==
    [][state = "Failed" => sink' = sink /\ state' = "Failed"]_vars

Log == INSTANCE HduLog WITH
           Whole <- WholeUnit,
           hdus <- [i \in 1..Len(placed) |-> Committed(i)],
           usable <- EnsureUsable

\* The writer implements the append-only log of whole HDUs: no step changes,
\* drops or reorders one that is committed, and each commit adds whole HDUs.
ImplementsHduLog == Log!LogSpec
================================================================================
