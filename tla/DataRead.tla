------------------------------- MODULE DataRead --------------------------------
(***************************************************************************)
(* The reader's way to bytes: `StreamSource`, which remembers where its    *)
(* stream stands and seeks only when it must, and `DataChecksum`, which    *)
(* sums an HDU's data unit from the reads that happen to continue it.      *)
(*                                                                         *)
(* A byte is named by its offset in the file, so what a read returns shows *)
(* where the stream really stood.  A seek or a read may fail at any point  *)
(* and leave the stream anywhere; the file may lose its end while it is    *)
(* open, as its length is asked once.  Reads of other HDUs, of headers and *)
(* of tables come between those of the image that is summed.               *)
(***************************************************************************)
EXTENDS Integers, Sequences

CONSTANTS
    Size,       \* the length of the source when it was opened
    UnitStart,  \* the offset of the data unit that is summed
    UnitEnd,    \* the offset after its block fill
    Chunk,      \* the bytes of one staged read
    MaxReads    \* bound on the reads one handle makes

ASSUME SizeAssumption == Size \in Nat
ASSUME UnitAssumption == UnitStart \in Nat /\ UnitEnd \in Nat /\ UnitStart <= UnitEnd
ASSUME ChunkAssumption == Chunk \in Nat \ {0}
ASSUME ReadsAssumption == MaxReads \in Nat

None == -1

VARIABLES
    actual,     \* the length of the file now
    cursor,     \* where the stream stands
    position,   \* StreamSource::position, None when not known
    op,         \* the read under way
    got,        \* what the last successful read asked and was given
    next,       \* DataChecksum::next
    summed,     \* the bytes DataChecksum::sum holds, in order
    finishing,  \* ImageReader::finish is under way
    verdict,    \* the bytes the last finish judged, <<>> before one
    reads       \* how many reads this handle has made

stream == <<cursor, position>>
sum == <<next, summed>>
vars == <<actual, cursor, position, op, got, next, summed, finishing, verdict, reads>>

\* The n bytes the stream gives from where it stands.
Bytes(at, n) == [i \in 1..n |-> at + i - 1]

Lesser(a, b) == IF a <= b THEN a ELSE b

Idle == [at |-> "idle", kind |-> "append", offset |-> 0, len |-> 0, feeds |-> FALSE]

Nothing == [offset |-> 0, len |-> 0, bytes |-> <<>>]

\* `StreamSource::new` seeks to the end for the length.
Init ==
    /\ actual = Size
    /\ cursor = Size
    /\ position = Size
    /\ op = Idle
    /\ got = Nothing
    /\ next = UnitStart
    /\ summed = <<>>
    /\ finishing = FALSE
    /\ verdict = <<>>
    /\ reads = 0

--------------------------------------------------------------------------------
(* StreamSource. *)

\* `check_range`: a range past the length asked at the start is refused.
CheckRange(offset, len) == offset + len <= Size

\* A read begins, into the caller's buffer or appended to a Vec.
Begin(kind, offset, len, feeds) ==
    /\ op = Idle
    /\ CheckRange(offset, len)
    /\ op' = [at |-> "seek", kind |-> kind, offset |-> offset, len |-> len, feeds |-> feeds]

\* `seek_to`: the stream is already there.
SeekNone ==
    /\ op.at = "seek"
    /\ position = op.offset
    /\ op' = [op EXCEPT !.at = "read"]
    /\ UNCHANGED <<actual, stream, got, sum, finishing, verdict, reads>>

\* Mutant: the hop goes the other way.
SeekRelativeReversed ==
    /\ op.at = "seek"
    /\ position # None
    /\ position # op.offset
    /\ cursor' = cursor + (position - op.offset)
    /\ position' = None
    /\ op' = [op EXCEPT !.at = "read"]
    /\ UNCHANGED <<actual, got, sum, finishing, verdict, reads>>

\* `seek_to`: a hop from the position, which is not known until the read ends.
SeekRelative ==
    /\ op.at = "seek"
    /\ position # None
    /\ position # op.offset
    /\ cursor' = cursor + (op.offset - position)
    /\ position' = None
    /\ op' = [op EXCEPT !.at = "read"]
    /\ UNCHANGED <<actual, got, sum, finishing, verdict, reads>>

\* `seek_to`: from the start of the file.
SeekStart ==
    /\ op.at = "seek"
    /\ position = None
    /\ cursor' = op.offset
    /\ op' = [op EXCEPT !.at = "read"]
    /\ UNCHANGED <<actual, position, got, sum, finishing, verdict, reads>>

\* A read, or a finish, returns its error.
Abandon ==
    /\ op' = Idle
    /\ finishing' = FALSE

\* Mutant: a hop that fails keeps the position it left.
SeekFailsKept ==
    /\ op.at = "seek"
    /\ position # op.offset
    /\ cursor' \in 0..Size
    /\ Abandon
    /\ UNCHANGED <<actual, position, got, sum, verdict, reads>>

\* A seek fails, and the stream may stand anywhere.
SeekFails ==
    /\ op.at = "seek"
    /\ position # op.offset
    /\ cursor' \in 0..Size
    /\ position' = None
    /\ Abandon
    /\ UNCHANGED <<actual, got, sum, verdict, reads>>

\* `try_reserve` fails between the seek and the read of an append.
AllocationFails ==
    /\ op.at = "read"
    /\ op.kind = "append"
    /\ Abandon
    /\ UNCHANGED <<actual, stream, got, sum, verdict, reads>>

--------------------------------------------------------------------------------
(* DataChecksum::feed. *)

\* The bytes of a run at an offset that come before the next one to sum.
Skip(offset) == next - offset

\* A run continues the sum when it starts at or before the next byte to sum and
\* reaches past it.
Continues(offset, len) ==
    Skip(offset) >= 0 /\ Skip(offset) < len /\ next < UnitEnd

\* The bytes of the run that are summed.
Take(offset, len) == Lesser(len - Skip(offset), UnitEnd - next)

\* Mutant: the bytes already summed are not skipped.
FeedUnskipped(offset, bytes) ==
    IF Continues(offset, Len(bytes))
    THEN LET take == Take(offset, Len(bytes))
         IN  /\ next' = next + take
             /\ summed' = summed \o [i \in 1..take |-> bytes[i]]
    ELSE UNCHANGED sum

\* `feed` of the bytes a read at an offset gave.
Feed(offset, bytes) ==
    IF Continues(offset, Len(bytes))
    THEN LET skip == Skip(offset)
             take == Take(offset, Len(bytes))
         IN  /\ next' = next + take
             /\ summed' = summed \o [i \in 1..take |-> bytes[skip + i]]
    ELSE UNCHANGED sum

--------------------------------------------------------------------------------
(* The end of a read. *)

\* Mutant: the position is where the read started.
ReadOkStale ==
    LET bytes == Bytes(cursor, op.len)
    IN  /\ op.at = "read"
        /\ cursor + op.len <= actual
        /\ cursor' = cursor + op.len
        /\ position' = op.offset
        /\ got' = [offset |-> op.offset, len |-> op.len, bytes |-> bytes]
        /\ IF op.feeds THEN Feed(op.offset, bytes) ELSE UNCHANGED sum
        /\ op' = Idle
        /\ UNCHANGED <<actual, finishing, verdict, reads>>

\* The whole range is read; the sum, when this read feeds it, takes what
\* continues it.
ReadOk ==
    LET bytes == Bytes(cursor, op.len)
    IN  /\ op.at = "read"
        /\ cursor + op.len <= actual
        /\ cursor' = cursor + op.len
        /\ position' = op.offset + op.len
        /\ got' = [offset |-> op.offset, len |-> op.len, bytes |-> bytes]
        /\ IF op.feeds THEN Feed(op.offset, bytes) ELSE UNCHANGED sum
        /\ op' = Idle
        /\ UNCHANGED <<actual, finishing, verdict, reads>>

\* The bytes left before the end of the file.
Left == IF cursor < actual THEN actual - cursor ELSE 0

\* The file ends inside the range.  `read_at` knows how far it came, and
\* `read_into` does not.
ReadShort ==
    /\ op.at = "read"
    /\ cursor + op.len > actual
    /\ cursor' = cursor + Left
    /\ position' = IF op.kind = "append" THEN op.offset + Left ELSE None
    /\ Abandon
    /\ UNCHANGED <<actual, got, sum, verdict, reads>>

\* The read fails part way.
ReadFails ==
    /\ op.at = "read"
    /\ cursor' \in cursor..cursor + op.len
    /\ position' = None
    /\ Abandon
    /\ UNCHANGED <<actual, got, sum, verdict, reads>>

--------------------------------------------------------------------------------
(* The reader over it. *)

\* A read of the image: a run of its stored bytes, in any order the caller asks,
\* fed to the sum as it lands.
ReadImage ==
    /\ ~finishing
    /\ reads < MaxReads
    /\ reads' = reads + 1
    /\ \E kind \in {"append", "into"}, offset \in UnitStart..UnitEnd, len \in 1..UnitEnd :
          offset + len <= UnitEnd /\ Begin(kind, offset, len, TRUE)
    /\ UNCHANGED <<actual, stream, got, sum, finishing, verdict>>

\* Any other read of the file.
ReadOther ==
    /\ ~finishing
    /\ reads < MaxReads
    /\ reads' = reads + 1
    /\ \E kind \in {"append", "into"}, offset \in 0..Size, len \in {1, Chunk} :
          Begin(kind, offset, len, FALSE)
    /\ UNCHANGED <<actual, stream, got, sum, finishing, verdict>>

\* `finish` begins: what is not summed will be read.
StartFinish ==
    /\ op = Idle
    /\ ~finishing
    /\ finishing' = TRUE
    /\ UNCHANGED <<actual, stream, op, got, sum, verdict, reads>>

\* `chunks`: the next chunk of what is left, refused when the file never held it.
FinishChunk ==
    LET len == Lesser(Chunk, UnitEnd - next)
    IN  /\ finishing
        /\ op = Idle
        /\ next < UnitEnd
        /\ \/ Begin("append", next, len, TRUE) /\ UNCHANGED finishing
           \/ ~CheckRange(next, len) /\ Abandon
        /\ UNCHANGED <<actual, stream, got, sum, verdict, reads>>

\* Mutant: the finish does not wait for the last chunk.
FinishEarly ==
    /\ finishing
    /\ op = Idle
    /\ verdict' = summed
    /\ finishing' = FALSE
    /\ next' = UnitStart
    /\ summed' = <<>>
    /\ reads' = 0
    /\ UNCHANGED <<actual, stream, op, got>>

\* The unit is summed whole and judged; a new handle starts a new sum.
FinishDone ==
    /\ finishing
    /\ op = Idle
    /\ next = UnitEnd
    /\ verdict' = summed
    /\ finishing' = FALSE
    /\ next' = UnitStart
    /\ summed' = <<>>
    /\ reads' = 0
    /\ UNCHANGED <<actual, stream, op, got>>

\* The handle is dropped, after a finish that failed or without one.
NewHandle ==
    /\ op = Idle
    /\ ~finishing
    /\ next' = UnitStart
    /\ summed' = <<>>
    /\ reads' = 0
    /\ UNCHANGED <<actual, stream, op, got, finishing, verdict>>

\* Another program truncates the file.
Truncate ==
    /\ actual > 0
    /\ actual' = actual - 1
    /\ UNCHANGED <<stream, op, got, sum, finishing, verdict, reads>>

Next ==
    \/ ReadImage \/ ReadOther
    \/ SeekNone \/ SeekRelative \/ SeekStart \/ SeekFails \/ AllocationFails
    \/ ReadOk \/ ReadShort \/ ReadFails
    \/ StartFinish \/ FinishChunk \/ FinishDone \/ NewHandle
    \/ Truncate

Spec == Init /\ [][Next]_vars

--------------------------------------------------------------------------------
(* Properties. *)

\* Type invariant.
TypeOK ==
    /\ actual \in 0..Size
    /\ cursor \in Nat
    /\ position \in Nat \union {None}
    /\ op \in [at : {"idle", "seek", "read"}, kind : {"append", "into"},
               offset : Nat, len : Nat, feeds : BOOLEAN]
    /\ next \in UnitStart..UnitEnd
    /\ finishing \in BOOLEAN
    /\ reads \in 0..MaxReads

\* The remembered position is where the stream stands, whatever failed before:
\* a wrong one would make later reads return other bytes without an error.
PositionIsCursor == position # None => position = cursor

\* A read that succeeds gives the bytes it asked for.
ReadsWhatItAsked == got.bytes = Bytes(got.offset, got.len)

\* The sum holds each byte of the unit before `next` once, in file order,
\* whatever reads overlapped, repeated or failed.
SumIsPrefix == summed = Bytes(UnitStart, next - UnitStart)

\* A verdict is on the whole unit, its fill too, and on nothing else.
VerdictIsOfWholeUnit ==
    verdict # <<>> => verdict = Bytes(UnitStart, UnitEnd - UnitStart)
================================================================================
