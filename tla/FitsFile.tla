------------------------------- MODULE FitsFile --------------------------------
(***************************************************************************)
(* The bytes of a FITS file as the writer, the editor and the scan share   *)
(* them: `block`, `Header::render_into`, `Header::parse`, `HduKind` and    *)
(* `Hdus::scan`.                                                           *)
(*                                                                         *)
(* A file is a sequence of cells.  In a header a cell is one 80-byte       *)
(* record, in a data unit it is as many bytes.  A block has B cells        *)
(* (RECORDS_PER_BLOCK, 36 in the code).  A cell is a pair of its tag and   *)
(* its content.                                                            *)
(*                                                                         *)
(* A header is the sequence of its records.  The keywords that give an HDU *)
(* its place, kind and size (SIMPLE or XTENSION, BITPIX, NAXISn, PCOUNT,   *)
(* GCOUNT) are one "open" record.  A checksum sum is the sequence of the   *)
(* cells summed, which tells apart whatever the real sum does.             *)
(***************************************************************************)
EXTENDS Integers, Sequences

CONSTANT B

ASSUME BAssumption == B \in Nat \ {0}

Open(ext, ascii, len) == <<"open", [ext |-> ext, ascii |-> ascii, len |-> len]>>
Card(k) == <<"card", k>>
Datasum(sum) == <<"datasum", sum>>
Placeholder == <<"checksum", <<>>>>
Checksum(unit, sum) == <<"checksum", <<unit, sum>>>>
Blank == <<"blank", 0>>
EndRecord == <<"end", 0>>
Zero == <<"zero", 0>>

\* n copies of a cell.
Fill(cell, n) == [i \in 1..n |-> cell]

\* The data unit a write of n cells carries.
Data(n) == [i \in 1..n |-> <<"data", i>>]

\* Where the cells with a tag are, and the first of them.
Tagged(cells, tag) == {i \in 1..Len(cells) : cells[i][1] = tag}
Least(S) == CHOOSE i \in S : \A j \in S : i <= j

\* The records of a Header: Header::parse stops at END, so no record is END.
IsHeader(header) ==
    /\ Len(header) \in Nat
    /\ header = [i \in 1..Len(header) |-> header[i]]
    /\ \A i \in 1..Len(header) :
          \/ /\ header[i][1] = "open"
             /\ header[i][2] \in [ext : BOOLEAN, ascii : BOOLEAN, len : Nat]
          \/ header[i][1] \in {"card", "datasum", "checksum"}
          \/ header[i] = Blank

--------------------------------------------------------------------------------
(* The block grid. *)

\* `block::padding`.
Padding(len) == (B - (len % B)) % B

\* `block::padded_len`.
PaddedLen(len) == ((len + B - 1) \div B) * B

\* The block fill of a data unit: spaces for an ASCII table, NULs otherwise.
DataFill(kind) == Fill(IF kind.ascii THEN Blank ELSE Zero, Padding(kind.len))

--------------------------------------------------------------------------------
(* Rendering a header. *)

Unsigned == [signs |-> FALSE, final |-> FALSE, sum |-> <<>>]
Unfinished == [signs |-> TRUE, final |-> FALSE, sum |-> <<>>]
WithDataSum(sum) == [signs |-> TRUE, final |-> TRUE, sum |-> sum]

\* A record set in its place, or after the others when the header has none.
SetRecord(header, cell) ==
    IF Tagged(header, cell[1]) = {}
    THEN Append(header, cell)
    ELSE [header EXCEPT ![Least(Tagged(header, cell[1]))] = cell]

\* `render_records`: the first DATASUM and the first CHECKSUM are signed where
\* they are, and a missing one follows the records.
RenderRecords(header, signing) ==
    IF signing.signs
    THEN SetRecord(SetRecord(header, Datasum(signing.sum)), Placeholder)
    ELSE header

\* `render_into` with Space::Spare: the records, the blank ones, END and the
\* fill, and then CHECKSUM over all of it.
RenderInto(header, signing, spare) ==
    LET records == RenderRecords(header, signing)
        unit    == records \o Fill(Blank, spare) \o <<EndRecord>>
        out     == unit \o Fill(Blank, Padding(Len(unit)))
    IN  IF signing.final
        THEN [out EXCEPT ![Least(Tagged(records, "checksum"))]
                             = Checksum(out, signing.sum)]
        ELSE out

\* The blocks a header needs, which Space::Blocks compares with those it has.
NeededBlocks(header, signing) ==
    PaddedLen(Len(RenderRecords(header, signing)) + 1) \div B

\* `render_into` with Space::Blocks, of a header that fits.
RenderBlocks(header, signing, blocks) ==
    RenderInto(header, signing,
               blocks * B - Len(RenderRecords(header, signing)) - 1)

--------------------------------------------------------------------------------
(* Reading one back. *)

\* `Header::parse` of a unit that holds END: the blank records before END are
\* space, not content.
ParseHeader(unit) ==
    LET end  == Least(Tagged(unit, "end"))
        kept == {n \in 0..end - 1 : \A i \in n + 1..end - 1 : unit[i] = Blank}
    IN  SubSeq(unit, 1, Least(kept))

\* `HduKind::from_header` looks its keyword up wherever it stands.
Roles(header, primary) ==
    {i \in Tagged(header, "open") : header[i][2].ext = ~primary}
HasRole(header, primary) == Roles(header, primary) # {}
KindOf(header, primary) == header[Least(Roles(header, primary))][2]

\* The scan instead wants it in the first record of the unit.
OpensFirst(unit, primary) ==
    unit[1][1] = "open" /\ unit[1][2].ext = ~primary

\* `Hdu::parse` of the header unit at an offset.
HduOf(unit, offset) ==
    LET header == ParseHeader(unit)
    IN  [offset |-> offset, header |-> header, kind |-> KindOf(header, offset = 0),
         blocks |-> Len(unit) \div B, data |-> offset + Len(unit)]

DataEnd(hdu) == hdu.data + PaddedLen(hdu.kind.len)

\* `next_header`: the blocks from an offset that hold END, all inside the file.
EndBlocks(file, offset) ==
    {n \in 1..(Len(file) - offset) \div B :
        \E i \in 1..B : file[offset + (n - 1) * B + i] = EndRecord}

Unit(file, offset) == SubSeq(file, offset + 1, offset + Least(EndBlocks(file, offset)) * B)

Found(file, offset) ==
    /\ Len(file) - offset >= B
    /\ OpensFirst(SubSeq(file, offset + 1, offset + B), offset = 0)
    /\ EndBlocks(file, offset) # {}

\* `Hdus::scan`: each HDU found from the start of the file, until a unit that
\* is no header.  A data unit past the end of the file ends the scan.
Scan(file) ==
    LET from[offset \in 0..Len(file)] ==
            IF ~Found(file, offset) THEN <<>>
            ELSE LET hdu  == HduOf(Unit(file, offset), offset)
                     next == DataEnd(hdu)
                 IN  <<hdu>> \o (IF next <= Len(file) THEN from[next] ELSE <<>>)
    IN  from[0]

--------------------------------------------------------------------------------
(* What a reader can tell of an HDU. *)

HeaderUnit(file, hdu) == SubSeq(file, hdu.offset + 1, hdu.data)
DataUnit(file, hdu) == SubSeq(file, hdu.data + 1, DataEnd(hdu))

\* DATASUM is the sum of the data unit, when the header holds one.
DatasumValid(file, hdu) ==
    LET at == Tagged(hdu.header, "datasum")
    IN  at # {} => hdu.header[Least(at)][2] = DataUnit(file, hdu)

\* CHECKSUM makes the HDU sum to negative zero: it was computed over this very
\* header, with the placeholder in its place, and this data.
ChecksumValid(file, hdu) ==
    LET unit == HeaderUnit(file, hdu)
        at   == Tagged(unit, "checksum")
    IN  at # {} => unit[Least(at)] = Checksum([unit EXCEPT ![Least(at)] = Placeholder],
                                              DataUnit(file, hdu))
================================================================================
