------------------------------ MODULE FitsEditor -------------------------------
(***************************************************************************)
(* `FitsEditor`: edits of a file that exists.                              *)
(*                                                                         *)
(* `replace_header` writes a header over the old one, in the same blocks;  *)
(* the write may stop at any byte, with an error or with the program.      *)
(* `replace_header_into` writes the edited file to a second sink, which    *)
(* the caller renames over the file.  `append` hands the file to a         *)
(* FitsWriter.  The editor keeps its list of HDUs from one scan, and every *)
(* later call trusts it.                                                   *)
(***************************************************************************)
EXTENDS FitsFile

CONSTANTS
    Files,      \* files an editor may open
    Headers,    \* headers a caller may give
    MaxFile,    \* bound on the cells of a file
    MaxFaults   \* bound on the writes that fail or are cut short

\* A file is any cells whose open records give a kind, as a Header reads them.
ASSUME EditorAssumption ==
    /\ \A f \in Files :
          /\ Len(f) \in Nat
          /\ f = [i \in 1..Len(f) |-> f[i]]
          /\ \A i \in 1..Len(f) :
                f[i][1] = "open" => f[i][2] \in [ext : BOOLEAN, ascii : BOOLEAN, len : Nat]
    /\ \A header \in Headers : IsHeader(header)

VARIABLES
    file,       \* the bytes of the file
    hdus,       \* the editor's list, from the scan when it opened
    phase,      \* "open", "writing", "written" (the second sink) or "appending"
    edit,       \* the edit under way: its new HDU and the bytes left to write
    out,        \* the second sink
    torn,       \* the offsets of headers a failed write left half written
    faults      \* how many writes failed or were cut short

vars == <<file, hdus, phase, edit, out, torn, faults>>

NoEdit == [index |-> 0, hdu |-> <<>>, bytes |-> <<>>]

\* `open`.
Init ==
    /\ file \in {f \in Files : Scan(f) # <<>>}
    /\ hdus = Scan(file)
    /\ phase = "open"
    /\ edit = NoEdit
    /\ out = <<>>
    /\ torn = {}
    /\ faults = 0

--------------------------------------------------------------------------------
(* The checks an edit makes, and the header it writes. *)

\* `check_unit`: the header gives the data unit of the HDU, of the same kind.
CheckUnit(index, header) ==
    /\ HasRole(header, index = 1)
    /\ KindOf(header, index = 1) = hdus[index].kind

\* A header with CHECKSUM and no DATASUM needs the data unit read.
MustRead(header) ==
    Tagged(header, "checksum") # {} /\ Tagged(header, "datasum") = {}

\* Mutant: an absent DATASUM counts as zero.
EditSigningUnread(index, header) ==
    IF Tagged(header, "checksum") = {} THEN Unsigned
    ELSE IF MustRead(header) THEN WithDataSum(<<>>)
    ELSE WithDataSum(header[Least(Tagged(header, "datasum"))][2])

\* `data_sum`: unsigned without a CHECKSUM; the DATASUM it declares is trusted.
EditSigning(index, header) ==
    IF Tagged(header, "checksum") = {} THEN Unsigned
    ELSE IF MustRead(header) THEN WithDataSum(DataUnit(file, hdus[index]))
    ELSE WithDataSum(header[Least(Tagged(header, "datasum"))][2])

\* The edits that pass every check but the fit: the data unit is there when the
\* sum must read it.
Accepted(index, header) ==
    /\ index \in 1..Len(hdus)
    /\ CheckUnit(index, header)
    /\ MustRead(header) => DataEnd(hdus[index]) <= Len(file)

--------------------------------------------------------------------------------
(* In place. *)

\* Mutant: the free records are not kept, only the fill of the last block.
FitRenderTight(index, header) ==
    RenderInto(header, EditSigning(index, header), 0)

\* The header unit, in exactly the blocks the old one has.
FitRender(index, header) ==
    RenderBlocks(header, EditSigning(index, header), hdus[index].blocks)

\* Mutant: END is not counted.
FitsWithoutEnd(index, header) ==
    Len(RenderRecords(header, EditSigning(index, header))) <= hdus[index].blocks * B

\* The records and END take no more blocks than the old header has.
Fits(index, header) ==
    NeededBlocks(header, EditSigning(index, header)) <= hdus[index].blocks

\* `replace_header`, up to its first byte: HeaderDoesNotFit, and every other
\* error, leaves the file and the list alone.
ReplaceHeader(index, header) ==
    /\ phase = "open"
    /\ Accepted(index, header)
    /\ Fits(index, header)
    /\ LET unit == FitRender(index, header)
       IN  edit' = [index |-> index, hdu |-> <<HduOf(unit, hdus[index].offset)>>,
                    bytes |-> unit]
    /\ phase' = "writing"
    /\ UNCHANGED <<file, hdus, out, torn, faults>>

\* Where the next byte of the edit goes.
WriteAt == edit.hdu[1].data - Len(edit.bytes)

\* The file takes the next n bytes.
EditWrites(n) ==
    /\ phase = "writing"
    /\ file' = [i \in 1..Len(file) |-> IF i \in WriteAt + 1..WriteAt + n
                                       THEN edit.bytes[i - WriteAt] ELSE file[i]]
    /\ edit' = [edit EXCEPT !.bytes = SubSeq(@, n + 1, Len(@))]
    /\ torn' = torn \union {edit.hdu[1].offset}
    /\ UNCHANGED <<hdus, phase, out, faults>>

\* The seek, a write or the flush fails: the list keeps the old header.
EditFails ==
    /\ phase = "writing"
    /\ faults < MaxFaults
    /\ faults' = faults + 1
    /\ phase' = "open"
    /\ edit' = NoEdit
    /\ UNCHANGED <<file, hdus, out, torn>>

\* Mutant: the list keeps the header it had.
EditDoneStale ==
    /\ phase = "writing"
    /\ edit.bytes = <<>>
    /\ phase' = "open"
    /\ edit' = NoEdit
    /\ torn' = torn \ {edit.hdu[1].offset}
    /\ UNCHANGED <<file, hdus, out, faults>>

\* The end of `replace_header`: the list takes the new header.
EditDone ==
    /\ phase = "writing"
    /\ edit.bytes = <<>>
    /\ hdus' = [hdus EXCEPT ![edit.index] = edit.hdu[1]]
    /\ phase' = "open"
    /\ edit' = NoEdit
    /\ torn' = torn \ {edit.hdu[1].offset}
    /\ UNCHANGED <<file, out, faults>>

--------------------------------------------------------------------------------
(* Into a second file. *)

\* The free records of an HDU's header; none when a repaired header would
\* render to more than its blocks held.
FreeRecords(hdu) ==
    LET room == hdu.blocks * B - 1
    IN  IF room > Len(hdu.header) THEN room - Len(hdu.header) ELSE 0

\* The new header unit, with the free records of the old one.
SpareRender(index, header) ==
    RenderInto(header, EditSigning(index, header), FreeRecords(hdus[index]))

\* Mutant: an HDU is copied up to the end of its data, without the fill.
CopiedUnfilled(index, target, unit) ==
    LET hdu == hdus[index]
    IN  (IF index = target THEN unit ELSE HeaderUnit(file, hdu))
        \o SubSeq(file, hdu.data + 1, hdu.data + hdu.kind.len)

\* One HDU as the second file has it.
Copied(index, target, unit) ==
    LET hdu == hdus[index]
    IN  (IF index = target THEN unit ELSE HeaderUnit(file, hdu)) \o DataUnit(file, hdu)

\* The HDUs from an index on, and the bytes after the last.
CopyAll(target, unit) ==
    LET from[i \in 1..Len(hdus) + 1] ==
            IF i <= Len(hdus) THEN Copied(i, target, unit) \o from[i + 1]
            ELSE SubSeq(file, DataEnd(hdus[Len(hdus)]) + 1, Len(file))
    IN  from[1]

\* `replace_header_into`, when every range is there to copy.  A failure leaves a
\* sink the caller does not rename.
ReplaceHeaderInto(index, header) ==
    /\ phase = "open"
    /\ Accepted(index, header)
    /\ DataEnd(hdus[Len(hdus)]) <= Len(file)
    /\ LET unit == SpareRender(index, header)
       IN  /\ out' = CopyAll(index, unit)
           /\ edit' = [index |-> index, hdu |-> <<HduOf(unit, hdus[index].offset)>>,
                       bytes |-> <<>>]
    /\ Len(out') <= MaxFile
    /\ phase' = "written"
    /\ UNCHANGED <<file, hdus, torn, faults>>

\* The caller renames the second file over the first and opens it, or keeps the
\* editor on the file, which is as it was.
Rename ==
    /\ phase = "written"
    /\ Scan(out) # <<>>
    /\ file' = out
    /\ hdus' = Scan(out)
    /\ torn' = LET at == hdus[edit.index]
                   by == edit.hdu[1].data - at.data
               IN  {IF o > at.offset THEN o + by ELSE o : o \in torn \ {at.offset}}
    /\ phase' = "open"
    /\ edit' = NoEdit
    /\ out' = <<>>
    /\ UNCHANGED faults

Discard ==
    /\ phase = "written"
    /\ phase' = "open"
    /\ edit' = NoEdit
    /\ out' = <<>>
    /\ UNCHANGED <<file, hdus, torn, faults>>

--------------------------------------------------------------------------------
(* The ends of an editor. *)

\* Mutant: bytes after the last HDU do not stop an append.
AppendAnywhere ==
    /\ phase = "open"
    /\ phase' = "appending"
    /\ UNCHANGED <<file, hdus, edit, out, torn, faults>>

\* `append`: the file must end where its last HDU does.
AppendHdus ==
    /\ phase = "open"
    /\ Len(file) = DataEnd(hdus[Len(hdus)])
    /\ phase' = "appending"
    /\ UNCHANGED <<file, hdus, edit, out, torn, faults>>

\* The program stops, in the middle of an edit or not, and an editor is opened
\* on what is there.
Reopen ==
    /\ \/ phase = "open" /\ faults' = faults
       \/ phase = "writing" /\ faults < MaxFaults /\ faults' = faults + 1
    /\ Scan(file) # <<>>
    /\ hdus' = Scan(file)
    /\ phase' = "open"
    /\ edit' = NoEdit
    /\ UNCHANGED <<file, out, torn>>

Next ==
    \/ \E index \in 1..Len(hdus), header \in Headers : ReplaceHeader(index, header)
    \/ \E n \in 1..Len(edit.bytes) : EditWrites(n)
    \/ EditFails
    \/ EditDone
    \/ \E index \in 1..Len(hdus), header \in Headers : ReplaceHeaderInto(index, header)
    \/ Rename
    \/ Discard
    \/ AppendHdus
    \/ Reopen

Spec == Init /\ [][Next]_vars

--------------------------------------------------------------------------------
(* Properties. *)

\* Type invariant: a list is never empty, its HDUs follow one another in the
\* file, and an edit keeps the place of the HDU it edits.
TypeOK ==
    /\ phase \in {"open", "writing", "written", "appending"}
    /\ Len(hdus) > 0
    /\ \A i \in 1..Len(hdus) :
          /\ hdus[i].data = hdus[i].offset + hdus[i].blocks * B
          /\ hdus[i].offset = (IF i = 1 THEN 0 ELSE DataEnd(hdus[i - 1]))
          /\ hdus[i].data <= Len(file)
    /\ edit # NoEdit => edit.hdu[1].offset = hdus[edit.index].offset

\* Every header of the list has its SIMPLE or XTENSION first.
AllOpenFirst == \A i \in 1..Len(hdus) : OpensFirst(hdus[i].header, i = 1)

\* The list is what a new scan of the file would find, after any sequence of
\* edits, once each header a failed write tore has been written again: an edit
\* that failed is undone, or done, by one that succeeds.
ListIsScan ==
    phase # "writing" /\ torn = {} /\ AllOpenFirst => hdus = Scan(file)

\* "An edit cannot break a file": after edits that all succeed, a new scan
\* still finds every HDU of the list.
EditKeepsHdus ==
    phase # "writing" /\ torn = {} => Len(Scan(file)) = Len(hdus)

\* An edit in place changes no byte outside the blocks of the header it
\* replaces, and no length: not the data unit, nor any other HDU.
OnlyTheHeaderChanges ==
    [][phase = "writing" =>
          /\ Len(file') = Len(file)
          /\ \A i \in 1..Len(file) : file'[i] # file[i] =>
                i \in hdus[edit.index].offset + 1..hdus[edit.index].data]_vars

\* The header declares a DATASUM that is not its data's, as some caller gave it.
WrongSum(header, data) ==
    LET at == Tagged(header, "datasum")
    IN  at # {} /\ LET sum == header[Least(at)][2]
                   IN  /\ sum # data
                       /\ \E h \in Headers : \E i \in Tagged(h, "datasum") : h[i][2] = sum

\* In each HDU of a list that is all in the file, and whose header is not torn, a
\* CHECKSUM is that of the header and the data, unless the header came with a DATASUM
\* that was wrong, which the editor trusts.
SumsHold(f, list, t) ==
    \A i \in 1..Len(list) :
        list[i].offset \notin t /\ DataEnd(list[i]) <= Len(f) =>
            ChecksumValid(f, list[i]) \/ WrongSum(list[i].header, DataUnit(f, list[i]))

\* CHECKSUM stays valid: after any sequence of edits and failed edits, the sums of the
\* editor's list hold.
ChecksumStaysValid == phase = "open" => SumsHold(file, hdus, torn)

\* What that takes: the sums of the files hold, or are a caller's, and an editor is
\* opened on a file only when no header of it is torn.
FilesSound == \A f \in Files : SumsHold(f, Scan(f), {})
RescansWhole == [][Reopen \/ Rename => torn' = {}]_vars

\* The second file is the first with one header unit for another: every byte
\* before it and after it is there, the bytes after the last HDU too, and the
\* new header has at least the free records of the old.
SecondFileIsSplice ==
    phase = "written" =>
        LET old == hdus[edit.index]
            new == edit.hdu[1]
        IN  /\ SubSeq(out, 1, old.offset) = SubSeq(file, 1, old.offset)
            /\ SubSeq(out, new.data + 1, Len(out)) = SubSeq(file, old.data + 1, Len(file))
            /\ FreeRecords(new) >= old.blocks * B - 1 - Len(old.header)

\* A writer that continues the file starts where a scan ends: the file is whole
\* HDUs and nothing after them.
AppendContinuesWhole ==
    phase = "appending" /\ torn = {} /\ AllOpenFirst =>
        LET found == Scan(file)
        IN  /\ found = hdus
            /\ DataEnd(found[Len(found)]) = Len(file)
================================================================================
