------------------------------ MODULE HeaderModel ------------------------------
(***************************************************************************)
(* `header_model/mod.rs` and `record.rs`: a header is an ordered vector of *)
(* records and a side index from each keyword and HIERARCH name to its     *)
(* first record.  A parse fills both card by card; single edits maintain   *)
(* the index in place and bulk edits rebuild it.                           *)
(*                                                                         *)
(* A record is its kind, its name, what its value or text is for the       *)
(* control flow, and whether it has an inline comment.  A text value is    *)
(* "open" when it ends with the continuation flag `&`; a commentary text   *)
(* is "cont" when it spells a quoted CONTINUE substring.  The code's two   *)
(* hash maps have disjoint keys and are one function here, 0 standing for  *)
(* an absent entry; positions count from 1.                                *)
(*                                                                         *)
(* An operation that returns Err leaves the header as it was: the errors   *)
(* are the negations of the guards.                                        *)
(***************************************************************************)
EXTENDS Integers, Sequences, FiniteSets

CONSTANTS
    KeyTexts,       \* texts of Keyword names
    HierTexts,      \* texts of HierarchName names
    CommTexts,      \* texts of CommentaryName names, "" the blank one
    MaxRecords,     \* bound on the length of a header
    MaxSource       \* bound on the length of a header appended from

ASSUME BoundsAssumption == MaxRecords \in Nat /\ MaxSource \in Nat

VARIABLES
    records,        \* Header::records
    index,          \* Header::index and Header::hierarch_index
    phase           \* "parsing" inside Header::parse, then "ready" or "failed"

vars == <<records, index, phase>>

Key(t) == <<"key", t>>
Hier(t) == <<"hier", t>>
Comm(t) == <<"comm", t>>
NoName == <<"none", "">>

IndexNames == {Key(t) : t \in KeyTexts} \union {Hier(t) : t \in HierTexts}
CommNames == {Comm(t) : t \in CommTexts}
RecordNames == IndexNames \union CommNames

\* validate_valued_keyword: the names a valued record cannot be given.
Reserved == {Key(t) : t \in {"END", "CONTINUE", "COMMENT", "HISTORY"}}

Values == {"text", "open"}
Comments == {"none", "some"}

Rec(kind, name, value, comment) ==
    [kind |-> kind, name |-> name, value |-> value, comment |-> comment]

ValuedKind(name) == IF name[1] = "key" THEN "valued" ELSE "hierarch"

\* Record::valued, and the replacement of a malformed record in place.
Valued(name, value, comment) == Rec(ValuedKind(name), name, value, comment)
Commentary(name, text) == Rec("commentary", name, text, "none")
Malformed(name) == Rec("malformed", name, "none", "none")

CommentaryRecords ==
    {Commentary(c, t) : c \in CommNames, t \in {"none", "text"}}
        \union {Commentary(c, "cont") : c \in CommNames \intersect {Comm("CONTINUE")}}

Records ==
    {Valued(n, v, c) : n \in IndexNames, v \in Values, c \in Comments}
        \union CommentaryRecords
        \union {Malformed(n) : n \in RecordNames \union {NoName}}

--------------------------------------------------------------------------------
(* Record: what names a record *)

\* Record::keyword and Record::hierarch_name: the name the index knows a record
\* by, NoName for a commentary record and a malformed one without such a name.
IndexName(r) == IF r.kind # "commentary" /\ r.name \in IndexNames THEN r.name ELSE NoName

\* Record::is_named: a keyword also names a commentary record of its text.
IsNamed(r, name) ==
    \/ r.name = name
    \/ /\ name[1] = "key"
       /\ r.name = Comm(name[2])

--------------------------------------------------------------------------------
(* The index *)

Hits(rs, name, from) == {j \in from .. Len(rs) : IndexName(rs[j]) = name}

\* The first record at or after `from` the index finds by `name`; 0 for none.
FirstFrom(rs, name, from) ==
    IF Hits(rs, name, from) = {} THEN 0
    ELSE CHOOSE j \in Hits(rs, name, from) : \A k \in Hits(rs, name, from) : j <= k

\* Header::reindex.
Reindex(rs) == [name \in IndexNames |-> FirstFrom(rs, name, 1)]

InsertRecord(rs, i, r) ==
    [j \in 1 .. Len(rs) + 1 |-> IF j < i THEN rs[j] ELSE IF j = i THEN r ELSE rs[j - 1]]

RemoveRecord(rs, i) ==
    [j \in 1 .. Len(rs) - 1 |-> IF j < i THEN rs[j] ELSE rs[j + 1]]

Lesser(a, b) == IF a <= b THEN a ELSE b

\* Mutant: a new record never takes over an entry a later one has.
InsertIndexKeepsLater(ix, i, r) ==
    LET shifted == [n \in IndexNames |-> IF ix[n] >= i THEN ix[n] + 1 ELSE ix[n]]
    IN  [n \in IndexNames |-> IF n = IndexName(r) /\ shifted[n] = 0 THEN i ELSE shifted[n]]

\* Header::insert_at, the index half: entries at or after i move up, and the
\* record at i is indexed when it is now the first of its name.
InsertIndex(ix, i, r) ==
    LET shifted == [n \in IndexNames |-> IF ix[n] >= i THEN ix[n] + 1 ELSE ix[n]]
    IN  [n \in IndexNames |->
            IF n # IndexName(r) THEN shifted[n]
            ELSE IF shifted[n] = 0 THEN i
            ELSE Lesser(shifted[n], i)]

\* Mutant: the entry of a removed first record stays where it was.
TakeIndexKeepsEntry(ix, rs, i) ==
    [n \in IndexNames |-> IF ix[n] > i THEN ix[n] - 1 ELSE ix[n]]

\* Header::take_at, the index half: entries after i move down, and a first
\* record that goes gives its entry to the next of its name.
TakeIndex(ix, rs, i) ==
    LET shifted == [n \in IndexNames |-> IF ix[n] > i THEN ix[n] - 1 ELSE ix[n]]
    IN  [n \in IndexNames |->
            IF n = IndexName(rs[i]) /\ shifted[n] = i
            THEN FirstFrom(RemoveRecord(rs, i), n, i)
            ELSE shifted[n]]

\* Header::first: a commentary name has no entry.
First(name) == IF name \in IndexNames THEN index[name] ELSE 0

\* Mutant: the search stops before the indexed record.
IndexOfExclusive(name) ==
    LET end == IF First(name) = 0 THEN Len(records) ELSE First(name) - 1
        hits == {j \in 1 .. end : IsNamed(records[j], name)}
    IN  IF hits = {} THEN 0 ELSE CHOOSE j \in hits : \A k \in hits : j <= k

\* Header::index_of: the first record so named among those up to the indexed
\* one, as only a commentary record can come before it; 0 for none.
IndexOf(name) ==
    LET end == IF First(name) = 0 THEN Len(records) ELSE First(name)
        hits == {j \in 1 .. end : IsNamed(records[j], name)}
    IN  IF hits = {} THEN 0 ELSE CHOOSE j \in hits : \A k \in hits : j <= k

--------------------------------------------------------------------------------
(* Parsing: Header::parse, one card at a time *)

Init ==
    /\ records = <<>>
    /\ index = Reindex(<<>>)
    /\ phase = "parsing"

InsertAt(i, r) ==
    /\ Len(records) < MaxRecords
    /\ records' = InsertRecord(records, i, r)
    /\ index' = InsertIndex(index, i, r)

PushRecord(r) == InsertAt(Len(records) + 1, r)

\* fold_continuation's match: the last record is a text value that ends with `&`.
AwaitsContinuation(rs) ==
    /\ rs # <<>>
    /\ rs[Len(rs)].kind \in {"valued", "hierarch"}
    /\ rs[Len(rs)].value = "open"

Folded(r, value, fragment) ==
    Rec(r.kind, r.name, value, IF fragment = "none" THEN r.comment ELSE "some")

\* A card that is a record of its own.
ParseRecord ==
    /\ phase = "parsing"
    /\ \E r \in Records : /\ r.value # "cont"
                          /\ PushRecord(r)
    /\ UNCHANGED phase

\* A CONTINUE card extends the text before it, with its comment, and may leave
\* it open.  Neither index changes: the record keeps its name and place.
ParseContinue ==
    /\ phase = "parsing"
    /\ AwaitsContinuation(records)
    /\ \E value \in Values, fragment \in Comments :
          records' = [records EXCEPT ![Len(records)] = Folded(@, value, fragment)]
    /\ UNCHANGED <<index, phase>>

\* A CONTINUE card after anything else is kept as commentary.
ParseOrphanContinue ==
    /\ phase = "parsing"
    /\ ~AwaitsContinuation(records)
    /\ \E r \in CommentaryRecords : /\ r.value = "cont"
                                    /\ PushRecord(r)
    /\ UNCHANGED phase

IsBlank(r) == r = Commentary(Comm(""), "none")

\* END: the blank records before it are space for later records, and go.
ParseEnd ==
    /\ phase = "parsing"
    /\ \E n \in 0 .. Len(records) :
          /\ \A j \in n + 1 .. Len(records) : IsBlank(records[j])
          /\ n > 0 => ~IsBlank(records[n])
          /\ records' = SubSeq(records, 1, n)
    /\ phase' = "ready"
    /\ UNCHANGED index

\* The bytes end before END: Err(MissingEnd), and no header comes of them.
ParseMissingEnd ==
    /\ phase = "parsing"
    /\ phase' = "failed"
    /\ UNCHANGED <<records, index>>

--------------------------------------------------------------------------------
(* Edits *)

Settable(name) == name \in IndexNames /\ name \notin Reserved

\* Header::replace_value: a valued record keeps its comment, and a malformed one
\* is replaced in its place by a valued record of its name.
Replacement(r, value) ==
    IF r.kind = "malformed" THEN Valued(r.name, value, "none")
    ELSE Rec(r.kind, r.name, value, r.comment)

\* Header::set, and Header::set_optional of Some.
Set(name, value) ==
    /\ Settable(name)
    /\ \/ /\ First(name) # 0
          /\ records' = [records EXCEPT ![First(name)] = Replacement(@, value)]
          /\ UNCHANGED index
       \/ /\ First(name) = 0
          /\ PushRecord(Valued(name, value, "none"))

\* Header::insert, Header::append and Header::insert_record.  A malformed record
\* goes in as it is; a valued one needs a name it may carry, and a commentary
\* one must read back as itself, which a quoted CONTINUE does not.
Insertable(r) ==
    /\ r.kind # "malformed" => r.name \notin Reserved
    /\ r.value # "cont"

InsertEdit(i, r) == Insertable(r) /\ InsertAt(i, r)

\* Header::remove_at, and Header::remove of the record index_of finds.
RemoveAt(i) ==
    /\ records' = RemoveRecord(records, i)
    /\ index' = TakeIndex(index, records, i)

\* The records of `rs` at the positions `kept`, in order: a set of one sequence,
\* given by the increasing enumeration of `kept`.
Selections(rs, kept) ==
    LET n == Cardinality(kept)
        rising == {p \in [1 .. n -> kept] : \A a, b \in 1 .. n : a < b => p[a] < p[b]}
    IN  {[j \in 1 .. n |-> rs[p[j]]] : p \in rising}

\* Vec::retain, and a rebuild when it dropped a record.
Retain(kept) ==
    \/ /\ kept = 1 .. Len(records)
       /\ UNCHANGED <<records, index>>
    \/ /\ kept # 1 .. Len(records)
       /\ records' \in Selections(records, kept)
       /\ index' = Reindex(records')

\* Header::remove_all, and Header::set_optional of None.
RemoveAll(name) == Retain({j \in 1 .. Len(records) : ~IsNamed(records[j], name)})

\* The positions of `rs` whose record has no keyword of `keys`.
Without(rs, keys) == {j \in 1 .. Len(rs) : IndexName(rs[j]) \notin keys}

\* Header::remove_where: by keyword, so a HIERARCH record stays.
RemoveWhere(keys) == Retain(Without(records, keys))

\* Header::append_filtered_from: the records of `source` that no dropped keyword
\* names, then a rebuild.
AppendFiltered(source, dropped) ==
    /\ Len(records) + Len(source) <= MaxRecords
    /\ \E more \in Selections(source, Without(source, dropped)) :
          /\ records' = records \o more
          /\ index' = Reindex(records')

\* Header::rename_keywords: valued records only, in place; a malformed record
\* keeps the name it has.
Rename(from, to) ==
    LET renamed(r) == IF r.kind = "valued" /\ r.name = from THEN Rec(r.kind, to, r.value, r.comment) ELSE r
    IN  /\ records' = [j \in 1 .. Len(records) |-> renamed(records[j])]
        /\ index' = IF records' # records THEN Reindex(records') ELSE index

\* Record::with_comment.
WithComment(r) == Rec(r.kind, r.name, r.value, "some")

\* Header::set_comment: a malformed record has no value to keep and refuses.
SetComment(name) ==
    /\ Settable(name)
    /\ First(name) # 0
    /\ records[First(name)].kind # "malformed"
    /\ records' = [records EXCEPT ![First(name)] = WithComment(@)]
    /\ UNCHANGED index

\* Header::push_commentary pushes past the index, which no commentary enters.
PushCommentary(r) ==
    /\ Insertable(r)
    /\ Len(records) < MaxRecords
    /\ records' = Append(records, r)
    /\ UNCHANGED index

KeyNames == {Key(t) : t \in KeyTexts}
Sources == UNION {[1 .. n -> Records] : n \in 1 .. MaxSource}

Edit ==
    /\ phase = "ready"
    /\ UNCHANGED phase
    /\ \/ \E name \in RecordNames, value \in Values : Set(name, value)
       \/ \E i \in 1 .. Len(records) + 1, r \in Records : InsertEdit(i, r)
       \/ \E i \in 1 .. Len(records) : RemoveAt(i)
       \/ \E name \in RecordNames : IndexOf(name) # 0 /\ RemoveAt(IndexOf(name))
       \/ \E name \in RecordNames : RemoveAll(name)
       \/ \E keys \in SUBSET KeyNames : RemoveWhere(keys)
       \/ \E source \in Sources, keys \in SUBSET KeyNames : AppendFiltered(source, keys)
       \/ \E from, to \in KeyNames \ Reserved : Rename(from, to)
       \/ \E name \in RecordNames : SetComment(name)
       \/ \E r \in CommentaryRecords : PushCommentary(r)

Parse == ParseRecord \/ ParseContinue \/ ParseOrphanContinue \/ ParseEnd \/ ParseMissingEnd

Next == Parse \/ Edit

Spec == Init /\ [][Next]_vars

--------------------------------------------------------------------------------
(* Properties *)

\* The records and the index stay in their sets, and no entry points past the
\* records.
TypeOK ==
    /\ records \in Seq(Records)
    /\ index \in [IndexNames -> 0 .. Len(records)]
    /\ phase \in {"parsing", "ready", "failed"}

\* `ix` indexes `rs`: each name that a valued, HIERARCH or named malformed record
\* has is indexed at its first such record, and no other name is.
Indexes(ix, rs) ==
    \A name \in IndexNames :
        /\ ix[name] = 0 => \A j \in 1 .. Len(rs) : IndexName(rs[j]) # name
        /\ ix[name] # 0 =>
              /\ IndexName(rs[ix[name]]) = name
              /\ \A j \in 1 .. ix[name] - 1 : IndexName(rs[j]) # name

\* The invariant the Header struct states of its indexes, kept by every parse
\* step and edit.  It is why no lookup (value_or_defect, replace_value,
\* with_comment) reaches its `unreachable!` on a commentary record.
IndexPointsAtFirst == Indexes(index, records)

\* index_of searches only up to the indexed record and still finds the first
\* record of the name among all of them, commentary records included: remove and
\* contains act on the record a reader of the header would name.
IndexOfFindsFirst ==
    \A name \in RecordNames :
        LET named == {j \in 1 .. Len(records) : IsNamed(records[j], name)}
        IN  /\ IndexOf(name) = 0 <=> named = {}
            /\ \A j \in named : IndexOf(name) <= j

\* Whether a render succeeds: a malformed record, and a valued one with a name it
\* cannot carry, do not render.
Renders == \A j \in 1 .. Len(records) : /\ records[j].kind # "malformed"
                                        /\ records[j].name \notin Reserved

\* The records a parse of the rendered records holds, up to the blank ones before
\* END: a quoted CONTINUE folds into an open text before it.
ReadBack(rs) ==
    LET read[n \in 0 .. Len(rs)] ==
            IF n = 0 THEN <<>>
            ELSE IF rs[n].value = "cont" /\ AwaitsContinuation(read[n - 1])
            THEN [read[n - 1] EXCEPT ![Len(read[n - 1])] = Folded(@, "text", "none")]
            ELSE Append(read[n - 1], rs[n])
    IN  read[Len(rs)]

\* "the round-trip preserves the logical model (not necessarily the original byte
\* split)": what the header renders reads back as the records it holds.
RoundTripPreservesModel == phase = "ready" /\ Renders => ReadBack(records) = records
================================================================================
