--------------------------- MODULE FitsWriterProofs ----------------------------
(***************************************************************************)
(* The theorems of FitsWriter, for every block size, raw header and bound: *)
(* a usable file is whole, only placeholder sums are overwritten, a scan   *)
(* finds what is committed, a failed writer stays failed, and the writer   *)
(* implements HduLog.                                                      *)
(*                                                                         *)
(* They rest on an inductive invariant.  The HDUs committed are whole and  *)
(* end to end (PlacedWhole), whatever state the writer is in.  While it is *)
(* usable, there is a part for each call: the cells the call renders when  *)
(* it starts, what of them is in the file and what is left in `plan`       *)
(* (Emitting), and that they are the HDUs the call will commit.  An open   *)
(* stream has its header in the file, unfinished, and the samples written  *)
(* so far.                                                                 *)
(***************************************************************************)
EXTENDS FitsWriter, FitsFileProofs

(* The sink. *)

\* w is the file with the bytes over it at a position.
Overwrites(file, at, bytes, w) ==
    /\ IsSeq(w)
    /\ Len(w) \in Nat
    /\ Len(w) >= Len(file)
    /\ Len(w) >= at + Len(bytes)
    /\ Len(w) = Len(file) \/ Len(w) = at + Len(bytes)
    /\ \A i \in 1..Len(bytes) : w[at + i] = bytes[i]
    /\ \A i \in 1..Len(file) : i <= at \/ i > at + Len(bytes) => w[i] = file[i]

\* A write past the end of a file extends it, and one inside it goes over what
\* is there.
LEMMA OverwriteShape ==
    ASSUME NEW file, IsSeq(file), NEW bytes, IsSeq(bytes), NEW at \in 0..Len(file)
    PROVE  Overwrites(file, at, bytes, Overwrite(file, at, bytes))
<1> DEFINE n == IF Len(file) > at + Len(bytes) THEN Len(file) ELSE at + Len(bytes)
           w == Overwrite(file, at, bytes)
<1>1. Len(file) \in Nat /\ Len(bytes) \in Nat /\ at \in Nat /\ n \in Nat
  BY DEF IsSeq
<1>2. w = [i \in 1..n |-> IF i \in at + 1..at + Len(bytes) THEN bytes[i - at] ELSE file[i]]
  BY DEF Overwrite
<1>3. /\ w = [i \in 1..n |-> w[i]]
      /\ \A i \in 1..n : w[i] = IF i \in at + 1..at + Len(bytes) THEN bytes[i - at] ELSE file[i]
  BY <1>2
<1> HIDE DEF w
<1>4. /\ n >= Len(file) /\ n >= at + Len(bytes)
      /\ n = Len(file) \/ n = at + Len(bytes)
  BY <1>1
<1> HIDE DEF n
<1>5. IsSeq(w) /\ Len(w) = n
  BY <1>1, <1>3, FunIsSeq
<1>6. \A i \in 1..Len(bytes) : w[at + i] = bytes[i]
  <2>1. TAKE i \in 1..Len(bytes)
  <2>2. at + i \in 1..n /\ at + i \in at + 1..at + Len(bytes) /\ (at + i) - at = i
    BY <1>1, <1>4
  <2>3. w[at + i] = bytes[(at + i) - at]
    BY <2>2, <1>3
  <2> QED BY <2>2, <2>3
<1>7. \A i \in 1..Len(file) : i <= at \/ i > at + Len(bytes) => w[i] = file[i]
  BY <1>1, <1>3, <1>4
<1>8. Overwrites(file, at, bytes, w)
  BY <1>1, <1>4, <1>5, <1>6, <1>7 DEF Overwrites
<1> QED BY <1>8 DEF w

\* What is left of some cells from a base is at a position, and what comes
\* before it is in the file.
Emitting(p, rest, file, base, cells) ==
    /\ p \in base..base + Len(cells)
    /\ rest = SubSeq(cells, p - base + 1, Len(cells))
    /\ \A i \in 1..p - base : file[base + i] = cells[i]

\* The cells left to emit.
RestOf(p, rest, base, cells) ==
    /\ IsSeq(rest)
    /\ Len(rest) = Len(cells) - (p - base)
    /\ \A i \in 1..Len(rest) : rest[i] = cells[(p - base) + i]

\* The cells left to emit, one by one.
LEMMA RestShape ==
    ASSUME NEW cells, IsSeq(cells), NEW base \in Nat, NEW p, NEW rest, NEW file,
           Emitting(p, rest, file, base, cells)
    PROVE  RestOf(p, rest, base, cells)
<1>1. Len(cells) \in Nat /\ p - base \in 0..Len(cells) /\ p \in Nat
  BY DEF IsSeq, Emitting
<1>2. Cuts(cells, p - base + 1, Len(cells), rest)
  <2>1. p - base + 1 \in 1..Len(cells) + 1 /\ Len(cells) \in (p - base + 1) - 1..Len(cells)
    BY <1>1
  <2>2. rest = SubSeq(cells, p - base + 1, Len(cells))
    BY DEF Emitting
  <2>3. Cuts(cells, p - base + 1, Len(cells), SubSeq(cells, p - base + 1, Len(cells)))
    BY <2>1, SubSeqIsSeq
  <2> QED BY <2>2, <2>3
<1> DEFINE k == p - base
<1>3. /\ IsSeq(rest) /\ Len(rest) = Len(cells) - (k + 1) + 1
      /\ \A i \in 1..Len(rest) : rest[i] = cells[(k + 1) + i - 1]
  BY <1>2 DEF Cuts
<1>4. k \in 0..Len(cells)
  BY <1>1
<1> HIDE DEF k
<1>5. Len(rest) = Len(cells) - k /\ \A i \in 1..Len(rest) : rest[i] = cells[k + i]
  <2>1. Len(rest) = Len(cells) - k
    BY <1>1, <1>3, <1>4
  <2>2. \A i \in 1..Len(rest) : (k + 1) + i - 1 = k + i
    BY <1>4
  <2> QED BY <2>1, <2>2, <1>3
<1> QED BY <1>3, <1>5 DEF RestOf, k

\* Emitting n cells at p takes them into the file, now w, and touches no others.
EmitsTo(p, n, file, w, left, base, cells) ==
    /\ Emitting(p + n, left, w, base, cells)
    /\ IsSeq(w) /\ IsSeq(left)
    /\ Len(w) \in Nat
    /\ p + n \in 0..Len(w)
    /\ Len(w) >= Len(file)
    /\ p = Len(file) => p + n = Len(w)
    /\ p + n <= Len(file) => Len(w) = Len(file)
    /\ \A i \in 1..Len(file) : i <= p \/ i > p + n => w[i] = file[i]
    /\ \A i \in 1..n : w[p + i] = cells[p - base + i]

\* What the sink takes of some cells goes into the file at their place.
LEMMA EmitStep ==
    ASSUME NEW cells, IsSeq(cells), NEW base \in Nat, NEW p, NEW rest,
           NEW file, IsSeq(file), p \in 0..Len(file),
           Emitting(p, rest, file, base, cells), NEW n \in 1..Len(rest)
    PROVE  EmitsTo(p, n, file, Overwrite(file, p, SubSeq(rest, 1, n)),
                   SubSeq(rest, n + 1, Len(rest)), base, cells)
<1> DEFINE bytes == SubSeq(rest, 1, n)
           left  == SubSeq(rest, n + 1, Len(rest))
           k     == p - base
           w     == Overwrite(file, p, bytes)
<1>1. Len(cells) \in Nat /\ Len(file) \in Nat /\ p \in base..base + Len(cells)
  BY DEF IsSeq, Emitting
<1>2. RestOf(p, rest, base, cells)
  BY RestShape
<1>3. /\ IsSeq(rest) /\ Len(rest) = Len(cells) - k
      /\ \A i \in 1..Len(rest) : rest[i] = cells[k + i]
  BY <1>2 DEF RestOf
<1>4. /\ Len(cells) \in Nat /\ k \in 0..Len(cells) /\ p \in Nat /\ Len(file) \in Nat
      /\ Len(rest) \in Nat /\ n \in 1..Len(cells) - k /\ k + n \in 0..Len(cells)
      /\ Len(rest) = Len(cells) - k
  BY <1>1, <1>3
<1> HIDE DEF k
<1>5. /\ \A i \in 1..n : i \in 1..Len(rest) /\ rest[i] = cells[k + i]
      /\ \A i \in 1..Len(rest) - n :
            n + i \in 1..Len(rest) /\ rest[n + i] = cells[k + n + i]
  <2>1. \A i \in 1..n : i \in 1..Len(rest)
    BY <1>4
  <2>2. \A i \in 1..Len(rest) - n : n + i \in 1..Len(rest) /\ k + (n + i) = k + n + i
    BY <1>4
  <2> QED BY <2>1, <2>2, <1>3
<1>6. Cuts(rest, 1, n, bytes)
  <2>1. 1 \in 1..Len(rest) + 1 /\ n \in 1 - 1..Len(rest)
    BY <1>4
  <2> QED BY <2>1, <1>3, SubSeqIsSeq
<1>7. Cuts(rest, n + 1, Len(rest), left)
  BY <1>3, <1>4, SubSeqIsSeq
<1>8. Cuts(cells, k + 1, k + n, SubSeq(cells, k + 1, k + n))
  BY <1>4, SubSeqIsSeq
<1>9. Cuts(cells, k + n + 1, Len(cells), SubSeq(cells, k + n + 1, Len(cells)))
  BY <1>4, SubSeqIsSeq
<1> HIDE DEF bytes, left
<1>10. bytes = SubSeq(cells, k + 1, k + n)
  <2>1. IsSeq(bytes) /\ Len(bytes) = n /\ \A i \in 1..n : bytes[i] = rest[i]
    BY <1>4, <1>6 DEF Cuts
  <2> DEFINE x == SubSeq(cells, k + 1, k + n)
  <2>2. IsSeq(x) /\ Len(x) = n /\ \A i \in 1..n : x[i] = cells[k + i]
    BY <1>4, <1>8 DEF Cuts
  <2> HIDE DEF x
  <2>3. \A i \in 1..n : bytes[i] = x[i]
    BY <1>5, <2>1, <2>2
  <2>4. bytes = x
    BY <2>1, <2>2, <2>3, SeqsEqual
  <2> QED BY <2>4 DEF x
<1>11. left = SubSeq(cells, k + n + 1, Len(cells))
  <2>1. /\ IsSeq(left) /\ Len(left) = Len(rest) - n
        /\ \A i \in 1..Len(rest) - n : left[i] = rest[n + i]
    BY <1>4, <1>7 DEF Cuts
  <2> DEFINE x == SubSeq(cells, k + n + 1, Len(cells))
  <2>2. /\ IsSeq(x) /\ Len(x) = Len(rest) - n
        /\ \A i \in 1..Len(rest) - n : x[i] = cells[k + n + i]
    BY <1>4, <1>9 DEF Cuts
  <2> HIDE DEF x
  <2>3. \A i \in 1..Len(left) : left[i] = x[i]
    BY <1>5, <2>1, <2>2
  <2>4. left = x
    BY <2>1, <2>2, <2>3, SeqsEqual
  <2> QED BY <2>4 DEF x
<1>12. IsSeq(bytes) /\ Len(bytes) = n /\ \A i \in 1..n : bytes[i] = cells[k + i]
  <2>1. IsSeq(bytes) /\ Len(bytes) = n /\ \A i \in 1..n : bytes[i] = rest[i]
    BY <1>4, <1>6 DEF Cuts
  <2> QED BY <2>1, <1>5
<1>13. Overwrites(file, p, bytes, w)
  BY <1>12, OverwriteShape
<1> HIDE DEF w
<1>14. \A i \in 1..n : w[p + i] = cells[k + i]
  BY <1>12, <1>13 DEF Overwrites
<1>15. \A i \in 1..k + n : w[base + i] = cells[i]
  <2>1. TAKE i \in 1..k + n
  <2>2. CASE i <= k
    <3>1. i \in 1..k /\ base + i \in 1..Len(file) /\ base + i <= p
      BY <2>2, <1>4 DEF k
    <3>2. i \in 1..p - base
      BY <3>1 DEF k
    <3>3. file[base + i] = cells[i]
      BY <3>2 DEF Emitting
    <3> QED BY <3>1, <3>3, <1>13 DEF Overwrites
  <2>3. CASE i > k
    <3>1. i - k \in 1..n /\ k + (i - k) = i /\ p + (i - k) = base + i
      BY <2>3, <1>4 DEF k
    <3>2. w[p + (i - k)] = cells[k + (i - k)]
      BY <3>1, <1>14
    <3> QED BY <3>1, <3>2
  <2> QED BY <2>2, <2>3, <1>4
<1>16. p + n - base = k + n /\ p + n \in base..base + Len(cells)
  BY <1>4 DEF k
<1>17. Emitting(p + n, left, w, base, cells)
  <2>1. p + n - base + 1 = k + n + 1
    BY <1>16
  <2>2. left = SubSeq(cells, p + n - base + 1, Len(cells))
    BY <2>1, <1>11
  <2>3. \A i \in 1..p + n - base : w[base + i] = cells[i]
    BY <1>15, <1>16
  <2> DEFINE q == p + n
  <2>4. /\ q \in base..base + Len(cells)
        /\ left = SubSeq(cells, q - base + 1, Len(cells))
        /\ \A i \in 1..q - base : w[base + i] = cells[i]
    <3>1. q \in base..base + Len(cells)
      BY <1>16
    <3>2. left = SubSeq(cells, q - base + 1, Len(cells))
      BY <2>2
    <3>3. \A i \in 1..q - base : w[base + i] = cells[i]
      BY <2>3
    <3> QED BY <3>1, <3>2, <3>3
  <2> HIDE DEF q
  <2>5. Emitting(q, left, w, base, cells)
    BY <2>4 DEF Emitting
  <2> QED BY <2>5 DEF q
<1>18. IsSeq(left)
  BY <1>7 DEF Cuts
<1>19. /\ IsSeq(w) /\ Len(w) \in Nat /\ Len(w) >= Len(file)
       /\ Len(w) >= p + n
       /\ Len(w) = Len(file) \/ Len(w) = p + n
       /\ \A i \in 1..Len(file) : i <= p \/ i > p + n => w[i] = file[i]
  BY <1>12, <1>13 DEF Overwrites
<1>20. /\ p + n \in 0..Len(w)
       /\ p = Len(file) => p + n = Len(w)
       /\ p + n <= Len(file) => Len(w) = Len(file)
  BY <1>4, <1>19
<1>21. EmitsTo(p, n, file, w, left, base, cells)
  BY <1>14, <1>17, <1>18, <1>19, <1>20 DEF EmitsTo, k
<1> QED BY <1>21 DEF w, bytes, left


--------------------------------------------------------------------------------
(* The invariant. *)

\* The cells are all of the HDU of that index, as the writer renders one.
IsHdu(index, cells, signs) ==
    \E header, spare :
        /\ IsHeader(header)
        /\ spare \in Nat
        /\ HasRole(header, index = 1)
        /\ cells = HduCells(header, signs, spare, index = 1)

\* Extents that follow one another from an offset.
Extents(log, from) ==
    /\ IsSeq(log)
    /\ \A i \in 1..Len(log) :
          /\ log[i] = Extent(log[i].from, log[i].to)
          /\ log[i].from \in Nat /\ log[i].to \in Nat
          /\ log[i].from = (IF i = 1 THEN from ELSE log[i - 1].to)
          /\ log[i].from < log[i].to

\* Where the HDUs committed end.
End == IF placed = <<>> THEN 0 ELSE placed[Len(placed)].to

\* The HDUs committed are whole, end to end, and in the file.
PlacedWhole ==
    /\ Extents(placed, 0)
    /\ End \in 0..Len(sink)
    /\ \A i \in 1..Len(placed) : placed[i].to <= End /\ IsHdu(i, Committed(i), form.checksums)

EmptyIffNone == state = "Empty" <=> placed = <<>>

\* Between calls: the file ends with the last HDU.
IdlePart == pos = End /\ pos = Len(sink) /\ EmptyIffNone

\* The cells from an offset on are those of the HDUs added, after n others.
Adds(added, from, cells, n, signs) ==
    /\ Extents(added, from)
    /\ Len(added) \in (IF n = 0 THEN {1, 2} ELSE {1})
    /\ added[Len(added)].to = from + Len(cells)
    /\ \A j \in 1..Len(added) :
          /\ added[j].to <= from + Len(cells)
          /\ IsHdu(n + j, SubSeq(cells, added[j].from - from + 1, added[j].to - from), signs)

\* The cells of a call are those of the HDUs it will commit.
AddingWhole(cells) == Adds(adding, End, cells, Len(placed), form.checksums)

HduPart ==
    /\ EmptyIffNone
    /\ ~stream.open
    /\ pos = Len(sink)
    /\ \E cells : IsSeq(cells) /\ AddingWhole(cells) /\ Emitting(pos, plan, sink, End, cells)

StreamHeader ==
    RenderInto(stream.header, IF form.checksums THEN Unfinished ELSE Unsigned, form.spare)
StreamFill == Fill(Zero, Padding(stream.expected))
StreamUnit == Data(stream.expected) \o StreamFill
SignedHeader == RenderInto(stream.header, WithDataSum(StreamUnit), form.spare)
DataAt == End + Len(StreamHeader)

\* The stream's header is that of an image, after the HDUs committed.
StreamPart ==
    /\ stream.header = <<Open(placed # <<>>, FALSE, stream.expected)>>
    /\ stream.expected \in 0..MaxLen
    /\ stream.offset = End

StartPart ==
    /\ EmptyIffNone
    /\ ~stream.open
    /\ StreamPart
    /\ stream.written = 0 /\ stream.chunk = 0 /\ stream.sum = <<>>
    /\ pos = Len(sink)
    /\ Emitting(pos, plan, sink, End, StreamHeader)

\* The open stream's header and the samples written so far.
OpenPart ==
    /\ state = "Active"
    /\ stream.open
    /\ StreamPart
    /\ Holds(sink, End, StreamHeader)
    /\ Holds(sink, DataAt, Data(stream.written))
    /\ stream.sum = Data(stream.written + stream.chunk)
    /\ pos = Len(sink)

BetweenPart == OpenPart /\ stream.chunk = 0 /\ pos = DataAt + stream.written

ChunkPart ==
    /\ OpenPart
    /\ Emitting(pos, plan, sink, DataAt + stream.written,
                SubSeq(Data(stream.expected), stream.written + 1,
                       stream.written + stream.chunk))

FillPart ==
    /\ OpenPart
    /\ stream.written = stream.expected
    /\ stream.chunk = 0
    /\ Emitting(pos, plan, sink, DataAt + stream.written, StreamFill)

\* The signed header goes over the unfinished one, and the data is all there.
RewritePart ==
    /\ state = "Active"
    /\ form.checksums
    /\ stream.open
    /\ StreamPart
    /\ stream.written = stream.expected
    /\ stream.chunk = 0
    /\ stream.end = Len(sink)
    /\ stream.end = DataAt + Len(StreamUnit)
    /\ Holds(sink, DataAt, StreamUnit)
    /\ Emitting(pos, plan, sink, End, SignedHeader)
    /\ \A i \in 1..Len(StreamHeader) :
          End + i > pos => sink[End + i] = StreamHeader[i]

Part ==
    /\ call = "none" /\ ~stream.open => IdlePart
    /\ call = "none" /\ stream.open => BetweenPart
    /\ call = "hdu" => HduPart
    /\ call = "start" => StartPart
    /\ call = "chunk" => ChunkPart
    /\ call = "fill" => FillPart
    /\ call = "rewrite" => RewritePart

StreamFields ==
    /\ stream = [open |-> stream.open, header |-> stream.header, offset |-> stream.offset,
                 expected |-> stream.expected, written |-> stream.written,
                 chunk |-> stream.chunk, sum |-> stream.sum, end |-> stream.end]
    /\ stream.open \in BOOLEAN
    /\ stream.expected \in Nat /\ stream.written \in Nat /\ stream.chunk \in Nat
    /\ stream.offset \in Nat

Typed ==
    /\ TypeOK
    /\ IsSeq(sink) /\ IsSeq(plan)
    /\ StreamFields
    /\ state = "Failed" => call \in {"none", "chunk"}
    /\ call # "hdu" => adding = <<>>

WInv ==
    /\ Typed
    /\ PlacedWhole
    /\ EnsureUsable => Part

\* The bytes committed stay, and stay whole, when the file keeps them.
LEMMA PlacedKept ==
    ASSUME PlacedWhole, IsSeq(sink), IsSeq(sink'), Len(sink') >= Len(sink),
           \A i \in 1..End : sink'[i] = sink[i], UNCHANGED <<placed, form>>
    PROVE  /\ PlacedWhole'
           /\ \A i \in 1..Len(placed) : Committed(i)' = Committed(i)
<1>1. Len(sink) \in Nat /\ Len(sink') \in Nat
  BY LenNat
<1>2. /\ End' = End /\ End \in Nat /\ End <= Len(sink) /\ End <= Len(sink')
      /\ \A i \in 1..Len(placed) : placed[i].to <= End /\ IsHdu(i, Committed(i), form.checksums)
      /\ Extents(placed, 0)
  BY <1>1 DEF PlacedWhole, End
<1>3. \A i \in 1..Len(placed) : placed[i].from \in Nat /\ placed[i].to \in Nat
                               /\ placed[i].from <= placed[i].to
  BY <1>2 DEF Extents
<1> HIDE DEF End
<1>4. \A i \in 1..Len(placed) : Committed(i)' = Committed(i)
  <2>1. TAKE i \in 1..Len(placed)
  <2> DEFINE m == placed[i].from
             n == placed[i].to
  <2>2. m \in Nat /\ n \in Nat /\ m <= n /\ n <= End
    BY <1>2, <1>3
  <2> HIDE DEF m, n
  <2>3. n <= Len(sink) /\ n <= Len(sink') /\ \A j \in m + 1..n : sink'[j] = sink[j]
    BY <1>1, <1>2, <2>2
  <2>4. SubSeq(sink', m + 1, n) = SubSeq(sink, m + 1, n)
    BY <2>2, <2>3, SameCut
  <2> QED BY <2>4 DEF Committed, m, n
<1>5. \A i \in 1..Len(placed) : IsHdu(i, Committed(i)', form.checksums')
  BY <1>2, <1>4
<1>6. Extents(placed, 0)'
  BY <1>2
<1> QED BY <1>1, <1>2, <1>4, <1>5, <1>6 DEF PlacedWhole

\* A step of the sink, whatever it emits.
LEMMA EmitKeeps ==
    ASSUME IsSeq(sink), pos \in 0..Len(sink), NEW n \in 1..Len(plan), Emit(n),
           NEW base \in Nat, NEW cells, IsSeq(cells), Emitting(pos, plan, sink, base, cells)
    PROVE  pos' = pos + n /\ EmitsTo(pos, n, sink, sink', plan', base, cells)
<1>1. /\ sink' = Overwrite(sink, pos, SubSeq(plan, 1, n))
      /\ pos' = pos + n
      /\ plan' = SubSeq(plan, n + 1, Len(plan))
  BY DEF Emit
<1>2. EmitsTo(pos, n, sink, Overwrite(sink, pos, SubSeq(plan, 1, n)),
              SubSeq(plan, n + 1, Len(plan)), base, cells)
  BY EmitStep
<1> QED BY <1>1, <1>2


--------------------------------------------------------------------------------
(* The sink's steps. *)

\* The numbers of a state.
Numbers ==
    /\ IsSeq(sink) /\ IsSeq(plan)
    /\ Len(sink) \in Nat /\ Len(plan) \in Nat
    /\ pos \in 0..Len(sink) /\ pos \in Nat
    /\ End \in Nat /\ End <= Len(sink)
    /\ stream.written \in Nat /\ stream.chunk \in Nat /\ stream.expected \in Nat
    /\ stream.written + stream.chunk <= stream.expected
    /\ form.checksums \in BOOLEAN /\ form.spare \in Nat

\* The numbers of a state that is typed are naturals.
LEMMA Basics ==
    ASSUME Typed, PlacedWhole
    PROVE  Numbers
<1>1. IsSeq(sink) /\ IsSeq(plan) /\ Len(sink) \in Nat /\ Len(plan) \in Nat
  BY LenNat DEF Typed
<1>2. pos \in 0..Len(sink) /\ stream.written + stream.chunk \in 0..stream.expected
  BY DEF Typed, TypeOK
<1>3. stream.written \in Nat /\ stream.chunk \in Nat /\ stream.expected \in Nat
  BY DEF Typed, StreamFields
<1>4. form.checksums \in BOOLEAN /\ form.spare \in Nat
  BY WriterAssumption DEF Typed, TypeOK, Forms
<1>5. End \in 0..Len(sink)
  BY DEF PlacedWhole
<1> QED BY <1>1, <1>2, <1>3, <1>4, <1>5 DEF Numbers

\* The sizes of the parts of the open stream's HDU.
StreamFacts ==
    /\ End \in Nat /\ DataAt \in Nat /\ DataAt = End + Len(StreamHeader)
    /\ IsHeader(stream.header)
    /\ IsSeq(StreamHeader) /\ Len(StreamHeader) \in Nat /\ Len(StreamHeader) > 0
    /\ IsSeq(SignedHeader)
    /\ form.checksums => SignsOver(StreamHeader, SignedHeader)
    /\ IsSeq(StreamFill) /\ Len(StreamFill) = Padding(stream.expected)
    /\ Padding(stream.expected) \in Nat
    /\ IsSeq(StreamUnit) /\ Len(StreamUnit) = stream.expected + Padding(stream.expected)

\* The parts of the open stream's HDU are sequences that follow one another.
LEMMA StreamShape ==
    ASSUME Typed, PlacedWhole, StreamPart
    PROVE  StreamFacts
<1>1. End \in Nat
  BY LenNat DEF PlacedWhole, Typed
<1>2. form.checksums \in BOOLEAN /\ form.spare \in Nat
  BY WriterAssumption DEF Typed, TypeOK, Forms
<1>3. stream.expected \in Nat
  BY DEF Typed, StreamFields
<1>4. IsHeader(stream.header)
  BY <1>3, OneOpenShape DEF StreamPart
<1> DEFINE signing == IF form.checksums THEN Unfinished ELSE Unsigned
<1>5. IsSigning(signing)
  BY DEF Unfinished, Unsigned, IsSigning
<1> HIDE DEF signing
<1>6. IsSeq(StreamHeader) /\ Len(StreamHeader) \in Nat /\ Len(StreamHeader) > 0
  BY <1>2, <1>4, <1>5, RenderIsSeq DEF StreamHeader, signing
<1> DEFINE done == WithDataSum(StreamUnit)
<1>7. IsSigning(done)
  BY DEF WithDataSum, IsSigning
<1>8. IsSeq(SignedHeader)
  <2> HIDE DEF done
  <2>1. IsSeq(RenderInto(stream.header, done, form.spare))
    BY <1>2, <1>4, <1>7, RenderIsSeq
  <2> QED BY <2>1 DEF SignedHeader, done
<1>9. ASSUME form.checksums PROVE SignsOver(StreamHeader, SignedHeader)
  <2>1. StreamHeader = RenderInto(stream.header, Unfinished, form.spare)
    BY <1>9 DEF StreamHeader
  <2> QED BY <2>1, <1>2, <1>4, SignedOverUnfinished DEF SignedHeader
<1>10. Padding(stream.expected) \in Nat
  BY <1>3, Grid, BAssumption
<1>11. IsSeq(StreamFill) /\ Len(StreamFill) = Padding(stream.expected)
  BY <1>10, FillIsSeq DEF StreamFill
<1>12. IsSeq(Data(stream.expected)) /\ Len(Data(stream.expected)) = stream.expected
  BY <1>3, DataIsSeq
<1>13. Joins(Data(stream.expected), StreamFill, StreamUnit)
  BY <1>11, <1>12, ConcatIsSeq DEF StreamUnit
<1>14. IsSeq(StreamUnit) /\ Len(StreamUnit) = stream.expected + Padding(stream.expected)
  BY <1>11, <1>12, <1>13 DEF Joins
<1>15. DataAt \in Nat /\ DataAt = End + Len(StreamHeader)
  BY <1>1, <1>6 DEF DataAt
<1> QED BY <1>1, <1>4, <1>6, <1>8, <1>9, <1>10, <1>11, <1>14, <1>15 DEF StreamFacts

\* The names of the stream's cells do not depend on the sink.
LEMMA TermsSame ==
    ASSUME UNCHANGED <<form, placed, state>>, stream'.header = stream.header,
           stream'.expected = stream.expected, stream'.offset = stream.offset
    PROVE  /\ End' = End /\ StreamHeader' = StreamHeader /\ StreamFill' = StreamFill
           /\ StreamUnit' = StreamUnit /\ SignedHeader' = SignedHeader /\ DataAt' = DataAt
           /\ StreamPart' = StreamPart
           /\ EmptyIffNone' = EmptyIffNone
BY DEF End, StreamHeader, StreamFill, StreamUnit, SignedHeader, DataAt, StreamPart,
       EmptyIffNone

\* `emit` keeps the types.
LEMMA EmitTyped ==
    ASSUME Typed, NEW n \in 1..Len(plan), Emit(n),
           IsSeq(sink'), IsSeq(plan'), pos' \in 0..Len(sink')
    PROVE  Typed'
<1>1. UNCHANGED <<state, form, call, stream, placed, adding>> /\ plan # <<>>
  BY DEF Emit
<1>2. call # "none"
  BY <1>1 DEF Typed, TypeOK
<1>3. TypeOK'
  BY <1>1, <1>2 DEF Typed, TypeOK
<1>4. StreamFields'
  BY <1>1 DEF Typed, StreamFields
<1> QED BY <1>1, <1>3, <1>4 DEF Typed

\* What a step of the sink keeps in every part: what is before its position.
LEMMA EmitPast ==
    ASSUME Typed, PlacedWhole, NEW n \in 1..Len(plan), Emit(n),
           NEW base \in Nat, NEW cells, EmitsTo(pos, n, sink, sink', plan', base, cells),
           pos' = pos + n, End <= pos
    PROVE  Typed' /\ PlacedWhole'
<1>1. UNCHANGED <<form, placed>>
  BY DEF Emit
<1>2. /\ IsSeq(sink) /\ IsSeq(sink') /\ IsSeq(plan')
      /\ Len(sink') >= Len(sink) /\ pos' \in 0..Len(sink')
  BY DEF EmitsTo, Typed
<1>3. Typed'
  BY <1>2, EmitTyped
<1>4. End \in 0..Len(sink) /\ Len(sink) \in Nat /\ pos \in Nat /\ n \in Nat
  BY <1>2, LenNat DEF PlacedWhole, Typed, TypeOK
<1>5. \A i \in 1..End : sink'[i] = sink[i]
  <2>1. \A i \in 1..End : i \in 1..Len(sink) /\ i <= pos
    BY <1>4
  <2> QED BY <2>1 DEF EmitsTo
<1>6. PlacedWhole'
  BY <1>1, <1>2, <1>5, PlacedKept
<1> QED BY <1>3, <1>6

\* What stands before the sink's position, or after the bytes emitted, is kept.
LEMMA HeldPast ==
    ASSUME Typed, NEW n \in 1..Len(plan), NEW base, NEW cells,
           EmitsTo(pos, n, sink, sink', plan', base, cells),
           NEW at \in Nat, NEW held, IsSeq(held), Holds(sink, at, held),
           at + Len(held) <= pos \/ at >= pos + n
    PROVE  Holds(sink', at, held)
<1>1. IsSeq(sink) /\ IsSeq(sink') /\ Len(sink') >= Len(sink)
  BY DEF EmitsTo, Typed
<1>2. Len(sink) \in Nat /\ Len(held) \in Nat /\ pos \in Nat /\ n \in Nat
      /\ at + Len(held) <= Len(sink)
  BY <1>1, LenNat DEF Typed, TypeOK, Holds
<1>3. \A i \in 1..Len(held) :
          /\ at + i \in 1..Len(sink)
          /\ at + i <= pos \/ at + i > pos + n
  BY <1>2
<1>4. \A i \in 1..Len(held) : sink'[at + i] = sink[at + i]
  BY <1>3 DEF EmitsTo
<1> QED BY <1>1, <1>4, HoldsKept

\* `emit` in a call that writes one HDU.
LEMMA EmitHdu ==
    ASSUME Typed, PlacedWhole, HduPart, NEW n \in 1..Len(plan), Emit(n)
    PROVE  Typed' /\ PlacedWhole' /\ HduPart'
<1>1. PICK cells : IsSeq(cells) /\ AddingWhole(cells) /\ Emitting(pos, plan, sink, End, cells)
  BY DEF HduPart
<1>2. UNCHANGED <<state, form, call, stream, placed, adding>>
  BY DEF Emit
<1>3. IsSeq(sink) /\ pos \in 0..Len(sink) /\ End \in Nat /\ Len(sink) \in Nat
  BY LenNat DEF Typed, TypeOK, PlacedWhole
<1>4. pos' = pos + n /\ EmitsTo(pos, n, sink, sink', plan', End, cells)
  BY <1>1, <1>3, EmitKeeps
<1>5. End <= pos
  BY <1>1, <1>3, LenNat DEF Emitting
<1>6. Typed' /\ PlacedWhole'
  BY <1>3, <1>4, <1>5, EmitPast
<1>7. End' = End /\ EmptyIffNone' /\ ~stream'.open
  BY <1>2 DEF End, EmptyIffNone, HduPart
<1>8. AddingWhole(cells)'
  BY <1>1, <1>2, <1>7 DEF AddingWhole
<1>9. Emitting(pos, plan, sink, End, cells)'
  BY <1>4, <1>7 DEF EmitsTo
<1>10. pos' = Len(sink')
  BY <1>4 DEF EmitsTo, HduPart
<1> QED BY <1>1, <1>6, <1>7, <1>8, <1>9, <1>10 DEF HduPart

\* `emit` of a stream's first header.
LEMMA EmitStart ==
    ASSUME Typed, PlacedWhole, StartPart, NEW n \in 1..Len(plan), Emit(n)
    PROVE  Typed' /\ PlacedWhole' /\ StartPart'
<1>1. StreamFacts
  BY StreamShape DEF StartPart
<1>2. UNCHANGED <<state, form, call, stream, placed, adding>>
  BY DEF Emit
<1>3. /\ IsSeq(sink) /\ pos \in 0..Len(sink) /\ End \in Nat /\ Len(sink) \in Nat
      /\ Emitting(pos, plan, sink, End, StreamHeader) /\ IsSeq(StreamHeader)
  BY <1>1, LenNat DEF Typed, TypeOK, StreamFacts, StartPart
<1>4. pos' = pos + n /\ EmitsTo(pos, n, sink, sink', plan', End, StreamHeader)
  BY <1>3, EmitKeeps
<1>5. End <= pos
  BY <1>3, LenNat DEF Emitting
<1>6. Typed' /\ PlacedWhole'
  BY <1>3, <1>4, <1>5, EmitPast
<1>7. /\ End' = End /\ StreamHeader' = StreamHeader /\ StreamPart' /\ EmptyIffNone'
  BY <1>2, TermsSame DEF StartPart
<1>8. Emitting(pos, plan, sink, End, StreamHeader)'
  BY <1>4, <1>7 DEF EmitsTo
<1>9. pos' = Len(sink')
  BY <1>4 DEF EmitsTo, StartPart
<1> QED BY <1>2, <1>6, <1>7, <1>8, <1>9 DEF StartPart

\* In the open stream's data the header and the samples before it stay.
LEMMA EmitOpen ==
    ASSUME Typed, PlacedWhole, OpenPart, NEW n \in 1..Len(plan), Emit(n), NEW cells,
           IsSeq(cells), Emitting(pos, plan, sink, DataAt + stream.written, cells)
    PROVE  /\ Typed' /\ PlacedWhole' /\ OpenPart'
           /\ Emitting(pos', plan', sink', DataAt + stream.written, cells)
<1>1. StreamFacts
  BY StreamShape DEF OpenPart
<1>2. UNCHANGED <<state, form, call, stream, placed, adding>>
  BY DEF Emit
<1>3. Numbers /\ Len(cells) \in Nat
  BY Basics, LenNat
<1>4. /\ IsSeq(sink) /\ pos \in 0..Len(sink) /\ End \in Nat /\ Len(sink) \in Nat
      /\ stream.written \in Nat
  BY <1>3 DEF Numbers
<1>5. /\ DataAt \in Nat /\ Len(StreamHeader) \in Nat /\ IsSeq(StreamHeader)
      /\ DataAt = End + Len(StreamHeader)
  BY <1>1 DEF StreamFacts
<1>6. DataAt + stream.written \in Nat
  BY <1>4, <1>5
<1>7. pos' = pos + n /\ EmitsTo(pos, n, sink, sink', plan', DataAt + stream.written, cells)
  BY <1>4, <1>6, EmitKeeps
<1>8. DataAt + stream.written <= pos
  BY <1>4, <1>3, <1>6 DEF Emitting
<1>9. End <= pos /\ End + Len(StreamHeader) <= pos
  BY <1>4, <1>8, <1>5
<1>10. Typed' /\ PlacedWhole'
  BY <1>4, <1>6, <1>7, <1>9, EmitPast
<1>11. Holds(sink', End, StreamHeader)
  BY <1>4, <1>5, <1>6, <1>7, <1>9, HeldPast DEF OpenPart
<1>12. IsSeq(Data(stream.written)) /\ Len(Data(stream.written)) = stream.written
  BY <1>4, DataIsSeq
<1>13. Holds(sink', DataAt, Data(stream.written))
  <2> DEFINE held == Data(stream.written)
  <2>1. IsSeq(held) /\ Holds(sink, DataAt, held) /\ DataAt + Len(held) <= pos
    BY <1>8, <1>12 DEF OpenPart
  <2> HIDE DEF held
  <2>2. Holds(sink', DataAt, held)
    BY <2>1, <1>5, <1>7, HeldPast
  <2> QED BY <2>2 DEF held
<1>14. /\ End' = End /\ StreamHeader' = StreamHeader /\ StreamPart' /\ DataAt' = DataAt
  BY <1>2, TermsSame DEF OpenPart
<1>15. pos' = Len(sink')
  BY <1>7 DEF EmitsTo, OpenPart
<1>16. OpenPart'
  BY <1>2, <1>11, <1>13, <1>14, <1>15 DEF OpenPart
<1>17. Emitting(pos', plan', sink', DataAt + stream.written, cells)
  BY <1>7 DEF EmitsTo
<1> QED BY <1>10, <1>16, <1>17

\* Where the signed header goes: over the unfinished one, before the data.
LEMMA EmitRewrite ==
    ASSUME Typed, PlacedWhole, RewritePart, NEW n \in 1..Len(plan), Emit(n)
    PROVE  /\ Typed' /\ PlacedWhole' /\ RewritePart'
           /\ \A i \in 1..Len(sink) : sink'[i] # sink[i] =>
                 /\ i > stream.offset
                 /\ sink[i] \in {Placeholder, Datasum(<<>>)}
                 /\ sink'[i][1] = sink[i][1]
<1>1. StreamFacts
  BY StreamShape DEF RewritePart
<1>2. UNCHANGED <<state, form, call, stream, placed, adding>>
  BY DEF Emit
<1>3. Numbers
  BY Basics
<1>4. /\ IsSeq(sink) /\ Len(sink) \in Nat /\ pos \in 0..Len(sink) /\ End \in Nat
      /\ n \in Nat /\ n >= 1
  BY <1>3 DEF Numbers
<1>5. SignsOver(StreamHeader, SignedHeader)
  BY <1>1 DEF StreamFacts, RewritePart
<1>6. IsSeq(SignedHeader) /\ Len(SignedHeader) = Len(StreamHeader)
  BY <1>5 DEF SignsOver
<1>7. /\ DataAt \in Nat /\ Len(StreamHeader) \in Nat
      /\ DataAt = End + Len(StreamHeader)
  BY <1>1 DEF StreamFacts
<1>8. IsSeq(StreamUnit) /\ Len(StreamUnit) \in Nat
  BY <1>1, LenNat DEF StreamFacts
<1>9. Emitting(pos, plan, sink, End, SignedHeader)
  BY DEF RewritePart
<1>10. pos' = pos + n /\ EmitsTo(pos, n, sink, sink', plan', End, SignedHeader)
  BY <1>4, <1>6, <1>9, EmitKeeps
<1>11. End <= pos
  BY <1>4, <1>6, <1>7, <1>9 DEF Emitting
<1>12. Typed' /\ PlacedWhole'
  BY <1>4, <1>10, <1>11, EmitPast
<1>13. Emitting(pos', plan', sink', End, SignedHeader)
  BY <1>10 DEF EmitsTo
<1>14. pos + n <= DataAt
  BY <1>4, <1>6, <1>7, <1>10, <1>13 DEF Emitting
<1>15. Holds(sink', DataAt, StreamUnit)
  <2>1. Holds(sink, DataAt, StreamUnit)
    BY DEF RewritePart
  <2> QED BY <2>1, <1>7, <1>8, <1>10, <1>14, HeldPast
<1>16. stream.end = Len(sink) /\ stream.end = DataAt + Len(StreamUnit)
  BY DEF RewritePart
<1>17. Len(sink') = Len(sink)
  <2>1. pos + n <= Len(sink)
    BY <1>4, <1>7, <1>8, <1>14, <1>16
  <2> QED BY <2>1, <1>10 DEF EmitsTo
<1>18. \A i \in 1..Len(StreamHeader) : End + i > pos => sink[End + i] = StreamHeader[i]
  BY DEF RewritePart
<1>19. \A i \in 1..Len(StreamHeader) : End + i > pos' => sink'[End + i] = StreamHeader[i]
  <2>1. TAKE i \in 1..Len(StreamHeader)
  <2>2. HAVE End + i > pos'
  <2>3. End + i \in 1..Len(sink) /\ End + i > pos + n /\ End + i > pos
    BY <2>2, <1>4, <1>7, <1>8, <1>10, <1>16
  <2>4. sink'[End + i] = sink[End + i]
    BY <2>3, <1>10 DEF EmitsTo
  <2> QED BY <2>3, <2>4, <1>18
<1>20. /\ End' = End /\ StreamHeader' = StreamHeader /\ StreamPart' /\ DataAt' = DataAt
       /\ StreamUnit' = StreamUnit /\ SignedHeader' = SignedHeader
  BY <1>2, TermsSame DEF RewritePart
<1>21. RewritePart'
  BY <1>2, <1>13, <1>15, <1>16, <1>17, <1>19, <1>20 DEF RewritePart
<1>22. \A i \in 1..Len(sink) : sink'[i] # sink[i] =>
          /\ i > stream.offset
          /\ sink[i] \in {Placeholder, Datasum(<<>>)}
          /\ sink'[i][1] = sink[i][1]
  <2>1. TAKE i \in 1..Len(sink)
  <2>2. HAVE sink'[i] # sink[i]
  <2>3. i > pos /\ i <= pos + n
    BY <2>2, <1>4, <1>10 DEF EmitsTo
  <2> DEFINE j == i - End
  <2>4. j \in 1..Len(StreamHeader) /\ i = End + j /\ i > End
    BY <2>3, <1>4, <1>7, <1>11, <1>14
  <2>5. i - pos \in 1..n /\ pos + (i - pos) = i /\ pos - End + (i - pos) = j
    BY <2>3, <1>4
  <2> HIDE DEF j
  <2>6. sink[i] = StreamHeader[j]
    BY <2>3, <2>4, <1>18
  <2>7. sink'[i] = SignedHeader[j]
    <3>1. sink'[pos + (i - pos)] = SignedHeader[pos - End + (i - pos)]
      BY <2>5, <1>10 DEF EmitsTo
    <3> QED BY <3>1, <2>5
  <2>8. StreamHeader[j] # SignedHeader[j]
    BY <2>2, <2>6, <2>7
  <2>9. StreamHeader[j] \in {Placeholder, Datasum(<<>>)} /\ SignedHeader[j][1] = StreamHeader[j][1]
    BY <2>4, <2>8, <1>5 DEF SignsOver
  <2>10. stream.offset = End
    BY DEF RewritePart, StreamPart
  <2> QED BY <2>4, <2>6, <2>7, <2>9, <2>10
<1> QED BY <1>12, <1>21, <1>22

\* `emit` keeps the invariant, in every call.
LEMMA EmitKeepsInv ==
    ASSUME WInv, NEW n \in 1..Len(plan), Emit(n)
    PROVE  WInv'
<1>1. Typed /\ PlacedWhole /\ EnsureUsable /\ plan # <<>> /\ Part
  BY DEF WInv, Emit
<1>2. UNCHANGED <<state, form, call, stream, placed, adding>>
  BY DEF Emit
<1>3. call \in {"hdu", "start", "chunk", "fill", "rewrite"}
  BY <1>1 DEF Typed, TypeOK, Calls
<1>4. CASE call = "hdu"
  <2>1. Typed' /\ PlacedWhole' /\ HduPart'
    BY <1>1, <1>4, EmitHdu DEF Part
  <2> QED BY <2>1, <1>2, <1>4 DEF WInv, Part
<1>5. CASE call = "start"
  <2>1. Typed' /\ PlacedWhole' /\ StartPart'
    BY <1>1, <1>5, EmitStart DEF Part
  <2> QED BY <2>1, <1>2, <1>5 DEF WInv, Part
<1>6. CASE call = "chunk"
  <2> DEFINE cells == SubSeq(Data(stream.expected), stream.written + 1,
                             stream.written + stream.chunk)
  <2>1. ChunkPart
    BY <1>1, <1>6 DEF Part
  <2>2. IsSeq(cells)
    <3>1. Numbers
      BY <1>1, Basics
    <3>2. IsSeq(Data(stream.expected)) /\ Len(Data(stream.expected)) = stream.expected
      BY <3>1, DataIsSeq DEF Numbers
    <3>3. /\ stream.written + 1 \in 1..stream.expected + 1
          /\ stream.written + stream.chunk \in (stream.written + 1) - 1..stream.expected
      <4>1. /\ stream.written \in Nat /\ stream.chunk \in Nat /\ stream.expected \in Nat
            /\ stream.written + stream.chunk <= stream.expected
        BY <3>1 DEF Numbers
      <4>2. stream.written + 1 \in 1..stream.expected + 1
        BY <4>1
      <4>3. stream.written + stream.chunk \in (stream.written + 1) - 1..stream.expected
        BY <4>1
      <4> QED BY <4>2, <4>3
    <3>4. /\ stream.written + 1 \in 1..Len(Data(stream.expected)) + 1
          /\ stream.written + stream.chunk
               \in (stream.written + 1) - 1..Len(Data(stream.expected))
      BY <3>2, <3>3
    <3>5. Cuts(Data(stream.expected), stream.written + 1, stream.written + stream.chunk, cells)
      BY <3>2, <3>4, SubSeqIsSeq
    <3> HIDE DEF cells
    <3> QED BY <3>5 DEF Cuts
  <2>3. OpenPart /\ Emitting(pos, plan, sink, DataAt + stream.written, cells)
    BY <2>1 DEF ChunkPart
  <2> HIDE DEF cells
  <2>4. /\ Typed' /\ PlacedWhole' /\ OpenPart'
        /\ Emitting(pos', plan', sink', DataAt + stream.written, cells)
    BY <1>1, <2>2, <2>3, EmitOpen
  <2>5. DataAt' = DataAt /\ cells' = cells
    BY <1>2, TermsSame DEF cells
  <2>6. ChunkPart'
    BY <2>4, <2>5, <1>2 DEF ChunkPart, cells
  <2> QED BY <2>4, <2>6, <1>2, <1>6 DEF WInv, Part
<1>7. CASE call = "fill"
  <2>1. FillPart
    BY <1>1, <1>7 DEF Part
  <2>2. OpenPart /\ Emitting(pos, plan, sink, DataAt + stream.written, StreamFill)
        /\ stream.written = stream.expected /\ stream.chunk = 0
    BY <2>1 DEF FillPart
  <2>3. IsSeq(StreamFill)
    BY <1>1, <2>2, StreamShape DEF StreamFacts, OpenPart
  <2>4. /\ Typed' /\ PlacedWhole' /\ OpenPart'
        /\ Emitting(pos', plan', sink', DataAt + stream.written, StreamFill)
    BY <1>1, <2>2, <2>3, EmitOpen
  <2>5. DataAt' = DataAt /\ StreamFill' = StreamFill
    BY <1>2, TermsSame
  <2>6. FillPart'
    BY <2>2, <2>4, <2>5, <1>2 DEF FillPart
  <2> QED BY <2>4, <2>6, <1>2, <1>7 DEF WInv, Part
<1>8. CASE call = "rewrite"
  <2>1. Typed' /\ PlacedWhole' /\ RewritePart'
    BY <1>1, <1>8, EmitRewrite DEF Part
  <2> QED BY <2>1, <1>2, <1>8 DEF WInv, Part
<1> QED BY <1>3, <1>4, <1>5, <1>6, <1>7, <1>8


--------------------------------------------------------------------------------
(* HDUs added. *)

\* All of a sequence, cut.
LEMMA CutOfAll ==
    ASSUME NEW cells, IsSeq(cells)
    PROVE  SubSeq(cells, 1, Len(cells)) = cells
<1> DEFINE s == SubSeq(cells, 1, Len(cells))
<1>1. Len(cells) \in Nat
  BY LenNat
<1>2. Cuts(cells, 1, Len(cells), s)
  BY <1>1, SubSeqIsSeq
<1> HIDE DEF s
<1>3. IsSeq(s) /\ Len(s) = Len(cells) /\ \A i \in 1..Len(s) : s[i] = cells[i]
  BY <1>1, <1>2 DEF Cuts
<1>4. s = cells
  BY <1>3, SeqsEqual
<1> QED BY <1>4 DEF s

\* Before its first byte a call has everything left to emit.
LEMMA EmitBegins ==
    ASSUME NEW cells, IsSeq(cells), NEW base \in Nat, NEW file
    PROVE  Emitting(base, cells, file, base, cells)
<1>1. SubSeq(cells, 1, Len(cells)) = cells
  BY CutOfAll
<1>2. base - base + 1 = 1 /\ base \in base..base + Len(cells) /\ base - base = 0
  BY LenNat
<1> QED BY <1>1, <1>2 DEF Emitting

\* After its last, the file holds it all.
LEMMA EmitEnds ==
    ASSUME NEW cells, IsSeq(cells), NEW base \in Nat, NEW file, NEW p, p <= Len(file),
           Len(file) \in Nat, Emitting(p, <<>>, file, base, cells)
    PROVE  p = base + Len(cells) /\ Holds(file, base, cells)
<1>1. RestOf(p, <<>>, base, cells)
  BY RestShape
<1>2. Len(cells) \in Nat /\ p \in Nat /\ Len(<<>>) = 0
  BY LenNat, EmptyIsSeq DEF Emitting
<1>3. p = base + Len(cells)
  BY <1>1, <1>2 DEF RestOf
<1> QED BY <1>2, <1>3 DEF Emitting, Holds

\* The file from m to n is what the cells from a base have there.
CutsAlike(file, base, cells, m, n) ==
    SubSeq(file, m + 1, n) = SubSeq(cells, m - base + 1, n - base)

\* What a file holds of some cells, cut at the same places.
LEMMA CutOfHeld ==
    ASSUME NEW file, IsSeq(file), NEW base \in Nat, NEW cells, IsSeq(cells),
           Holds(file, base, cells), NEW m \in Nat, NEW n \in Nat,
           base <= m, m <= n, n <= base + Len(cells)
    PROVE  CutsAlike(file, base, cells, m, n)
<1> DEFINE s == SubSeq(file, m + 1, n)
           t == SubSeq(cells, m - base + 1, n - base)
           k == m - base
<1>1. Len(cells) \in Nat /\ Len(file) \in Nat /\ base + Len(cells) <= Len(file)
  BY LenNat DEF Holds
<1>2. Cuts(file, m + 1, n, s)
  BY <1>1, SubSeqIsSeq
<1>3. Cuts(cells, m - base + 1, n - base, t)
  <2>1. m - base + 1 \in 1..Len(cells) + 1 /\ n - base \in (m - base + 1) - 1..Len(cells)
    BY <1>1
  <2> QED BY <2>1, SubSeqIsSeq
<1> HIDE DEF s, t
<1>4. /\ IsSeq(s) /\ Len(s) = n - m
      /\ \A i \in 1..n - m : s[i] = file[m + i]
  BY <1>1, <1>2 DEF Cuts
<1>5. /\ IsSeq(t) /\ Len(t) = n - m
      /\ \A i \in 1..n - m : t[i] = cells[k + i]
  BY <1>1, <1>3 DEF Cuts
<1>6. \A i \in 1..n - m : file[m + i] = cells[k + i]
  <2>1. TAKE i \in 1..n - m
  <2>2. k + i \in 1..Len(cells) /\ base + (k + i) = m + i
    BY <1>1
  <2>3. file[base + (k + i)] = cells[k + i]
    BY <2>2 DEF Holds
  <2> QED BY <2>2, <2>3
<1>7. s = t
  BY <1>4, <1>5, <1>6, SeqsEqual
<1> QED BY <1>7 DEF s, t, CutsAlike

\* A step that leaves the file and the log alone.
LEMMA PlacedSame ==
    ASSUME PlacedWhole, UNCHANGED <<sink, placed, form>>
    PROVE  PlacedWhole' /\ End' = End
BY DEF PlacedWhole, End, Committed

\* The HDUs a commit adds to the log.
LEMMA PlacedGrows ==
    ASSUME Typed, PlacedWhole, UNCHANGED <<sink, form>>,
           NEW added, Extents(added, End), Len(added) >= 1,
           placed' = placed \o added,
           added[Len(added)].to <= Len(sink),
           \A j \in 1..Len(added) :
               /\ added[j].to <= added[Len(added)].to
               /\ IsHdu(Len(placed) + j, SubSeq(sink, added[j].from + 1, added[j].to),
                        form.checksums)
    PROVE  /\ PlacedWhole'
           /\ End' = added[Len(added)].to
           /\ placed' # <<>>
<1> DEFINE n == Len(placed)
           k == Len(added)
<1>1. IsSeq(placed) /\ IsSeq(added) /\ n \in Nat /\ k \in Nat /\ k >= 1
  BY LenNat DEF PlacedWhole, Extents
<1>2. Joins(placed, added, placed')
  BY <1>1, ConcatIsSeq
<1>3. /\ IsSeq(placed') /\ Len(placed') = n + k
      /\ \A i \in 1..n : placed'[i] = placed[i]
      /\ \A j \in 1..k : placed'[n + j] = added[j]
  BY <1>2 DEF Joins
<1>4. placed' # <<>>
  <2>1. Len(placed') # Len(<<>>)
    BY <1>1, <1>3, EmptyIsSeq
  <2> QED BY <2>1
<1>5. End' = added[k].to
  BY <1>1, <1>3, <1>4 DEF End
<1>6. End = (IF n = 0 THEN 0 ELSE placed[n].to)
  <2>1. n = 0 <=> placed = <<>>
    <3>1. ASSUME n = 0 PROVE placed = <<>>
      BY <1>1, <3>1, EmptyIsSeq, SeqsEqual
    <3> QED BY <3>1, EmptyIsSeq
  <2> QED BY <2>1 DEF End
<1>7. End \in Nat /\ Len(sink) \in Nat
  BY LenNat DEF PlacedWhole, Typed
<1>8. /\ \A i \in 1..n :
          /\ placed[i] = Extent(placed[i].from, placed[i].to)
          /\ placed[i].from \in Nat /\ placed[i].to \in Nat
          /\ placed[i].from = (IF i = 1 THEN 0 ELSE placed[i - 1].to)
          /\ placed[i].from < placed[i].to
          /\ placed[i].to <= End
          /\ IsHdu(i, Committed(i), form.checksums)
      /\ \A j \in 1..k :
          /\ added[j] = Extent(added[j].from, added[j].to)
          /\ added[j].from \in Nat /\ added[j].to \in Nat
          /\ added[j].from = (IF j = 1 THEN End ELSE added[j - 1].to)
          /\ added[j].from < added[j].to
  BY DEF PlacedWhole, Extents
<1>9. added[1].from = End /\ added[1].to <= added[k].to /\ End < added[k].to
      /\ added[k].to \in 0..Len(sink)
  <2>1. 1 \in 1..k /\ k \in 1..k
    BY <1>1
  <2>2. /\ added[1].from = End /\ added[1].from < added[1].to
        /\ added[1].from \in Nat /\ added[1].to \in Nat /\ added[k].to \in Nat
    BY <2>1, <1>8
  <2>3. added[1].to <= added[k].to /\ added[k].to <= Len(sink)
    BY <2>1
  <2> QED BY <2>2, <2>3, <1>7
<1> DEFINE Good(i) ==
        /\ placed'[i] = Extent(placed'[i].from, placed'[i].to)
        /\ placed'[i].from \in Nat /\ placed'[i].to \in Nat
        /\ placed'[i].from = (IF i = 1 THEN 0 ELSE placed'[i - 1].to)
        /\ placed'[i].from < placed'[i].to
        /\ placed'[i].to <= added[k].to
        /\ IsHdu(i, Committed(i)', form.checksums)
<1>10. \A i \in 1..n : Good(i)
  <2>1. TAKE i \in 1..n
  <2>2. placed'[i] = placed[i] /\ (i # 1 => placed'[i - 1] = placed[i - 1])
    BY <1>1, <1>3
  <2>3. Committed(i)' = Committed(i)
    BY <2>2 DEF Committed
  <2>4. IsHdu(i, Committed(i)', form.checksums)
    BY <2>3, <1>8
  <2>5. placed'[i].to <= added[k].to
    <3>1. placed[i].to \in Nat /\ placed[i].to <= End /\ End < added[k].to
      BY <1>8, <1>9
    <3>2. placed[i].to <= added[k].to
      BY <3>1, <1>7, <1>9
    <3> QED BY <3>2, <2>2
  <2> QED BY <2>2, <2>4, <2>5, <1>8
<1>11. ASSUME NEW i \in Nat, NEW j \in 1..k, i = n + j PROVE Good(i)
  <2>1. placed'[i] = added[j]
    BY <1>3, <1>11
  <2>2. placed'[i].from = (IF i = 1 THEN 0 ELSE placed'[i - 1].to)
    <3>1. CASE j = 1
      <4>1. CASE n = 0
        BY <4>1, <3>1, <2>1, <1>6, <1>8, <1>11
      <4>2. CASE n # 0
        <5>1. n \in 1..n /\ i - 1 = n /\ i # 1
          BY <4>2, <3>1, <1>1, <1>11
        <5>2. placed'[i - 1] = placed[n]
          BY <5>1, <1>3
        <5> QED BY <5>1, <5>2, <3>1, <4>2, <2>1, <1>6, <1>8
      <4> QED BY <4>1, <4>2
    <3>2. CASE j # 1
      <4>1. j - 1 \in 1..k /\ n + (j - 1) = i - 1 /\ i # 1
        BY <3>2, <1>1, <1>11
      <4>2. placed'[n + (j - 1)] = added[j - 1]
        BY <4>1, <1>3
      <4>3. placed'[i - 1] = added[j - 1]
        BY <4>1, <4>2
      <4>4. added[j].from = added[j - 1].to
        BY <3>2, <1>8
      <4> QED BY <4>1, <4>3, <4>4, <2>1
    <3> QED BY <3>1, <3>2
  <2>3. IsHdu(i, Committed(i)', form.checksums)
    <3>1. Committed(i)' = SubSeq(sink, added[j].from + 1, added[j].to)
      BY <2>1 DEF Committed
    <3>2. IsHdu(i, SubSeq(sink, added[j].from + 1, added[j].to), form.checksums)
      BY <1>11
    <3> QED BY <3>1, <3>2
  <2>4. placed'[i].to <= added[k].to
    BY <2>1
  <2> QED BY <2>1, <2>2, <2>3, <2>4, <1>8
<1>12. \A i \in 1..Len(placed') : Good(i)
  <2>1. TAKE i \in 1..Len(placed')
  <2>2. CASE i <= n
    BY <2>2, <1>1, <1>3, <1>10
  <2>3. CASE i > n
    <3>1. i - n \in 1..k /\ i = n + (i - n) /\ i \in Nat
      BY <2>3, <1>1, <1>3
    <3>2. PICK j \in 1..k : i = n + j
      BY <3>1
    <3> QED BY <3>1, <3>2, <1>11
  <2> QED BY <2>2, <2>3, <1>1, <1>3
<1>13. Extents(placed, 0)'
  BY <1>3, <1>12 DEF Extents
<1>14. PlacedWhole'
  BY <1>5, <1>9, <1>12, <1>13 DEF PlacedWhole
<1> QED BY <1>4, <1>5, <1>14

\* The empty primary: a header unit with no data after it.
LEMMA LeadIsHdu ==
    ASSUME NEW signs \in BOOLEAN, NEW spare \in Nat
    PROVE  /\ RenderInto(EmptyPrimary, SigningOf(signs, <<>>), spare)
                 = HduCells(EmptyPrimary, signs, spare, TRUE)
           /\ IsHeader(EmptyPrimary)
           /\ HasRole(EmptyPrimary, TRUE)
<1> DEFINE kind == KindOf(EmptyPrimary, TRUE)
           hc   == HeaderCells(EmptyPrimary, signs, spare, TRUE)
<1>1. /\ IsHeader(EmptyPrimary) /\ HasRole(EmptyPrimary, TRUE)
      /\ kind = [ext |-> FALSE, ascii |-> FALSE, len |-> 0]
  BY OneOpenShape DEF EmptyPrimary
<1> HIDE DEF kind
<1>2. kind.len = 0
  BY <1>1
<1>3. UnitOf(kind) = <<>>
  BY <1>2, EmptyUnit
<1>4. hc = RenderInto(EmptyPrimary, SigningOf(signs, <<>>), spare)
  BY <1>3 DEF HeaderCells, kind
<1>5. HduParts(EmptyPrimary, signs, spare, TRUE)
  BY <1>1, HduShape
<1>6. IsSeq(hc)
  BY <1>5 DEF HduParts
<1>7. HduCells(EmptyPrimary, signs, spare, TRUE) = hc \o <<>>
  BY <1>3 DEF HduCells, kind
<1> HIDE DEF hc
<1>8. hc \o <<>> = hc
  BY <1>6, ConcatEmpty
<1> QED BY <1>1, <1>4, <1>7, <1>8

\* The cells of an HDU, and how many: at least its header.
LEMMA HduIsSeq ==
    ASSUME NEW header, IsHeader(header), NEW primary \in BOOLEAN, HasRole(header, primary),
           NEW signs \in BOOLEAN, NEW spare \in Nat
    PROVE  LET u == HduCells(header, signs, spare, primary)
           IN  IsSeq(u) /\ Len(u) \in Nat /\ Len(u) > 0
<1> DEFINE u == HduCells(header, signs, spare, primary)
           hc == HeaderCells(header, signs, spare, primary)
           unit == UnitOf(KindOf(header, primary))
<1>1. HduParts(header, signs, spare, primary)
  BY HduShape
<1>2. Len(hc) \in Nat /\ Len(hc) > 0 /\ Len(unit) \in Nat /\ Joins(hc, unit, u)
  BY <1>1 DEF HduParts
<1> HIDE DEF hc, unit, u
<1>3. IsSeq(u) /\ Len(u) \in Nat /\ Len(u) > 0
  BY <1>2 DEF Joins
<1> QED BY <1>3 DEF u

\* One HDU to add to the log.
LEMMA AddOne ==
    ASSUME NEW from \in Nat, NEW cells, IsSeq(cells), Len(cells) > 0, NEW n \in Nat, NEW signs,
           IsHdu(n + 1, cells, signs)
    PROVE  Adds(<<Extent(from, from + Len(cells))>>, from, cells, n, signs)
<1> DEFINE e == Extent(from, from + Len(cells))
           added == <<e>>
<1>1. Len(cells) \in Nat
  BY LenNat
<1>2. /\ e = Extent(e.from, e.to) /\ e.from = from /\ e.to = from + Len(cells)
      /\ e.from \in Nat /\ e.to \in Nat /\ e.from < e.to
  BY <1>1 DEF Extent
<1> HIDE DEF e
<1>3. IsSeq(added) /\ Len(added) = 1 /\ added[1] = e
  BY SingletonIsSeq
<1> HIDE DEF added
<1>4. Extents(added, from)
  BY <1>2, <1>3 DEF Extents
<1>5. SubSeq(cells, added[1].from - from + 1, added[1].to - from) = cells
  <2>1. added[1].from - from + 1 = 1 /\ added[1].to - from = Len(cells)
    BY <1>1, <1>2, <1>3
  <2>2. SubSeq(cells, 1, Len(cells)) = cells
    BY CutOfAll
  <2> QED BY <2>1, <2>2
<1>6. \A j \in 1..Len(added) : j = 1
  BY <1>3
<1>7. added[1].to <= from + Len(cells)
  BY <1>1, <1>2, <1>3
<1>8. Adds(added, from, cells, n, signs)
  <2>1. \A j \in 1..Len(added) :
          IsHdu(n + j, SubSeq(cells, added[j].from - from + 1, added[j].to - from), signs)
    BY <1>5, <1>6
  <2> QED BY <2>1, <1>2, <1>3, <1>4, <1>6, <1>7 DEF Adds
<1> QED BY <1>8 DEF added, e

\* An empty primary and the HDU after it.
LEMMA AddTwo ==
    ASSUME NEW base \in Nat, NEW s, IsSeq(s), Len(s) > 0, NEW t, IsSeq(t), Len(t) > 0,
           NEW signs, IsHdu(1, s, signs), IsHdu(2, t, signs)
    PROVE  Adds(<<Extent(base, base + Len(s))>>
                    \o <<Extent(base + Len(s), base + Len(s) + Len(t))>>,
                base, s \o t, 0, signs)
<1> DEFINE m  == base + Len(s)
           n  == base + Len(s) + Len(t)
           d  == Extent(base, m)
           e  == Extent(m, n)
           added == <<d>> \o <<e>>
           u  == s \o t
<1>1. Len(s) \in Nat /\ Len(t) \in Nat
  BY LenNat
<1>2. /\ d = Extent(d.from, d.to) /\ d.from = base /\ d.to = m
      /\ e = Extent(e.from, e.to) /\ e.from = m /\ e.to = n
  BY DEF Extent
<1>3. m \in Nat /\ n \in Nat /\ base < m /\ m < n
  BY <1>1
<1> HIDE DEF d, e
<1>4. /\ IsSeq(<<d>>) /\ Len(<<d>>) = 1 /\ <<d>>[1] = d
      /\ IsSeq(<<e>>) /\ Len(<<e>>) = 1 /\ <<e>>[1] = e
  BY SingletonIsSeq
<1>5. Joins(<<d>>, <<e>>, added)
  BY <1>4, ConcatIsSeq
<1> HIDE DEF added
<1>6. IsSeq(added) /\ Len(added) = 2 /\ added[1] = d /\ added[2] = e
  <2>1. /\ IsSeq(added) /\ Len(added) = 1 + 1
        /\ \A i \in 1..1 : added[i] = <<d>>[i]
        /\ \A i \in 1..1 : added[1 + i] = <<e>>[i]
    BY <1>4, <1>5 DEF Joins
  <2>2. added[1] = <<d>>[1] /\ added[1 + 1] = <<e>>[1]
    BY <2>1
  <2> QED BY <2>1, <2>2, <1>4
<1>7. Extents(added, base)
  <2> HIDE DEF m, n
  <2>1. \A i \in 1..Len(added) : i = 1 \/ i = 2
    BY <1>6
  <2>2. \A i \in 1..Len(added) :
          /\ added[i] = Extent(added[i].from, added[i].to)
          /\ added[i].from \in Nat /\ added[i].to \in Nat
          /\ added[i].from < added[i].to
    BY <2>1, <1>2, <1>3, <1>6
  <2>3. \A i \in 1..Len(added) :
          added[i].from = (IF i = 1 THEN base ELSE added[i - 1].to)
    <3>1. TAKE i \in 1..Len(added)
    <3>2. CASE i = 1
      BY <3>2, <1>2, <1>6
    <3>3. CASE i = 2
      <4>1. i - 1 = 1
        BY <3>3
      <4> QED BY <4>1, <3>3, <1>2, <1>6
    <3> QED BY <3>2, <3>3, <2>1
  <2> QED BY <2>2, <2>3, <1>6 DEF Extents
<1>8. Joins(s, t, u)
  BY ConcatIsSeq
<1>9. SubSeq(u, 0 + 1, 0 + Len(s)) = s /\ SubSeq(u, Len(s) + 1, Len(s) + Len(t)) = t
  <2> HIDE DEF u
  <2>1. IsSeq(u) /\ Holds(u, 0, s) /\ Holds(u, Len(s), t)
    BY <1>1, <1>8 DEF Joins, Holds
  <2>2. SubSeq(u, 0 + 1, 0 + Len(s)) = s
    BY <2>1, SubSeqOfHeld
  <2>3. SubSeq(u, Len(s) + 1, Len(s) + Len(t)) = t
    BY <2>1, <1>1, SubSeqOfHeld
  <2> QED BY <2>2, <2>3
<1>10. /\ base - base + 1 = 0 + 1 /\ m - base = 0 + Len(s)
       /\ m - base + 1 = Len(s) + 1 /\ n - base = Len(s) + Len(t)
  BY <1>1
<1>11. /\ SubSeq(u, base - base + 1, m - base) = s
       /\ SubSeq(u, m - base + 1, n - base) = t
  BY <1>9, <1>10
<1> HIDE DEF m, n
<1> HIDE DEF u
<1>12. Len(u) = Len(s) + Len(t)
  BY <1>8 DEF Joins
<1>13. n = base + Len(u) /\ m <= n
  BY <1>1, <1>12 DEF m, n
<1> HIDE DEF m, n
<1>14. \A j \in 1..Len(added) : j = 1 \/ j = 2
  BY <1>6
<1>15. n <= n
  BY <1>3
<1>16. Adds(added, base, u, 0, signs)
  <2>1. IsHdu(0 + 1, SubSeq(u, added[1].from - base + 1, added[1].to - base), signs)
    <3>1. SubSeq(u, added[1].from - base + 1, added[1].to - base) = s
      BY <1>2, <1>6, <1>11
    <3>2. 0 + 1 = 1
      OBVIOUS
    <3> QED BY <3>1, <3>2
  <2>2. IsHdu(0 + 2, SubSeq(u, added[2].from - base + 1, added[2].to - base), signs)
    <3>1. SubSeq(u, added[2].from - base + 1, added[2].to - base) = t
      BY <1>2, <1>6, <1>11
    <3>2. 0 + 2 = 2
      OBVIOUS
    <3> QED BY <3>1, <3>2
  <2>3. \A j \in 1..Len(added) :
          /\ added[j].to <= base + Len(u)
          /\ IsHdu(0 + j, SubSeq(u, added[j].from - base + 1, added[j].to - base), signs)
    BY <2>1, <2>2, <1>2, <1>6, <1>13, <1>14, <1>15
  <2>4. added[Len(added)].to = base + Len(u)
    BY <1>2, <1>6, <1>13
  <2> QED BY <2>3, <2>4, <1>6, <1>7 DEF Adds
<1> QED BY <1>16 DEF added, d, e, m, n, u

\* A call that has rendered its HDUs, and not emitted a byte.
LEMMA HduBegins ==
    ASSUME Typed, PlacedWhole, IdlePart, EnsureUsable, ~stream.open,
           NEW cells, IsSeq(cells), plan' = cells, call' = "hdu",
           UNCHANGED <<sink, pos, state, form, stream, placed>>,
           Adds(adding', End, cells, Len(placed), form.checksums)
    PROVE  WInv'
<1>1. Numbers
  BY Basics
<1>2. PlacedWhole' /\ End' = End
  BY PlacedSame
<1>3. Emitting(pos', plan', sink', End', cells)
  BY <1>1, <1>2, EmitBegins DEF IdlePart, Numbers
<1>4. AddingWhole(cells)'
  BY <1>2 DEF AddingWhole
<1>5. HduPart'
  BY <1>2, <1>3, <1>4 DEF HduPart, IdlePart, EmptyIffNone
<1>6. TypeOK'
  BY DEF Typed, TypeOK, Calls
<1>7. StreamFields'
  BY DEF Typed, StreamFields
<1>8. Typed'
  BY <1>6, <1>7 DEF Typed, EnsureUsable
<1> QED BY <1>2, <1>5, <1>8 DEF WInv, Part

\* `finish_hdu` renders the HDU it will commit, and an empty primary before an
\* extension that comes first.
LEMMA FinishHduKeepsInv ==
    ASSUME WInv, NEW header, IsHeader(header), NEW len, FinishHdu(header, len)
    PROVE  WInv'
<1> DEFINE primary == GoesFirst(header)
           kind == KindOf(header, primary)
           unit == UnitOf(kind)
           lead == Lead(header)
           hdu  == HduCells(header, form.checksums, form.spare, primary)
           n    == Len(placed)
<1>1. Typed /\ PlacedWhole /\ EnsureUsable /\ ~stream.open /\ IdlePart
  BY DEF WInv, FinishHdu, Part, Idle
<1>2. Numbers
  BY <1>1, Basics
<1>3. /\ pos = End /\ End \in Nat /\ n \in Nat
      /\ form.checksums \in BOOLEAN /\ form.spare \in Nat
  BY <1>1, <1>2, LenNat DEF Numbers, IdlePart, PlacedWhole, Extents
<1>4. NextIsPrimary <=> n = 0
  <2>1. NextIsPrimary <=> placed = <<>>
    BY <1>1 DEF NextIsPrimary, IdlePart, EmptyIffNone
  <2>2. n = 0 => placed = <<>>
    BY <1>1, EmptyIsSeq, SeqsEqual DEF PlacedWhole, Extents
  <2> QED BY <2>1, <2>2, EmptyIsSeq
<1>5. primary \in BOOLEAN /\ HasRole(header, primary) /\ kind.len = len
  BY DEF FinishHdu, GoesFirst
<1>6. /\ call' = "hdu"
      /\ plan' = lead \o hdu
      /\ adding' = (IF lead = <<>> THEN <<>> ELSE <<Extent(pos, pos + Len(lead))>>)
                     \o <<Extent(pos + Len(lead), pos + Len(lead) + Len(hdu))>>
      /\ UNCHANGED <<sink, pos, state, form, stream, placed>>
  <2>1. unit = Data(len) \o DataFill(kind)
    BY <1>5 DEF UnitOf
  <2>2. Signing(unit) = SigningOf(form.checksums, unit)
    BY DEF Signing, SigningOf
  <2>3. RenderInto(header, Signing(unit), form.spare) \o unit = hdu
    BY <2>2 DEF HduCells, HeaderCells
  <2> QED BY <2>1, <2>3 DEF FinishHdu
<1>7. IsSeq(hdu) /\ Len(hdu) \in Nat /\ Len(hdu) > 0
  BY <1>3, <1>5, HduIsSeq
<1>8. n # 0 => primary = FALSE
  BY <1>4 DEF GoesFirst
<1>9. End' = End /\ placed' = placed /\ (placed = <<>> <=> n = 0)
  <2>1. n = 0 => placed = <<>>
    BY <1>1, EmptyIsSeq, SeqsEqual DEF PlacedWhole, Extents
  <2> QED BY <2>1, <1>6, EmptyIsSeq DEF End
<1> DEFINE signs == form.checksums
           spare == form.spare
<1>10. CASE n = 0 /\ ~primary
  <2>1. lead = RenderInto(EmptyPrimary, SigningOf(signs, <<>>), spare)
    BY <1>4, <1>10 DEF Lead, Signing, SigningOf
  <2> HIDE DEF lead, signs, spare, primary, hdu
  <2>2. signs \in BOOLEAN /\ spare \in Nat /\ ~primary
    BY <1>3, <1>10 DEF signs, spare
  <2>3. /\ lead = HduCells(EmptyPrimary, signs, spare, TRUE)
        /\ IsHeader(EmptyPrimary) /\ HasRole(EmptyPrimary, TRUE)
    BY <2>1, <2>2, LeadIsHdu
  <2>4. IsSeq(lead) /\ Len(lead) \in Nat /\ Len(lead) > 0
    BY <2>2, <2>3, HduIsSeq
  <2>5. IsHdu(1, lead, signs)
    <3>1. (1 = 1) = TRUE
      OBVIOUS
    <3> QED BY <3>1, <2>2, <2>3 DEF IsHdu
  <2>6. IsHdu(2, hdu, signs)
    <3>1. (2 = 1) = FALSE /\ primary = FALSE
      BY <1>5, <2>2
    <3>2. HasRole(header, FALSE) /\ hdu = HduCells(header, signs, spare, FALSE)
      BY <3>1, <1>5 DEF hdu, signs, spare
    <3> QED BY <3>1, <3>2, <2>2 DEF IsHdu
  <2>7. lead # <<>>
    BY <2>4, EmptyIsSeq
  <2>8. adding' = <<Extent(End, End + Len(lead))>>
                     \o <<Extent(End + Len(lead), End + Len(lead) + Len(hdu))>>
    BY <2>7, <1>3, <1>6
  <2>9. Adds(adding', End, lead \o hdu, 0, signs)
    BY <2>4, <2>5, <2>6, <2>8, <1>3, <1>7, AddTwo
  <2>10. Adds(adding', End, lead \o hdu, Len(placed), form.checksums)
    BY <2>9, <1>10 DEF signs
  <2>11. IsSeq(lead \o hdu)
    BY <2>4, <1>7, ConcatIsSeq DEF Joins
  <2> DEFINE cells == lead \o hdu
  <2>12. IsSeq(cells) /\ plan' = cells
         /\ Adds(adding', End, cells, Len(placed), form.checksums)
    BY <2>10, <2>11, <1>6
  <2> HIDE DEF cells
  <2> QED BY <2>12, <1>1, <1>6, HduBegins
<1>11. CASE ~(n = 0 /\ ~primary)
  <2>1. lead = <<>>
    BY <1>4, <1>11 DEF Lead
  <2>2. IsHdu(n + 1, hdu, signs)
    <3>1. (n + 1 = 1) = primary
      BY <1>3, <1>5, <1>8, <1>11
    <3> HIDE DEF primary
    <3> QED BY <3>1, <1>3, <1>5 DEF IsHdu
  <2> HIDE DEF lead, primary, hdu
  <2>3. plan' = hdu
    <3>1. <<>> \o hdu = hdu
      BY <1>7, ConcatEmpty
    <3> QED BY <3>1, <2>1, <1>6
  <2>4. adding' = <<Extent(End, End + Len(hdu))>>
    <3> DEFINE one == <<Extent(End, End + Len(hdu))>>
    <3>1. adding' = <<>> \o one
      <4>1. Len(lead) = 0 /\ pos + 0 = End
        BY <2>1, <1>3, EmptyIsSeq
      <4> QED BY <4>1, <2>1, <1>6
    <3>2. IsSeq(one)
      BY SingletonIsSeq
    <3> HIDE DEF one
    <3>3. adding' = one
      BY <3>1, <3>2, ConcatEmpty
    <3> QED BY <3>3 DEF one
  <2>5. Adds(adding', End, hdu, n, signs)
    BY <2>2, <2>4, <1>3, <1>7, AddOne
  <2> QED BY <2>3, <2>5, <1>1, <1>6, <1>7, HduBegins
<1> QED BY <1>10, <1>11

\* Each write call is a `finish_hdu` of a header.
LEMMA WriteIsFinish ==
    ASSUME WriteRawHdu \/ WriteImage \/ WriteTable \/ WriteEmptyPrimary
    PROVE  \E header, len : IsHeader(header) /\ FinishHdu(header, len)
<1>1. 0..MaxLen \in SUBSET Nat
  BY WriterAssumption
<1>2. CASE WriteRawHdu
  <2>1. PICK header \in RawHeaders, len \in 0..MaxLen : FinishHdu(header, len)
    BY <1>2 DEF WriteRawHdu
  <2> QED BY <2>1, WriterAssumption
<1>3. CASE WriteImage
  <2>1. PICK len \in 0..MaxLen : FinishHdu(<<Open(~NextIsPrimary, FALSE, len)>>, len)
    BY <1>3 DEF WriteImage
  <2> DEFINE ext == ~NextIsPrimary
  <2>2. ext \in BOOLEAN /\ len \in Nat
    BY <1>1
  <2> HIDE DEF ext
  <2>3. IsHeader(<<Open(ext, FALSE, len)>>)
    BY <2>2, OneOpenShape
  <2> QED BY <2>1, <2>3 DEF ext
<1>4. CASE WriteTable
  <2>1. PICK ascii \in BOOLEAN, len \in 0..MaxLen :
            FinishHdu(<<Open(TRUE, ascii, len), Card(1)>>, len)
    BY <1>4 DEF WriteTable
  <2>2. IsHeader(<<Open(TRUE, ascii, len), Card(1)>>)
    BY <1>1, OpenAndCardIsHeader
  <2> QED BY <2>1, <2>2
<1>5. CASE WriteEmptyPrimary
  <2>1. FinishHdu(EmptyPrimary, 0)
    BY <1>5 DEF WriteEmptyPrimary
  <2>2. IsHeader(EmptyPrimary)
    BY OneOpenShape DEF EmptyPrimary
  <2> QED BY <2>1, <2>2
<1> QED BY <1>2, <1>3, <1>4, <1>5

\* The write calls keep the invariant.
LEMMA WriteKeepsInv ==
    ASSUME WInv, WriteRawHdu \/ WriteImage \/ WriteTable \/ WriteEmptyPrimary
    PROVE  WInv'
BY WriteIsFinish, FinishHduKeepsInv

\* A commit of what the file holds after the log.
LEMMA CommitHeld ==
    ASSUME Typed, PlacedWhole, UNCHANGED <<sink, form>>, NEW cells, IsSeq(cells),
           Holds(sink, End, cells), NEW added,
           Adds(added, End, cells, Len(placed), form.checksums),
           placed' = placed \o added
    PROVE  PlacedWhole' /\ End' = End + Len(cells) /\ placed' # <<>>
<1> DEFINE k == Len(added)
<1>1. Numbers
  BY Basics
<1>2. /\ IsSeq(sink) /\ End \in Nat /\ Len(sink) \in Nat /\ Len(cells) \in Nat
      /\ End + Len(cells) <= Len(sink)
  BY <1>1, LenNat DEF Numbers, Holds
<1>3. /\ Extents(added, End) /\ k >= 1
      /\ added[k].to = End + Len(cells)
      /\ \A j \in 1..k :
          /\ added[j].to <= End + Len(cells)
          /\ IsHdu(Len(placed) + j, SubSeq(cells, added[j].from - End + 1, added[j].to - End),
                   form.checksums)
  <2>1. Extents(added, End) /\ added[k].to = End + Len(cells) /\ k \in {1, 2}
    BY DEF Adds
  <2>2. \A j \in 1..k :
          /\ added[j].to <= End + Len(cells)
          /\ IsHdu(Len(placed) + j, SubSeq(cells, added[j].from - End + 1, added[j].to - End),
                   form.checksums)
    BY DEF Adds
  <2> HIDE DEF k
  <2>3. k >= 1
    BY <2>1
  <2> QED BY <2>1, <2>2, <2>3
<1>4. \A j \in 1..k : added[j].from \in Nat /\ added[j].to \in Nat /\ added[j].from < added[j].to
  <2>1. \A j \in 1..k : j \in 1..Len(added)
    OBVIOUS
  <2> HIDE DEF k
  <2> QED BY <2>1, <1>3 DEF Extents
<1>5. \A j \in 1..k : End <= added[j].from
  <2>1. TAKE j \in 1..k
  <2>2. j = 1 \/ j = 2
    BY DEF Adds
  <2>3. CASE j = 1
    <3>1. added[j].from = End
      BY <2>3, <1>3 DEF Extents
    <3> QED BY <3>1, <1>2
  <2>4. CASE j = 2
    <3>1. 1 \in 1..k /\ j - 1 = 1 /\ j # 1
      BY <2>4, <1>3
    <3>2. added[j].from = added[1].to
      BY <3>1, <1>3 DEF Extents
    <3>3. added[1].from = End
      BY <3>1, <1>3 DEF Extents
    <3> QED BY <3>1, <3>2, <3>3, <1>2, <1>4
  <2> QED BY <2>2, <2>3, <2>4
<1>6. \A j \in 1..k :
        SubSeq(sink, added[j].from + 1, added[j].to)
            = SubSeq(cells, added[j].from - End + 1, added[j].to - End)
  <2>1. TAKE j \in 1..k
  <2> DEFINE m == added[j].from
             n == added[j].to
  <2>2. m \in Nat /\ n \in Nat /\ End <= m /\ m <= n /\ n <= End + Len(cells)
    BY <1>3, <1>4, <1>5
  <2> HIDE DEF m, n
  <2>3. CutsAlike(sink, End, cells, m, n)
    BY <2>2, <1>2, CutOfHeld
  <2> QED BY <2>3 DEF m, n, CutsAlike
<1>7. \A j \in 1..k :
          /\ added[j].to <= added[k].to
          /\ IsHdu(Len(placed) + j, SubSeq(sink, added[j].from + 1, added[j].to), form.checksums)
  BY <1>3, <1>6
<1>8. added[k].to <= Len(sink)
  BY <1>2, <1>3
<1> QED BY <1>3, <1>7, <1>8, PlacedGrows

\* The end of `finish_hdu` commits HDUs that are whole.
LEMMA HduWrittenKeepsInv ==
    ASSUME WInv, HduWritten
    PROVE  WInv'
<1>1. PICK cells : IsSeq(cells) /\ AddingWhole(cells) /\ Emitting(pos, plan, sink, End, cells)
  <2>1. CASE EnsureUsable
    BY <2>1 DEF WInv, HduWritten, Part, HduPart
  <2>2. CASE ~EnsureUsable
    BY <2>2 DEF WInv, HduWritten, EnsureUsable, Typed
  <2> QED BY <2>1, <2>2
<1>2. Typed /\ PlacedWhole /\ HduPart
  BY DEF WInv, HduWritten, Part, EnsureUsable, Typed
<1>3. Numbers
  BY <1>2, Basics
<1>4. /\ state' = "Active" /\ call' = "none" /\ placed' = placed \o adding
      /\ adding' = <<>> /\ plan = <<>>
      /\ UNCHANGED <<sink, pos, form, plan, stream>>
  BY DEF HduWritten
<1>5. pos = End + Len(cells) /\ Holds(sink, End, cells)
  BY <1>1, <1>3, <1>4, EmitEnds DEF Numbers
<1>6. PlacedWhole' /\ End' = End + Len(cells) /\ placed' # <<>>
  BY <1>1, <1>2, <1>4, <1>5, CommitHeld DEF AddingWhole
<1>7. Typed'
  <2>1. TypeOK'
    BY <1>2, <1>4 DEF Typed, TypeOK, Calls
  <2>2. StreamFields'
    BY <1>2, <1>4 DEF Typed, StreamFields
  <2> QED BY <2>1, <2>2, <1>2, <1>4 DEF Typed
<1>8. IdlePart' /\ ~stream'.open
  BY <1>2, <1>4, <1>5, <1>6 DEF IdlePart, HduPart, EmptyIffNone
<1> QED BY <1>4, <1>6, <1>7, <1>8 DEF WInv, Part


--------------------------------------------------------------------------------
(* A failure. *)

\* A poisoned writer, whatever call failed.
LEMMA FailedKeepsInv ==
    ASSUME Typed, PlacedWhole, Typed', state' = "Failed", UNCHANGED <<sink, placed, form>>
    PROVE  WInv'
<1>1. PlacedWhole'
  BY PlacedSame
<1> QED BY <1>1 DEF WInv, EnsureUsable

\* A call that returns its error leaves a poisoned writer.
LEMMA AbandonKeepsInv ==
    ASSUME WInv, Abandon, state' = "Failed", UNCHANGED <<sink, pos, form, placed>>
    PROVE  WInv'
<1>1. Typed /\ PlacedWhole
  BY DEF WInv
<1>2. call' = "none" /\ plan' = <<>> /\ adding' = <<>>
  BY DEF Abandon
<1>3. /\ StreamFields'
      /\ stream'.written + stream'.chunk \in 0..stream'.expected
  <2>1. CASE call = "chunk"
    <3>1. /\ stream' = [stream EXCEPT !.chunk = 0, !.sum = <<>>]
          /\ StreamFields
          /\ stream.written + stream.chunk \in 0..stream.expected
      BY <2>1, <1>1 DEF Abandon, Typed, TypeOK
    <3>2. StreamFields'
      BY <3>1 DEF StreamFields
    <3>3. /\ stream'.written = stream.written /\ stream'.chunk = 0
          /\ stream'.expected = stream.expected
          /\ stream.written \in Nat /\ stream.chunk \in Nat /\ stream.expected \in Nat
      BY <3>1 DEF StreamFields
    <3> QED BY <3>1, <3>2, <3>3
  <2>2. CASE call # "chunk"
    <3>1. stream' = NoStream
      BY <2>2 DEF Abandon
    <3> QED BY <3>1 DEF NoStream, StreamFields
  <2> QED BY <2>1, <2>2
<1>4. TypeOK'
  BY <1>1, <1>2, <1>3 DEF Typed, TypeOK, Calls
<1>5. Typed'
  BY <1>1, <1>2, <1>3, <1>4, EmptyIsSeq DEF Typed
<1> QED BY <1>1, <1>5, FailedKeepsInv

\* A stream dropped early poisons the writer.
LEMMA DropStreamKeepsInv ==
    ASSUME WInv, DropStream
    PROVE  WInv'
<1>1. Typed /\ PlacedWhole
  BY DEF WInv
<1>2. state' = "Failed" /\ stream' = NoStream /\ call = "none"
      /\ UNCHANGED <<sink, pos, form, call, plan, placed, adding>>
  BY DEF DropStream
<1>3. StreamFields' /\ stream'.written + stream'.chunk \in 0..stream'.expected
  BY <1>2 DEF NoStream, StreamFields
<1>4. Typed'
  BY <1>1, <1>2, <1>3 DEF Typed, TypeOK
<1> QED BY <1>1, <1>2, <1>4, FailedKeepsInv

\* `stream_image` renders the header that the stream will sign.
LEMMA StartStreamKeepsInv ==
    ASSUME WInv, NEW len \in 0..MaxLen, StartStream(len)
    PROVE  WInv'
<1> DEFINE header == <<Open(~NextIsPrimary, FALSE, len)>>
           signing == IF form.checksums THEN Unfinished ELSE Unsigned
           cells == RenderInto(header, signing, form.spare)
<1>1. Typed /\ PlacedWhole /\ EnsureUsable /\ IdlePart /\ call = "none"
  BY DEF WInv, StartStream, Idle, Part
<1>2. Numbers
  BY <1>1, Basics
<1>3. /\ call' = "start" /\ plan' = cells
      /\ stream' = [NoStream EXCEPT !.header = header, !.offset = pos, !.expected = len]
      /\ UNCHANGED <<sink, pos, state, form, placed, adding>>
  BY DEF StartStream
<1>4. len \in Nat
  BY WriterAssumption
<1>5. header = <<Open(placed # <<>>, FALSE, len)>>
  <2> DEFINE a == ~NextIsPrimary
             b == placed # <<>>
  <2>1. a \in BOOLEAN /\ b \in BOOLEAN /\ (a <=> b)
    BY <1>1 DEF NextIsPrimary, IdlePart, EmptyIffNone
  <2> HIDE DEF a, b
  <2>2. a = b
    BY <2>1
  <2>3. <<Open(a, FALSE, len)>> = <<Open(b, FALSE, len)>>
    BY <2>2
  <2> QED BY <2>3 DEF a, b
<1>6. IsSeq(cells)
  <2> DEFINE ext == ~NextIsPrimary
  <2> HIDE DEF ext
  <2>1. IsHeader(<<Open(ext, FALSE, len)>>)
    <3>1. ext \in BOOLEAN
      BY DEF ext
    <3> QED BY <3>1, <1>4, OneOpenShape
  <2>2. IsHeader(header)
    BY <2>1 DEF ext
  <2>3. IsSigning(signing)
    BY DEF IsSigning, Unfinished, Unsigned
  <2>4. form.spare \in Nat
    BY <1>2 DEF Numbers
  <2> HIDE DEF header, signing
  <2> QED BY <2>2, <2>3, <2>4, RenderIsSeq
<1> HIDE DEF header
<1>7. /\ stream'.open = FALSE /\ stream'.header = header /\ stream'.offset = pos
      /\ stream'.expected = len /\ stream'.written = 0 /\ stream'.chunk = 0
      /\ stream'.sum = <<>>
  BY <1>3 DEF NoStream
<1>8. StreamHeader' = cells /\ End' = End
  BY <1>3, <1>7 DEF StreamHeader, End
<1> HIDE DEF cells
<1>9. Emitting(pos', plan', sink', End', StreamHeader')
  BY <1>1, <1>2, <1>3, <1>6, <1>8, EmitBegins DEF IdlePart, Numbers
<1>10. StreamPart'
  BY <1>1, <1>3, <1>5, <1>7, <1>8 DEF StreamPart, IdlePart
<1>11. StartPart'
  BY <1>1, <1>3, <1>7, <1>9, <1>10 DEF StartPart, IdlePart, EmptyIffNone
<1>12. StreamFields'
  BY <1>2, <1>3, <1>4, <1>7 DEF StreamFields, NoStream, Numbers
<1>13. TypeOK'
  BY <1>1, <1>3, <1>4, <1>7 DEF Typed, TypeOK, Calls
<1>14. Typed'
  BY <1>1, <1>3, <1>6, <1>12, <1>13 DEF Typed, EnsureUsable
<1>15. PlacedWhole'
  BY <1>1, <1>3, PlacedSame
<1> QED BY <1>3, <1>11, <1>14, <1>15 DEF WInv, Part

\* No samples at all.
LEMMA NoData == Data(0) = <<>>
BY DataIsSeq, EmptyIsSeq, SeqsEqual

\* The end of `start_stream` opens the stream behind its header.
LEMMA StreamStartedKeepsInv ==
    ASSUME WInv, StreamStarted
    PROVE  WInv'
<1>1. Typed /\ PlacedWhole /\ EnsureUsable /\ StartPart
  BY DEF WInv, StreamStarted, Part, Typed, EnsureUsable
<1>2. StreamFacts
  BY <1>1, StreamShape DEF StartPart
<1>3. /\ call = "start" /\ plan = <<>> /\ state' = "Active" /\ call' = "none"
      /\ stream' = [stream EXCEPT !.open = TRUE]
      /\ UNCHANGED <<sink, pos, form, plan, placed, adding>>
  BY DEF StreamStarted
<1>4. Numbers
  BY <1>1, Basics
<1>5. pos = End + Len(StreamHeader) /\ Holds(sink, End, StreamHeader)
  BY <1>1, <1>2, <1>3, <1>4, EmitEnds DEF StartPart, StreamFacts, Numbers
<1>6. /\ stream'.open = TRUE /\ stream'.header = stream.header
      /\ stream'.offset = stream.offset /\ stream'.expected = stream.expected
      /\ stream'.written = 0 /\ stream'.chunk = 0 /\ stream'.sum = <<>>
  BY <1>1, <1>3 DEF StartPart, Typed, StreamFields
<1>7. /\ End' = End /\ StreamHeader' = StreamHeader /\ DataAt' = DataAt
      /\ StreamPart'
  BY <1>1, <1>3, <1>6 DEF End, StreamHeader, DataAt, StreamPart, StartPart
<1>8. pos = DataAt + 0 /\ DataAt \in Nat
  BY <1>2, <1>5 DEF StreamFacts
<1>9. Holds(sink, DataAt, Data(0))
  <2>1. Len(<<>>) = 0 /\ DataAt + 0 <= Len(sink)
    BY <1>4, <1>8, EmptyIsSeq DEF Numbers
  <2> QED BY <2>1, NoData DEF Holds
<1>10. OpenPart'
  <2>1. stream'.sum = Data(stream'.written + stream'.chunk)
    <3>1. stream'.written + stream'.chunk = 0
      BY <1>6
    <3> QED BY <3>1, <1>6, NoData
  <2> QED BY <2>1, <1>1, <1>3, <1>5, <1>6, <1>7, <1>9 DEF OpenPart, StartPart
<1>11. BetweenPart'
  BY <1>3, <1>6, <1>7, <1>8, <1>10 DEF BetweenPart
<1>12. StreamFields'
  BY <1>1, <1>3 DEF StreamFields, Typed
<1>13. TypeOK'
  <2>1. adding' = <<>> /\ plan' = <<>>
    BY <1>1, <1>3 DEF Typed, StreamStarted
  <2> QED BY <2>1, <1>1, <1>3, <1>6 DEF Typed, TypeOK, Calls
<1>14. Typed'
  BY <1>1, <1>3, <1>12, <1>13 DEF Typed
<1>15. PlacedWhole'
  BY <1>1, <1>3, PlacedSame
<1> QED BY <1>3, <1>6, <1>11, <1>14, <1>15 DEF WInv, Part


--------------------------------------------------------------------------------
(* A stream. *)

\* The samples of a chunk follow those written.
ChunkFollows(expected, m, n, chunk) ==
    /\ IsSeq(chunk) /\ Len(chunk) = n
    /\ Data(m) \o chunk = Data(m + n)

\* A chunk is the next samples of the image.
LEMMA DataGrows ==
    ASSUME NEW expected \in Nat, NEW m \in Nat, NEW n \in Nat, m + n <= expected
    PROVE  ChunkFollows(expected, m, n, SubSeq(Data(expected), m + 1, m + n))
<1> DEFINE c == SubSeq(Data(expected), m + 1, m + n)
           u == Data(m) \o c
<1>1. /\ IsSeq(Data(expected)) /\ Len(Data(expected)) = expected
      /\ \A i \in 1..expected : Data(expected)[i] = <<"data", i>>
  BY DataIsSeq
<1>2. Cuts(Data(expected), m + 1, m + n, c)
  BY <1>1, SubSeqIsSeq
<1> HIDE DEF c
<1>3. IsSeq(c) /\ Len(c) = n /\ \A i \in 1..n : c[i] = <<"data", m + i>>
  <2>1. IsSeq(c) /\ Len(c) = n /\ \A i \in 1..n : c[i] = Data(expected)[m + i]
    <3>1. /\ IsSeq(c) /\ Len(c) = (m + n) - (m + 1) + 1
          /\ \A i \in 1..(m + n) - (m + 1) + 1 : c[i] = Data(expected)[(m + 1) + i - 1]
      BY <1>2 DEF Cuts
    <3>2. (m + n) - (m + 1) + 1 = n /\ \A i \in 1..n : (m + 1) + i - 1 = m + i
      OBVIOUS
    <3> QED BY <3>1, <3>2
  <2>2. \A i \in 1..n : m + i \in 1..expected
    OBVIOUS
  <2> QED BY <2>1, <2>2, <1>1
<1>4. /\ IsSeq(Data(m)) /\ Len(Data(m)) = m
      /\ \A i \in 1..m : Data(m)[i] = <<"data", i>>
  BY DataIsSeq
<1>5. Joins(Data(m), c, u)
  BY <1>3, <1>4, ConcatIsSeq
<1> HIDE DEF u
<1>6. /\ IsSeq(u) /\ Len(u) = m + n
      /\ \A i \in 1..m : u[i] = <<"data", i>>
      /\ \A i \in 1..n : u[m + i] = <<"data", m + i>>
  BY <1>3, <1>4, <1>5 DEF Joins
<1>7. \A i \in 1..m + n : u[i] = <<"data", i>>
  <2>1. TAKE i \in 1..m + n
  <2>2. CASE i <= m
    BY <2>2, <1>6
  <2>3. CASE i > m
    <3>1. i - m \in 1..n /\ m + (i - m) = i
      BY <2>3
    <3>2. u[m + (i - m)] = <<"data", m + (i - m)>>
      BY <3>1, <1>6
    <3> QED BY <3>1, <3>2
  <2> QED BY <2>2, <2>3
<1>8. u = Data(m + n)
  <2>1. /\ IsSeq(Data(m + n)) /\ Len(Data(m + n)) = m + n
        /\ \A i \in 1..m + n : Data(m + n)[i] = <<"data", i>>
    <3> DEFINE k == m + n
    <3>1. k \in Nat
      OBVIOUS
    <3> HIDE DEF k
    <3>2. /\ IsSeq(Data(k)) /\ Len(Data(k)) = k
          /\ \A i \in 1..k : Data(k)[i] = <<"data", i>>
      BY <3>1, DataIsSeq
    <3> QED BY <3>2 DEF k
  <2> QED BY <2>1, <1>6, <1>7, SeqsEqual
<1>9. ChunkFollows(expected, m, n, c)
  BY <1>3, <1>8 DEF ChunkFollows, u
<1> QED BY <1>9 DEF c

\* `write_chunk` emits the next samples, and its sum is ahead of the sink.
LEMMA WriteChunkKeepsInv ==
    ASSUME WInv, NEW n \in 1..MaxLen, WriteChunk(n)
    PROVE  WInv'
<1> DEFINE m == stream.written
           chunk == SubSeq(Data(stream.expected), m + 1, m + n)
<1>1. Typed /\ PlacedWhole /\ stream.open /\ call = "none" /\ m + n <= stream.expected
  BY DEF WInv, WriteChunk
<1>2. Numbers
  BY <1>1, Basics
<1>3. /\ call' = "chunk" /\ plan' = chunk
      /\ stream' = [stream EXCEPT !.chunk = n, !.sum = @ \o chunk]
      /\ UNCHANGED <<sink, pos, state, form, placed, adding>>
  BY DEF WriteChunk
<1>4. n \in Nat /\ m \in Nat /\ stream.expected \in Nat
  BY <1>2, WriterAssumption DEF Numbers
<1>5. ChunkFollows(stream.expected, m, n, chunk)
  BY <1>1, <1>4, DataGrows
<1>6. IsSeq(chunk) /\ Len(chunk) = n /\ Data(m) \o chunk = Data(m + n)
  BY <1>5 DEF ChunkFollows
<1>7. /\ stream'.open = stream.open /\ stream'.header = stream.header
      /\ stream'.offset = stream.offset /\ stream'.expected = stream.expected
      /\ stream'.written = stream.written /\ stream'.chunk = n
      /\ stream'.sum = stream.sum \o chunk
      /\ StreamFields'
  <2>1. StreamFields
    BY <1>1 DEF Typed
  <2> HIDE DEF chunk
  <2> QED BY <2>1, <1>3, <1>4 DEF StreamFields
<1>8. TypeOK'
  <2> HIDE DEF chunk
  <2> QED BY <1>1, <1>3, <1>4, <1>7 DEF Typed, TypeOK, Calls
<1>9. Typed'
  <2> HIDE DEF chunk
  <2> QED BY <1>1, <1>3, <1>6, <1>7, <1>8 DEF Typed
<1>10. PlacedWhole'
  BY <1>1, <1>3, PlacedSame
<1>11. ASSUME EnsureUsable' PROVE Part'
  <2>1. BetweenPart
    BY <1>1, <1>3, <1>11 DEF WInv, Part, EnsureUsable
  <2>2. StreamFacts /\ OpenPart /\ stream.chunk = 0 /\ pos = DataAt + m
    BY <2>1, <1>1, StreamShape DEF BetweenPart, OpenPart
  <2>3. /\ End' = End /\ StreamHeader' = StreamHeader /\ DataAt' = DataAt /\ StreamPart'
    BY <2>2, <1>3, <1>7 DEF End, StreamHeader, DataAt, StreamPart, OpenPart
  <2>4. stream'.sum = Data(stream'.written + stream'.chunk)
    <3>1. stream.sum = Data(m)
      <4>1. m + stream.chunk = m
        BY <2>2, <1>4
      <4> QED BY <4>1, <2>2 DEF OpenPart
    <3> QED BY <3>1, <1>6, <1>7
  <2>5. OpenPart'
    BY <2>2, <2>3, <2>4, <1>3, <1>7 DEF OpenPart
  <2>6. Emitting(pos', plan', sink', DataAt' + stream'.written, chunk)
    <3>1. DataAt + m \in Nat
      <4>1. DataAt \in Nat
        BY <2>2 DEF StreamFacts
      <4>2. m \in Nat
        BY <1>4
      <4> QED BY <4>1, <4>2
    <3> HIDE DEF chunk
    <3> QED BY <3>1, <2>2, <2>3, <1>3, <1>6, <1>7, EmitBegins
  <2>7. chunk = SubSeq(Data(stream'.expected), stream'.written + 1,
                       stream'.written + stream'.chunk)
    BY <1>7
  <2>8. ChunkPart'
    <3> HIDE DEF chunk
    <3> QED BY <2>5, <2>6, <2>7 DEF ChunkPart
  <2> QED BY <2>8, <1>3 DEF Part
<1> QED BY <1>9, <1>10, <1>11 DEF WInv

\* The end of `write_chunk` counts the samples that are in the file.
LEMMA ChunkWrittenKeepsInv ==
    ASSUME WInv, ChunkWritten
    PROVE  WInv'
<1> DEFINE m == stream.written
           n == stream.chunk
           chunk == SubSeq(Data(stream.expected), m + 1, m + n)
<1>1. Typed /\ PlacedWhole
  BY DEF WInv
<1>2. Numbers
  BY <1>1, Basics
<1>3. /\ call = "chunk" /\ plan = <<>> /\ call' = "none"
      /\ stream' = [stream EXCEPT !.written = @ + stream.chunk, !.chunk = 0]
      /\ UNCHANGED <<sink, pos, state, form, plan, placed, adding>>
  BY DEF ChunkWritten
<1>4. m \in Nat /\ n \in Nat /\ stream.expected \in Nat /\ m + n <= stream.expected
  BY <1>2 DEF Numbers
<1>5. ChunkFollows(stream.expected, m, n, chunk)
  BY <1>4, DataGrows
<1>6. IsSeq(chunk) /\ Len(chunk) = n /\ Data(m) \o chunk = Data(m + n)
  BY <1>5 DEF ChunkFollows
<1>7. /\ stream'.open = stream.open /\ stream'.header = stream.header
      /\ stream'.offset = stream.offset /\ stream'.expected = stream.expected
      /\ stream'.written = m + n /\ stream'.chunk = 0
      /\ stream'.sum = stream.sum
      /\ StreamFields'
  <2>1. StreamFields
    BY <1>1 DEF Typed
  <2>2. /\ stream'.open = stream.open /\ stream'.header = stream.header
        /\ stream'.offset = stream.offset /\ stream'.expected = stream.expected
        /\ stream'.written = stream.written + stream.chunk /\ stream'.chunk = 0
        /\ stream'.sum = stream.sum /\ stream'.end = stream.end
        /\ stream' = [open |-> stream'.open, header |-> stream'.header,
                      offset |-> stream'.offset, expected |-> stream'.expected,
                      written |-> stream'.written, chunk |-> stream'.chunk,
                      sum |-> stream'.sum, end |-> stream'.end]
    BY <2>1, <1>3 DEF StreamFields
  <2>3. m + n \in Nat
    BY <1>4
  <2> QED BY <2>1, <2>2, <2>3 DEF StreamFields
<1>8. TypeOK'
  BY <1>1, <1>3, <1>4, <1>7 DEF Typed, TypeOK, Calls
<1>9. Typed'
  BY <1>1, <1>3, <1>7, <1>8 DEF Typed
<1>10. PlacedWhole'
  BY <1>1, <1>3, PlacedSame
<1>11. ASSUME EnsureUsable' PROVE Part'
  <2>1. ChunkPart
    BY <1>3, <1>11 DEF WInv, Part, EnsureUsable
  <2>2. OpenPart /\ Emitting(pos, <<>>, sink, DataAt + m, chunk)
    BY <2>1, <1>3 DEF ChunkPart
  <2>3. StreamFacts
    BY <2>2, <1>1, StreamShape DEF OpenPart
  <2>4. DataAt \in Nat /\ DataAt + m \in Nat
    BY <2>3, <1>4 DEF StreamFacts
  <2>5. pos = DataAt + m + n /\ Holds(sink, DataAt + m, chunk)
    <3>1. pos <= Len(sink) /\ Len(sink) \in Nat
      BY <1>2 DEF Numbers
    <3> HIDE DEF chunk
    <3> QED BY <3>1, <2>2, <2>4, <1>6, EmitEnds
  <2>6. Holds(sink, DataAt, Data(m + n))
    <3>1. IsSeq(Data(m)) /\ Len(Data(m)) = m /\ Holds(sink, DataAt, Data(m)) /\ IsSeq(sink)
      BY <2>2, <1>2, <1>4, DataIsSeq DEF OpenPart, Numbers
    <3> HIDE DEF chunk
    <3>2. Holds(sink, DataAt, Data(m) \o chunk)
      BY <3>1, <2>4, <2>5, <1>6, HoldsJoin
    <3> QED BY <3>2, <1>6
  <2>7. /\ End' = End /\ StreamHeader' = StreamHeader /\ DataAt' = DataAt /\ StreamPart'
    BY <2>2, <1>3, <1>7 DEF End, StreamHeader, DataAt, StreamPart, OpenPart
  <2>8. stream'.sum = Data(stream'.written + stream'.chunk)
    <3>1. stream'.written + stream'.chunk = m + n
      BY <1>4, <1>7
    <3> QED BY <3>1, <2>2, <1>7 DEF OpenPart
  <2>9. OpenPart'
    BY <2>2, <2>6, <2>7, <2>8, <1>3, <1>7 DEF OpenPart
  <2>10. BetweenPart'
    <3>1. DataAt + m + n = DataAt + (m + n)
      BY <2>4, <1>4
    <3> QED BY <3>1, <2>5, <2>7, <2>9, <1>3, <1>7 DEF BetweenPart
  <2>11. stream'.open /\ call' = "none"
    BY <2>9, <1>3 DEF OpenPart
  <2> QED BY <2>10, <2>11 DEF Part
<1> QED BY <1>9, <1>10, <1>11 DEF WInv

\* `finish` emits the fill, once all samples are there.
LEMMA FinishKeepsInv ==
    ASSUME WInv, Finish
    PROVE  WInv'
<1>1. /\ Typed /\ PlacedWhole /\ EnsureUsable /\ call = "none" /\ stream.open
      /\ stream.written = stream.expected
  BY DEF WInv, Finish
<1>2. /\ call' = "fill" /\ plan' = StreamFill
      /\ UNCHANGED <<sink, pos, state, form, stream, placed, adding>>
  BY DEF Finish, StreamFill
<1>3. Numbers
  BY <1>1, Basics
<1>4. OpenPart /\ stream.chunk = 0 /\ pos = DataAt + stream.written
  BY <1>1 DEF WInv, Part, BetweenPart
<1>5. StreamFacts
  BY <1>1, <1>4, StreamShape DEF OpenPart
<1>6. /\ End' = End /\ StreamHeader' = StreamHeader /\ DataAt' = DataAt /\ StreamPart'
      /\ StreamFill' = StreamFill
  BY <1>2, <1>4 DEF End, StreamHeader, StreamFill, DataAt, StreamPart, OpenPart
<1>7. OpenPart'
  BY <1>2, <1>4, <1>6 DEF OpenPart
<1>8. Emitting(pos', plan', sink', DataAt' + stream'.written, StreamFill')
  <2>1. DataAt + stream.written \in Nat /\ IsSeq(StreamFill)
    <3>1. DataAt \in Nat /\ IsSeq(StreamFill)
      BY <1>5 DEF StreamFacts
    <3>2. stream.written \in Nat
      BY <1>3 DEF Numbers
    <3> QED BY <3>1, <3>2
  <2> QED BY <2>1, <1>2, <1>4, <1>6, EmitBegins
<1>9. FillPart'
  BY <1>1, <1>2, <1>4, <1>7, <1>8 DEF FillPart
<1>10. TypeOK' /\ StreamFields'
  BY <1>1, <1>2 DEF Typed, TypeOK, Calls, StreamFields
<1>11. Typed'
  BY <1>1, <1>2, <1>5, <1>10 DEF Typed, StreamFacts, EnsureUsable
<1>12. PlacedWhole'
  BY <1>1, <1>2, PlacedSame
<1> QED BY <1>2, <1>9, <1>11, <1>12 DEF WInv, Part

\* Once the fill is written, the file holds the stream's data unit.
LEMMA Filled ==
    ASSUME Typed, PlacedWhole, FillPart, plan = <<>>
    PROVE  /\ StreamFacts
           /\ Holds(sink, DataAt, StreamUnit)
           /\ pos = Len(sink) /\ pos = DataAt + Len(StreamUnit)
           /\ stream.sum \o Fill(Zero, Padding(stream.expected)) = StreamUnit
<1>1. OpenPart /\ stream.written = stream.expected /\ stream.chunk = 0
      /\ Emitting(pos, <<>>, sink, DataAt + stream.written, StreamFill)
  BY DEF FillPart
<1>2. Numbers
  BY Basics
<1>3. StreamFacts
  BY <1>1, StreamShape DEF OpenPart
<1> DEFINE m == stream.expected
<1>4. /\ m \in Nat /\ DataAt \in Nat /\ DataAt + m \in Nat
      /\ IsSeq(StreamFill) /\ Len(StreamFill) \in Nat /\ Len(StreamUnit) = m + Len(StreamFill)
  <2>1. m \in Nat
    BY <1>2 DEF Numbers
  <2>2. /\ DataAt \in Nat /\ IsSeq(StreamFill)
        /\ Len(StreamFill) = Padding(m) /\ Padding(m) \in Nat
        /\ Len(StreamUnit) = m + Padding(m)
    BY <1>3 DEF StreamFacts
  <2> QED BY <2>1, <2>2
<1>5. pos = DataAt + m + Len(StreamFill) /\ Holds(sink, DataAt + m, StreamFill)
  <2>1. pos <= Len(sink) /\ Len(sink) \in Nat
    BY <1>2 DEF Numbers
  <2> QED BY <2>1, <1>1, <1>4, EmitEnds
<1>6. IsSeq(Data(m)) /\ Len(Data(m)) = m /\ Holds(sink, DataAt, Data(m)) /\ IsSeq(sink)
  BY <1>1, <1>2, <1>4, DataIsSeq DEF OpenPart, Numbers
<1>7. Holds(sink, DataAt, Data(m) \o StreamFill)
  BY <1>4, <1>5, <1>6, HoldsJoin
<1>8. stream.sum \o Fill(Zero, Padding(stream.expected)) = StreamUnit
  <2>1. stream.written + stream.chunk = m
    BY <1>1, <1>4
  <2> QED BY <2>1, <1>1 DEF OpenPart, StreamUnit, StreamFill
<1>9. pos = Len(sink) /\ pos = DataAt + Len(StreamUnit)
  BY <1>1, <1>4, <1>5 DEF OpenPart
<1> QED BY <1>3, <1>7, <1>8, <1>9 DEF StreamUnit

\* `rewrite_header` goes back to the header with the sum of all the data.
LEMMA SignKeepsInv ==
    ASSUME WInv, Sign
    PROVE  WInv'
<1>1. /\ Typed /\ PlacedWhole /\ FillPart /\ plan = <<>> /\ call = "fill" /\ form.checksums
      /\ state # "Failed"
  BY DEF WInv, Sign, Part, Typed, EnsureUsable
<1>2. /\ StreamFacts
      /\ Holds(sink, DataAt, StreamUnit)
      /\ pos = Len(sink) /\ pos = DataAt + Len(StreamUnit)
      /\ stream.sum \o Fill(Zero, Padding(stream.expected)) = StreamUnit
  BY <1>1, Filled
<1>3. /\ call' = "rewrite"
      /\ pos' = stream.offset
      /\ plan' = SignedHeader
      /\ stream' = [stream EXCEPT !.sum = StreamUnit, !.end = pos]
      /\ UNCHANGED <<sink, state, form, placed, adding>>
  BY <1>2 DEF Sign, SignedHeader
<1>4. Numbers
  BY <1>1, Basics
<1>5. /\ stream'.open = stream.open /\ stream'.header = stream.header
      /\ stream'.offset = stream.offset /\ stream'.expected = stream.expected
      /\ stream'.written = stream.written /\ stream'.chunk = stream.chunk
      /\ stream'.sum = StreamUnit /\ stream'.end = pos
      /\ StreamFields'
  BY <1>1, <1>3 DEF StreamFields, Typed
<1>6. OpenPart /\ StreamPart /\ stream.offset = End
  BY <1>1 DEF FillPart, OpenPart, StreamPart
<1>7. /\ End' = End /\ StreamHeader' = StreamHeader /\ DataAt' = DataAt
      /\ StreamUnit' = StreamUnit /\ SignedHeader' = SignedHeader /\ StreamPart'
  BY <1>3, <1>5, <1>6 DEF End, StreamHeader, StreamFill, DataAt, StreamPart, StreamUnit,
                          SignedHeader
<1>8. Emitting(pos', plan', sink', End', SignedHeader')
  BY <1>2, <1>3, <1>6, <1>7, EmitBegins DEF StreamFacts
<1>9. \A i \in 1..Len(StreamHeader) : sink[End + i] = StreamHeader[i]
  BY <1>6 DEF OpenPart, Holds
<1>10. RewritePart'
  <2>1. state' = "Active" /\ form'.checksums /\ stream'.open
    BY <1>1, <1>3, <1>5, <1>6 DEF OpenPart
  <2>2. stream'.written = stream'.expected /\ stream'.chunk = 0
    BY <1>1, <1>5 DEF FillPart
  <2>3. stream'.end = Len(sink') /\ stream'.end = DataAt' + Len(StreamUnit')
    BY <1>2, <1>3, <1>5, <1>7
  <2>4. Holds(sink', DataAt', StreamUnit')
    BY <1>2, <1>3, <1>7
  <2>5. \A i \in 1..Len(StreamHeader') :
            End' + i > pos' => sink'[End' + i] = StreamHeader'[i]
    BY <1>3, <1>7, <1>9
  <2> QED BY <2>1, <2>2, <2>3, <2>4, <2>5, <1>7, <1>8 DEF RewritePart
<1>11. TypeOK'
  <2>1. stream.offset \in 0..Len(sink)
    BY <1>4, <1>6 DEF Numbers
  <2> QED BY <2>1, <1>1, <1>3, <1>5 DEF Typed, TypeOK, Calls
<1>12. Typed'
  BY <1>1, <1>2, <1>3, <1>5, <1>11 DEF Typed, StreamFacts
<1>13. PlacedWhole'
  BY <1>1, <1>3, PlacedSame
<1> QED BY <1>3, <1>10, <1>12, <1>13 DEF WInv, Part

\* A finished stream is the HDU of its image.
LEMMA StreamIsHdu ==
    ASSUME Typed, PlacedWhole, StreamPart
    PROVE  IsHdu(Len(placed) + 1,
                 (IF form.checksums THEN SignedHeader ELSE StreamHeader) \o StreamUnit,
                 form.checksums)
<1> DEFINE n == Len(placed)
           primary == n + 1 = 1
           len == stream.expected
           ext == placed # <<>>
           header == stream.header
           kind == KindOf(header, primary)
           signs == form.checksums
           spare == form.spare
<1>1. /\ Numbers /\ n \in Nat /\ len \in Nat /\ signs \in BOOLEAN /\ spare \in Nat
      /\ header = <<Open(ext, FALSE, len)>>
  BY Basics, LenNat DEF PlacedWhole, Extents, Numbers, StreamPart
<1>2. ext = ~primary /\ ext \in BOOLEAN /\ primary \in BOOLEAN
  <2>1. n = 0 <=> placed = <<>>
    BY <1>1, EmptyIsSeq, SeqsEqual DEF PlacedWhole, Extents
  <2> QED BY <2>1, <1>1
<1>3. (n + 1 = 1) = primary
  OBVIOUS
<1> HIDE DEF primary, ext
<1>4. /\ IsHeader(header) /\ HasRole(header, primary)
      /\ kind = [ext |-> ext, ascii |-> FALSE, len |-> len]
  <2>1. LET h == <<Open(ext, FALSE, len)>>
        IN  /\ IsHeader(h)
            /\ HasRole(h, primary) <=> ext = ~primary
            /\ ext = ~primary =>
                  KindOf(h, primary) = [ext |-> ext, ascii |-> FALSE, len |-> len]
    BY <1>1, <1>2, OneOpenShape
  <2> QED BY <2>1, <1>1, <1>2
<1> HIDE DEF kind
<1>5. UnitOf(kind) = StreamUnit
  <2>1. kind.len = len /\ kind.ascii = FALSE
    BY <1>4
  <2> QED BY <2>1 DEF UnitOf, DataFill, StreamUnit, StreamFill
<1>6. HeaderCells(header, signs, spare, primary)
        = IF signs THEN SignedHeader ELSE StreamHeader
  <2>1. HeaderCells(header, signs, spare, primary)
          = RenderInto(header, SigningOf(signs, StreamUnit), spare)
    BY <1>5 DEF HeaderCells, kind
  <2>2. CASE signs
    BY <2>1, <2>2 DEF SigningOf, SignedHeader
  <2>3. CASE ~signs
    BY <2>1, <2>3 DEF SigningOf, StreamHeader
  <2> QED BY <2>2, <2>3
<1>7. HduCells(header, signs, spare, primary)
        = (IF signs THEN SignedHeader ELSE StreamHeader) \o StreamUnit
  BY <1>5, <1>6 DEF HduCells, kind
<1> QED BY <1>1, <1>3, <1>4, <1>7 DEF IsHdu

\* The commit of a stream whose header is the one its sums ask for.
LEMMA CommitStreamKeepsInv ==
    ASSUME Typed, PlacedWhole, StreamPart, state = "Active", plan = <<>>,
           stream.offset = End, call # "hdu",
           NEW header, header = (IF form.checksums THEN SignedHeader ELSE StreamHeader),
           Holds(sink, End, header), Holds(sink, DataAt, StreamUnit),
           NEW end, end = Len(sink), end = DataAt + Len(StreamUnit),
           CommitStream(end), pos' = end, plan' = plan
    PROVE  WInv'
<1>1. StreamFacts /\ Numbers
  BY StreamShape, Basics
<1>2. /\ IsSeq(header) /\ Len(header) = Len(StreamHeader) /\ Len(header) > 0
      /\ End + Len(header) = DataAt
  BY <1>1 DEF StreamFacts, SignsOver
<1> DEFINE cells == header \o StreamUnit
           e == Extent(End, end)
           added == <<e>>
<1>3. /\ IsSeq(sink) /\ IsSeq(StreamUnit) /\ Len(StreamUnit) \in Nat /\ End \in Nat
      /\ Len(header) \in Nat
  BY <1>1, <1>2, LenNat DEF StreamFacts, Numbers
<1>4. Joins(header, StreamUnit, cells)
  BY <1>2, <1>3, ConcatIsSeq
<1>5. Holds(sink, End, cells)
  <2>1. Holds(sink, End + Len(header), StreamUnit)
    BY <1>2
  <2> QED BY <2>1, <1>2, <1>3, HoldsJoin
<1>6. IsHdu(Len(placed) + 1, cells, form.checksums)
  BY StreamIsHdu
<1> HIDE DEF cells
<1>7. IsSeq(cells) /\ Len(cells) > 0 /\ end = End + Len(cells)
  <2>1. IsSeq(cells) /\ Len(cells) = Len(header) + Len(StreamUnit)
    BY <1>4 DEF Joins
  <2> QED BY <2>1, <1>2, <1>3
<1>8. Adds(added, End, cells, Len(placed), form.checksums)
  <2>1. Len(placed) \in Nat
    BY LenNat DEF PlacedWhole, Extents
  <2> QED BY <2>1, <1>3, <1>6, <1>7, AddOne
<1>9. placed' = Append(placed, e) /\ call' = "none" /\ stream' = NoStream
      /\ UNCHANGED <<sink, state, form, adding>>
  BY DEF CommitStream
<1>10. Append(placed, e) = placed \o added
  <2> HIDE DEF e
  <2> DEFINE s == Append(placed, e)
             t == placed \o added
  <2>1. IsSeq(placed) /\ IsSeq(added) /\ Len(added) = 1 /\ added[1] = e /\ Len(placed) \in Nat
    BY SingletonIsSeq, LenNat DEF PlacedWhole, Extents
  <2>2. /\ IsSeq(s) /\ Len(s) = Len(placed) + 1 /\ s[Len(placed) + 1] = e
        /\ \A i \in 1..Len(placed) : s[i] = placed[i]
    BY <2>1, AppendIsSeq
  <2>3. Joins(placed, added, t)
    BY <2>1, ConcatIsSeq
  <2> HIDE DEF s, t
  <2>4. /\ IsSeq(t) /\ Len(t) = Len(placed) + 1 /\ t[Len(placed) + 1] = e
        /\ \A i \in 1..Len(placed) : t[i] = placed[i]
    BY <2>1, <2>3 DEF Joins
  <2>5. \A i \in 1..Len(s) : s[i] = t[i]
    BY <2>1, <2>2, <2>4
  <2>6. s = t
    BY <2>2, <2>4, <2>5, SeqsEqual
  <2> QED BY <2>6 DEF s, t
<1> HIDE DEF added
<1>11. PlacedWhole' /\ End' = End + Len(cells) /\ placed' # <<>>
  BY <1>5, <1>7, <1>8, <1>9, <1>10, CommitHeld
<1>12. IdlePart'
  BY <1>7, <1>9, <1>11 DEF IdlePart, EmptyIffNone
<1>13. /\ stream'.open = FALSE /\ stream'.written = 0 /\ stream'.chunk = 0
       /\ stream'.expected = 0 /\ StreamFields'
  BY <1>9 DEF NoStream, StreamFields
<1>14. adding' = <<>>
  BY <1>9 DEF Typed
<1>15. TypeOK'
  <2>1. pos' \in 0..Len(sink')
    <3>1. Len(sink) \in Nat
      BY <1>1 DEF Numbers
    <3>2. pos' = Len(sink) /\ sink' = sink
      BY <1>9
    <3>3. \A x \in Nat : x \in 0..x
      OBVIOUS
    <3>4. Len(sink) \in 0..Len(sink)
      BY <3>1, <3>3, Zenon
    <3> QED BY <3>2, <3>4, Zenon
  <2>2. form' \in Forms /\ state' \in {"Empty", "Active", "Failed"}
    BY <1>9 DEF Typed, TypeOK
  <2>3. stream'.written + stream'.chunk \in 0..stream'.expected
    BY <1>13
  <2> QED BY <2>1, <2>2, <2>3, <1>9, <1>13, <1>14 DEF TypeOK, Calls
<1>16. Typed'
  BY <1>9, <1>13, <1>14, <1>15 DEF Typed
<1> QED BY <1>9, <1>11, <1>12, <1>13, <1>16 DEF WInv, Part

\* Without checksums, the end of `finish` commits the stream.
LEMMA FinishUnsignedKeepsInv ==
    ASSUME WInv, FinishUnsigned
    PROVE  WInv'
<1>1. /\ Typed /\ PlacedWhole /\ FillPart /\ plan = <<>> /\ call = "fill" /\ ~form.checksums
      /\ CommitStream(pos) /\ UNCHANGED <<pos, plan>>
  BY DEF WInv, FinishUnsigned, Part, Typed, EnsureUsable
<1>2. /\ Holds(sink, DataAt, StreamUnit)
      /\ pos = Len(sink) /\ pos = DataAt + Len(StreamUnit)
  BY <1>1, Filled
<1>3. StreamPart /\ stream.offset = End /\ state = "Active" /\ Holds(sink, End, StreamHeader)
  BY <1>1 DEF FillPart, OpenPart, StreamPart
<1>4. StreamHeader = (IF form.checksums THEN SignedHeader ELSE StreamHeader)
  BY <1>1
<1> QED BY <1>1, <1>2, <1>3, <1>4, CommitStreamKeepsInv

\* With checksums, the end of `rewrite_header` does.
LEMMA SignedKeepsInv ==
    ASSUME WInv, Signed
    PROVE  WInv'
<1>1. /\ Typed /\ PlacedWhole /\ RewritePart /\ plan = <<>> /\ call = "rewrite"
      /\ CommitStream(stream.end) /\ pos' = stream.end /\ UNCHANGED plan
  BY DEF WInv, Signed, Part, Typed, EnsureUsable
<1>2. StreamPart /\ state = "Active" /\ stream.offset = End /\ form.checksums
      /\ stream.end = Len(sink) /\ stream.end = DataAt + Len(StreamUnit)
      /\ Holds(sink, DataAt, StreamUnit) /\ Emitting(pos, <<>>, sink, End, SignedHeader)
  BY <1>1 DEF RewritePart, StreamPart
<1>3. StreamFacts /\ Numbers
  BY <1>1, <1>2, StreamShape, Basics
<1>4. Holds(sink, End, SignedHeader)
  <2>1. IsSeq(SignedHeader) /\ End \in Nat /\ pos <= Len(sink) /\ Len(sink) \in Nat
    BY <1>3 DEF StreamFacts, Numbers
  <2> QED BY <2>1, <1>2, EmitEnds
<1>5. SignedHeader = (IF form.checksums THEN SignedHeader ELSE StreamHeader)
  BY <1>2
<1> QED BY <1>1, <1>2, <1>4, <1>5, CommitStreamKeepsInv


--------------------------------------------------------------------------------
(* The steps together. *)

\* A seek that fails poisons.
LEMMA SeekFailsKeepsInv ==
    ASSUME WInv, SeekFails \/ EmitFails
    PROVE  WInv'
<1>1. Abandon /\ state' = "Failed" /\ UNCHANGED <<sink, pos, form, placed>>
  BY DEF SeekFails, EmitFails
<1> QED BY <1>1, AbandonKeepsInv

\* So does nothing else: a poisoned writer only gives up its call.
LEMMA EmitRefusedKeepsInv ==
    ASSUME WInv, EmitRefused
    PROVE  WInv'
<1>1. Abandon /\ state' = "Failed" /\ UNCHANGED <<sink, pos, form, placed>>
  BY DEF EmitRefused, EnsureUsable
<1> QED BY <1>1, AbandonKeepsInv

\* A step of none of the variables.
LEMMA StutterKeepsInv ==
    ASSUME WInv, UNCHANGED vars
    PROVE  WInv'
<1>1. UNCHANGED <<sink, pos, state, form, call, plan, stream, placed, adding>>
  BY DEF vars
<1>2. Typed' /\ PlacedWhole'
  BY <1>1, PlacedSame DEF WInv, Typed, TypeOK, StreamFields
<1>3. ASSUME EnsureUsable' PROVE Part'
  <2>1. Part
    BY <1>1, <1>3 DEF WInv, EnsureUsable
  <2>2. /\ End' = End /\ StreamHeader' = StreamHeader /\ StreamFill' = StreamFill
        /\ StreamUnit' = StreamUnit /\ SignedHeader' = SignedHeader /\ DataAt' = DataAt
        /\ StreamPart' = StreamPart
        /\ EmptyIffNone' = EmptyIffNone
    BY <1>1, TermsSame
  <2>3. HduPart => HduPart'
    BY <1>1, <2>2 DEF HduPart, AddingWhole
  <2>4. OpenPart => OpenPart'
    BY <1>1, <2>2 DEF OpenPart
  <2>5. (StartPart => StartPart') /\ (IdlePart => IdlePart')
    BY <1>1, <2>2 DEF StartPart, IdlePart
  <2>6. (BetweenPart => BetweenPart') /\ (ChunkPart => ChunkPart') /\ (FillPart => FillPart')
    BY <1>1, <2>2, <2>4 DEF BetweenPart, ChunkPart, FillPart
  <2>7. RewritePart => RewritePart'
    BY <1>1, <2>2 DEF RewritePart
  <2> QED BY <1>1, <2>1, <2>3, <2>5, <2>6, <2>7 DEF Part
<1> QED BY <1>2, <1>3 DEF WInv

\* The invariant is inductive.
LEMMA NextKeepsInv ==
    ASSUME WInv, [Next]_vars
    PROVE  WInv'
<1>1. CASE \E n \in 1..Len(plan) : Emit(n)
  BY <1>1, EmitKeepsInv
<1>2. CASE EmitFails \/ SeekFails
  BY <1>2, SeekFailsKeepsInv
<1>3. CASE EmitRefused
  BY <1>3, EmitRefusedKeepsInv
<1>4. CASE WriteRawHdu \/ WriteImage \/ WriteTable \/ WriteEmptyPrimary
  BY <1>4, WriteKeepsInv
<1>5. CASE \E len \in 0..MaxLen : StartStream(len)
  BY <1>5, StartStreamKeepsInv
<1>6. CASE HduWritten
  BY <1>6, HduWrittenKeepsInv
<1>7. CASE StreamStarted
  BY <1>7, StreamStartedKeepsInv
<1>8. CASE \E n \in 1..MaxLen : WriteChunk(n)
  BY <1>8, WriteChunkKeepsInv
<1>9. CASE ChunkWritten
  BY <1>9, ChunkWrittenKeepsInv
<1>10. CASE DropStream
  BY <1>10, DropStreamKeepsInv
<1>11. CASE Finish
  BY <1>11, FinishKeepsInv
<1>12. CASE Sign
  BY <1>12, SignKeepsInv
<1>13. CASE FinishUnsigned
  BY <1>13, FinishUnsignedKeepsInv
<1>14. CASE Signed
  BY <1>14, SignedKeepsInv
<1>15. CASE UNCHANGED vars
  BY <1>15, StutterKeepsInv
<1> QED BY <1>1, <1>2, <1>3, <1>4, <1>5, <1>6, <1>7, <1>8, <1>9, <1>10, <1>11, <1>12, <1>13,
           <1>14, <1>15 DEF Next

\* A new writer, and one that continues a file, are in it.
LEMMA InitInv ==
    ASSUME Init
    PROVE  WInv
<1>1. /\ form \in Forms /\ pos = Len(sink) /\ call = "none" /\ plan = <<>>
      /\ stream = NoStream /\ adding = <<>>
  BY DEF Init
<1>2. form.checksums \in BOOLEAN /\ form.spare \in Nat
  BY <1>1, WriterAssumption DEF Forms
<1>3. /\ stream.open = FALSE /\ stream.written = 0 /\ stream.chunk = 0
      /\ stream.expected = 0 /\ StreamFields
  BY <1>1 DEF NoStream, StreamFields
<1>4. CASE sink = <<>> /\ state = "Empty" /\ placed = <<>>
  <2>1. IsSeq(sink) /\ Len(sink) = 0 /\ IsSeq(placed) /\ Len(placed) = 0
    BY <1>4, EmptyIsSeq
  <2>2. End = 0
    BY <1>4 DEF End
  <2>3. PlacedWhole
    BY <2>1, <2>2 DEF PlacedWhole, Extents
  <2>4. TypeOK
    BY <2>1, <1>1, <1>3, <1>4 DEF TypeOK, Calls
  <2>5. IdlePart
    BY <2>1, <2>2, <1>1, <1>4 DEF IdlePart, EmptyIffNone
  <2> QED BY <2>1, <2>3, <2>4, <2>5, <1>1, <1>3, <1>4, EmptyIsSeq DEF WInv, Typed, Part
<1>5. CASE /\ sink = RenderInto(EmptyPrimary,
                                IF form.checksums THEN WithDataSum(<<>>) ELSE Unsigned, 0)
           /\ state = "Active" /\ placed = <<Extent(0, Len(sink))>>
  <2> DEFINE signs == form.checksums
             e == Extent(0, Len(sink))
  <2>1. /\ sink = HduCells(EmptyPrimary, signs, 0, TRUE)
        /\ IsHeader(EmptyPrimary) /\ HasRole(EmptyPrimary, TRUE)
    <3>1. sink = RenderInto(EmptyPrimary, SigningOf(signs, <<>>), 0)
      BY <1>5 DEF SigningOf
    <3> QED BY <3>1, <1>2, LeadIsHdu
  <2>2. IsSeq(sink) /\ Len(sink) \in Nat /\ Len(sink) > 0
    BY <2>1, <1>2, HduIsSeq
  <2>3. IsHdu(1, sink, signs)
    <3>1. (1 = 1) = TRUE /\ 0 \in Nat
      OBVIOUS
    <3> QED BY <3>1, <2>1 DEF IsHdu
  <2>4. IsSeq(placed) /\ Len(placed) = 1 /\ placed[1] = e
    BY <1>5, SingletonIsSeq
  <2>5. e = Extent(e.from, e.to) /\ e.from = 0 /\ e.to = Len(sink)
    BY DEF Extent
  <2> HIDE DEF e
  <2>6. placed # <<>>
    BY <2>4, EmptyIsSeq
  <2>7. End = Len(sink)
    BY <2>4, <2>5, <2>6 DEF End
  <2>8. Committed(1) = sink
    <3>1. Committed(1) = SubSeq(sink, 0 + 1, Len(sink))
      BY <2>4, <2>5 DEF Committed
    <3>2. 0 + 1 = 1
      OBVIOUS
    <3> QED BY <3>1, <3>2, <2>2, CutOfAll
  <2>9. \A i \in 1..Len(placed) : i = 1
    BY <2>4
  <2>10. Extents(placed, 0)
    BY <2>2, <2>4, <2>5, <2>9 DEF Extents
  <2>11. PlacedWhole
    BY <2>2, <2>3, <2>4, <2>5, <2>7, <2>8, <2>9, <2>10 DEF PlacedWhole
  <2>12. TypeOK
    BY <2>2, <1>1, <1>3, <1>5 DEF TypeOK, Calls
  <2>13. IdlePart
    BY <2>6, <2>7, <1>1, <1>5 DEF IdlePart, EmptyIffNone
  <2> QED BY <2>2, <2>11, <2>12, <2>13, <1>1, <1>3, <1>5, EmptyIsSeq DEF WInv, Typed, Part
<1> QED BY <1>4, <1>5 DEF Init

\* The writer is in its invariant at every step, for every block size, raw header
\* and bound: what is in the file, what a call has left to emit and what it will
\* commit agree, in every call and wherever the sink stops.
THEOREM WInvHolds == Spec => []WInv
<1>1. Init => WInv
  BY InitInv
<1>2. WInv /\ [Next]_vars => WInv'
  BY NextKeepsInv
<1> QED BY <1>1, <1>2, PTL DEF Spec

\* The type invariant, for every block size, raw header and bound: the sink's
\* position stays within the file and the stream's counts within the image.
THEOREM WriterTyped == Spec => []TypeOK
<1>1. WInv => TypeOK
  BY DEF WInv, Typed
<1> QED BY <1>1, WInvHolds, PTL

-----------------------------------------------------------------------------
(* A failed writer. *)

\* Where a failed writer can be.
FailedIsIdle == state = "Failed" => call \in {"none", "chunk"}

\* A step of FinishHdu starts a call of a usable writer and touches no byte.
LEMMA FinishHduStarts ==
    ASSUME NEW header, NEW len, FinishHdu(header, len)
    PROVE  state # "Failed" /\ state' = state /\ call' = "hdu" /\ sink' = sink
BY DEF FinishHdu, EnsureUsable

\* So does every call that writes one HDU.
LEMMA WritesStart ==
    ASSUME WriteRawHdu \/ WriteImage \/ WriteTable \/ WriteEmptyPrimary
    PROVE  state # "Failed" /\ state' = state /\ call' = "hdu" /\ sink' = sink
<1>1. CASE WriteRawHdu
  BY <1>1, FinishHduStarts DEF WriteRawHdu
<1>2. CASE WriteImage
  BY <1>2, FinishHduStarts DEF WriteImage
<1>3. CASE WriteTable
  BY <1>3, FinishHduStarts DEF WriteTable
<1>4. CASE WriteEmptyPrimary
  BY <1>4, FinishHduStarts DEF WriteEmptyPrimary
<1> QED
  BY <1>1, <1>2, <1>3, <1>4

\* What any step does to the state, the call and the bytes, as far as a failed
\* writer is concerned.
LEMMA StepShape ==
    ASSUME FailedIsIdle, [Next]_vars
    PROVE  /\ FailedIsIdle'
           /\ state = "Failed" => sink' = sink /\ state' = "Failed"
<1> USE DEF FailedIsIdle
<1>1. CASE \E n \in 1..Len(plan) : Emit(n)
  BY <1>1 DEF Emit, EnsureUsable
<1>2. CASE EmitFails
  BY <1>2 DEF EmitFails, Abandon, EnsureUsable
<1>3. CASE EmitRefused
  BY <1>3 DEF EmitRefused, Abandon, EnsureUsable
<1>4. CASE WriteRawHdu \/ WriteImage \/ WriteTable \/ WriteEmptyPrimary
  BY <1>4, WritesStart
<1>5. CASE \E len \in 0..MaxLen : StartStream(len)
  BY <1>5 DEF StartStream, EnsureUsable
<1>6. CASE HduWritten
  BY <1>6 DEF HduWritten
<1>7. CASE StreamStarted
  BY <1>7 DEF StreamStarted
<1>8. CASE \E n \in 1..MaxLen : WriteChunk(n)
  BY <1>8 DEF WriteChunk
<1>9. CASE ChunkWritten
  BY <1>9 DEF ChunkWritten
<1>10. CASE DropStream
  BY <1>10 DEF DropStream
<1>11. CASE Finish
  BY <1>11 DEF Finish, EnsureUsable
<1>12. CASE Sign
  BY <1>12 DEF Sign
<1>13. CASE FinishUnsigned
  BY <1>13 DEF FinishUnsigned, CommitStream
<1>14. CASE Signed
  BY <1>14 DEF Signed, CommitStream
<1>15. CASE SeekFails
  BY <1>15 DEF SeekFails, Abandon
<1>16. CASE UNCHANGED vars
  BY <1>16 DEF vars
<1> QED
  BY <1>1, <1>2, <1>3, <1>4, <1>5, <1>6, <1>7, <1>8, <1>9, <1>10, <1>11, <1>12,
     <1>13, <1>14, <1>15, <1>16 DEF Next

\* A failed writer is between calls or in a chunk: it can reach no line that
\* makes it Active again.
THEOREM FailedWriterIsIdle == Spec => []FailedIsIdle
<1>1. Init => FailedIsIdle
  BY DEF Init, FailedIsIdle
<1>2. FailedIsIdle /\ [Next]_vars => FailedIsIdle'
  BY StepShape
<1> QED
  BY <1>1, <1>2, PTL DEF Spec

\* After a failed write the writer refuses all later ones: it writes not a byte
\* more and stays failed.
THEOREM FailedWriterStops == Spec => FailedIsFinal
<1>1. FailedIsIdle /\ [Next]_vars =>
          [state = "Failed" => sink' = sink /\ state' = "Failed"]_vars
  BY StepShape
<1> QED
  BY <1>1, FailedWriterIsIdle, PTL DEF Spec, FailedIsFinal


--------------------------------------------------------------------------------
(* A usable file. *)

\* Where a committed HDU is, and what it holds.
InLog(i) ==
    /\ placed[i].from \in Nat /\ placed[i].to \in Nat
    /\ placed[i].from < placed[i].to /\ placed[i].to <= Len(sink)
    /\ placed[i].from = (IF i = 1 THEN 0 ELSE placed[i - 1].to)
    /\ (placed[i].from = 0) = (i = 1)
    /\ IsHdu(i, Committed(i), form.checksums)
    /\ Holds(sink, placed[i].from, Committed(i))
    /\ Len(Committed(i)) = placed[i].to - placed[i].from
    /\ Len(Committed(i)) \in Nat

\* A committed HDU is in the file, at the place the log gives it.
LEMMA LogShape ==
    ASSUME Typed, PlacedWhole, NEW i \in 1..Len(placed)
    PROVE  InLog(i)
<1>1. Numbers /\ Len(placed) \in Nat
  BY Basics, LenNat DEF PlacedWhole, Extents
<1>2. \A j \in 1..Len(placed) :
        /\ placed[j].from \in Nat /\ placed[j].to \in Nat
        /\ placed[j].from < placed[j].to /\ placed[j].to <= End
        /\ placed[j].from = (IF j = 1 THEN 0 ELSE placed[j - 1].to)
        /\ IsHdu(j, Committed(j), form.checksums)
  BY DEF PlacedWhole, Extents
<1> DEFINE m == placed[i].from
           n == placed[i].to
           cells == Committed(i)
<1>3. /\ m \in Nat /\ n \in Nat /\ m < n /\ m <= n /\ n <= Len(sink) /\ IsSeq(sink)
  <2>1. n \in Nat /\ m \in Nat /\ n <= End /\ m < n
    BY <1>2
  <2>2. End \in Nat /\ Len(sink) \in Nat /\ End <= Len(sink) /\ IsSeq(sink)
    BY <1>1 DEF Numbers
  <2> QED BY <2>1, <2>2
<1>4. cells = SubSeq(sink, m + 1, n)
  BY DEF Committed
<1>5. (m = 0) = (i = 1)
  <2>1. CASE i = 1
    BY <2>1, <1>2
  <2>2. CASE i # 1
    <3>1. i - 1 \in 1..Len(placed)
      BY <2>2, <1>1
    <3>2. m = placed[i - 1].to /\ placed[i - 1].to > placed[i - 1].from
          /\ placed[i - 1].from \in Nat /\ placed[i - 1].to \in Nat
      BY <2>2, <3>1, <1>2
    <3> QED BY <2>2, <3>2
  <2> QED BY <2>1, <2>2
<1> HIDE DEF m, n, cells
<1>6. IsSeq(cells) /\ Len(cells) = n - m /\ Holds(sink, m, cells)
  BY <1>3, <1>4, CutIsHeld DEF Slice
<1>7. Len(cells) \in Nat
  BY <1>6, LenNat
<1> QED BY <1>2, <1>3, <1>5, <1>6, <1>7 DEF InLog, m, n, cells

\* The bytes of a committed HDU are all of it.
LEMMA LogIsWhole ==
    ASSUME NEW i \in Nat, NEW cells, NEW signs \in BOOLEAN, IsHdu(i, cells, signs)
    PROVE  WholeUnit(i, cells)
<1> DEFINE primary == i = 1
<1>1. PICK header, spare :
          /\ IsHeader(header) /\ spare \in Nat /\ HasRole(header, i = 1)
          /\ cells = HduCells(header, signs, spare, i = 1)
  BY DEF IsHdu
<1>2. (i = 1) = primary /\ primary \in BOOLEAN
  OBVIOUS
<1> HIDE DEF primary
<1>3. HasRole(header, primary) /\ cells = HduCells(header, signs, spare, primary)
  BY <1>1, <1>2
<1>4. IsWhole(cells, primary)
  BY <1>1, <1>2, <1>3, HduIsWhole
<1> QED BY <1>2, <1>4 DEF WholeUnit, IsWhole

\* What a reader finds at the offset of a committed HDU.
LEMMA LogReads ==
    ASSUME Typed, PlacedWhole, NEW i \in 1..Len(placed)
    PROVE  LET at  == placed[i].from
               hdu == HduOf(Unit(sink, at), at)
           IN  /\ EndBlocks(sink, at) # {}
               /\ Len(sink) - at >= B
               /\ hdu.offset = at
               /\ DataEnd(hdu) = placed[i].to
               /\ form.checksums => DatasumValid(sink, hdu) /\ ChecksumValid(sink, hdu)
<1> DEFINE at == placed[i].from
           hdu == HduOf(Unit(sink, at), at)
           cells == Committed(i)
           signs == form.checksums
           primary == i = 1
<1>1. InLog(i)
  BY LogShape
<1>2. Numbers
  BY Basics
<1>3. /\ at \in Nat /\ IsSeq(sink) /\ Holds(sink, at, cells) /\ signs \in BOOLEAN
      /\ placed[i].to = at + Len(cells)
  <2>1. at \in Nat /\ Holds(sink, at, cells)
    BY <1>1 DEF InLog
  <2>2. IsSeq(sink) /\ signs \in BOOLEAN
    BY <1>2 DEF Numbers
  <2>3. placed[i].to \in Nat /\ Len(cells) \in Nat /\ Len(cells) = placed[i].to - at
    BY <1>1 DEF InLog
  <2> HIDE DEF at, cells
  <2>4. placed[i].to = at + Len(cells)
    BY <2>1, <2>3
  <2> QED BY <2>1, <2>2, <2>4
<1>4. PICK header, spare :
          /\ IsHeader(header) /\ spare \in Nat /\ HasRole(header, i = 1)
          /\ cells = HduCells(header, signs, spare, i = 1)
  BY <1>1 DEF InLog, IsHdu
<1>5. (i = 1) = primary /\ primary \in BOOLEAN /\ (at = 0) = primary
  BY <1>1 DEF InLog
<1> HIDE DEF primary, at, cells, signs
<1>6. HasRole(header, primary) /\ cells = HduCells(header, signs, spare, primary)
  BY <1>4, <1>5
<1>7. Reads(sink, at, header, signs, spare, primary)
  BY <1>3, <1>4, <1>5, <1>6, HduReads
<1> DEFINE hc == HeaderCells(header, signs, spare, primary)
           unit == UnitOf(KindOf(header, primary))
<1>8. HduParts(header, signs, spare, primary)
  BY <1>3, <1>4, <1>5, <1>6, HduShape
<1>9. Joins(hc, unit, cells) /\ Len(hc) \in Nat /\ Len(unit) \in Nat
  BY <1>6, <1>8 DEF HduParts
<1>10. /\ EndBlocks(sink, at) # {} /\ Len(sink) - at >= B /\ hdu.offset = at
       /\ DataEnd(hdu) = at + Len(hc) + Len(unit)
       /\ signs => DatasumValid(sink, hdu) /\ ChecksumValid(sink, hdu)
  BY <1>7 DEF Reads
<1> HIDE DEF hc, unit, hdu
<1>11. DataEnd(hdu) = placed[i].to
  <2>1. Len(cells) = Len(hc) + Len(unit)
    BY <1>9 DEF Joins
  <2> QED BY <2>1, <1>3, <1>9, <1>10
<1> QED BY <1>10, <1>11 DEF hdu, at, signs

\* Between calls, the file of a writer that has not failed is whole HDUs end to
\* end with sums that hold, for every block size, raw header and bound.
THEOREM WholeFile == Spec => []UsableFileIsWhole
<1>1. ASSUME WInv PROVE UsableFileIsWhole
  <2>1. SUFFICES ASSUME Idle, EnsureUsable
                 PROVE  /\ pos = Len(sink)
                        /\ state = "Empty" <=> sink = <<>>
                        /\ \A i \in 1..Len(placed) :
                              /\ placed[i].from = (IF i = 1 THEN 0 ELSE placed[i - 1].to)
                              /\ WholeUnit(i, Committed(i))
                              /\ form.checksums =>
                                    LET hdu == HduOf(Unit(sink, placed[i].from), placed[i].from)
                                    IN  DatasumValid(sink, hdu) /\ ChecksumValid(sink, hdu)
                        /\ Len(sink) = (IF placed = <<>> THEN 0 ELSE placed[Len(placed)].to)
    BY DEF UsableFileIsWhole
  <2>2. Typed /\ PlacedWhole /\ IdlePart
    BY <1>1, <2>1 DEF WInv, Part, Idle
  <2>3. Numbers /\ Len(placed) \in Nat /\ IsSeq(placed)
    BY <2>2, Basics, LenNat DEF PlacedWhole, Extents
  <2>4. pos = Len(sink) /\ Len(sink) = End
    BY <2>2 DEF IdlePart
  <2>5. state = "Empty" <=> sink = <<>>
    <3>1. state = "Empty" <=> placed = <<>>
      BY <2>2 DEF IdlePart, EmptyIffNone
    <3>2. ASSUME placed = <<>> PROVE sink = <<>>
      <4>1. Len(sink) = 0 /\ IsSeq(sink)
        BY <2>3, <2>4, <3>2 DEF End, Numbers
      <4> QED BY <4>1, EmptyIsSeq, SeqsEqual
    <3>3. ASSUME placed # <<>> PROVE sink # <<>>
      <4> DEFINE n == Len(placed)
      <4>1. n # 0
        BY <2>3, <3>3, EmptyIsSeq, SeqsEqual
      <4>2. n \in 1..Len(placed)
        BY <4>1, <2>3
      <4>3. InLog(n)
        BY <4>2, <2>2, LogShape
      <4>4. Len(sink) > 0
        <5>1. /\ placed[n].from \in Nat /\ placed[n].to \in Nat
              /\ placed[n].from < placed[n].to /\ placed[n].to <= Len(sink)
          BY <4>3 DEF InLog
        <5>2. Len(sink) \in Nat
          BY <2>3 DEF Numbers
        <5> QED BY <5>1, <5>2
      <4> QED BY <4>4, EmptyIsSeq
    <3> QED BY <3>1, <3>2, <3>3
  <2>6. ASSUME NEW i \in 1..Len(placed)
        PROVE  /\ placed[i].from = (IF i = 1 THEN 0 ELSE placed[i - 1].to)
               /\ WholeUnit(i, Committed(i))
               /\ form.checksums =>
                     LET hdu == HduOf(Unit(sink, placed[i].from), placed[i].from)
                     IN  DatasumValid(sink, hdu) /\ ChecksumValid(sink, hdu)
    <3>1. InLog(i)
      BY <2>2, LogShape
    <3>2. WholeUnit(i, Committed(i))
      <4>1. form.checksums \in BOOLEAN /\ i \in Nat
        BY <2>3 DEF Numbers
      <4> QED BY <4>1, <3>1, LogIsWhole DEF InLog
    <3> QED BY <3>1, <3>2, <2>2, LogReads DEF InLog
  <2> QED BY <2>4, <2>5, <2>6 DEF End
<1> QED BY <1>1, WInvHolds, PTL


--------------------------------------------------------------------------------
(* What is overwritten. *)

\* Every step but one of the sink leaves the bytes alone.
LEMMA OnlyEmitWrites ==
    ASSUME [Next]_vars, ~(\E n \in 1..Len(plan) : Emit(n))
    PROVE  sink' = sink
<1>1. ASSUME NEW header, NEW len, FinishHdu(header, len) PROVE sink' = sink
  BY <1>1 DEF FinishHdu
<1>2. CASE WriteRawHdu \/ WriteImage \/ WriteTable \/ WriteEmptyPrimary
  BY <1>1, <1>2 DEF WriteRawHdu, WriteImage, WriteTable, WriteEmptyPrimary
<1>3. CASE EmitFails \/ EmitRefused \/ SeekFails
  BY <1>3 DEF EmitFails, EmitRefused, SeekFails
<1>4. CASE \E len \in 0..MaxLen : StartStream(len)
  BY <1>4 DEF StartStream
<1>5. CASE \E n \in 1..MaxLen : WriteChunk(n)
  BY <1>5 DEF WriteChunk
<1>6. CASE HduWritten \/ StreamStarted \/ ChunkWritten \/ DropStream \/ Finish \/ Sign
  BY <1>6 DEF HduWritten, StreamStarted, ChunkWritten, DropStream, Finish, Sign
<1>7. CASE FinishUnsigned \/ Signed
  BY <1>7 DEF FinishUnsigned, Signed, CommitStream
<1>8. CASE UNCHANGED vars
  BY <1>8 DEF vars
<1> QED BY <1>2, <1>3, <1>4, <1>5, <1>6, <1>7, <1>8 DEF Next

\* Where the sink takes a call's bytes: after the log, and at the end of the
\* file unless a header is signed.
LEMMA EmitPlace ==
    ASSUME WInv, NEW n \in 1..Len(plan), Emit(n)
    PROVE  End <= pos /\ (call # "rewrite" => pos = Len(sink))
<1>1. Typed /\ PlacedWhole /\ EnsureUsable /\ plan # <<>> /\ Part
  BY DEF WInv, Emit
<1>2. Numbers
  BY <1>1, Basics
<1>3. call \in {"hdu", "start", "chunk", "fill", "rewrite"}
  BY <1>1 DEF Typed, TypeOK, Calls
<1>4. CASE call # "rewrite"
  <2>1. pos = Len(sink)
    BY <1>1, <1>3, <1>4 DEF Part, HduPart, StartPart, ChunkPart, FillPart, OpenPart
  <2> QED BY <2>1, <1>2 DEF Numbers
<1>5. CASE call = "rewrite"
  <2>1. RewritePart
    BY <1>1, <1>5 DEF Part
  <2>2. StreamFacts /\ Emitting(pos, plan, sink, End, SignedHeader)
    BY <2>1, <1>1, StreamShape DEF RewritePart
  <2>3. Len(SignedHeader) \in Nat /\ End \in Nat
    BY <2>2, <1>2, LenNat DEF StreamFacts, Numbers
  <2>4. pos \in End..End + Len(SignedHeader)
    BY <2>2 DEF Emitting
  <2> QED BY <2>3, <2>4, <1>5
<1> QED BY <1>4, <1>5

\* What the bytes emitted leave alone.
LEMMA EmitWrites ==
    ASSUME WInv, NEW n \in 1..Len(plan), Emit(n)
    PROVE  /\ IsSeq(sink) /\ IsSeq(sink') /\ Len(sink') >= Len(sink)
           /\ \A i \in 1..Len(sink) : i <= pos => sink'[i] = sink[i]
<1> DEFINE bytes == SubSeq(plan, 1, n)
<1>1. Numbers
  BY Basics DEF WInv
<1>2. sink' = Overwrite(sink, pos, bytes)
  BY DEF Emit
<1>3. Cuts(plan, 1, n, bytes)
  <2>1. IsSeq(plan) /\ 1 \in 1..Len(plan) + 1 /\ n \in 1 - 1..Len(plan)
    BY <1>1 DEF Numbers
  <2> QED BY <2>1, SubSeqIsSeq
<1>4. IsSeq(bytes)
  BY <1>3 DEF Cuts
<1> HIDE DEF bytes
<1>5. Overwrites(sink, pos, bytes, sink')
  BY <1>1, <1>2, <1>4, OverwriteShape DEF Numbers
<1> QED BY <1>1, <1>5 DEF Overwrites, Numbers

\* No step of the writer changes a byte that is written, but for the placeholder
\* sums of the open stream's header that `rewrite_header` signs.
THEOREM SignaturesOnly == Spec => OverwritesOnlySignatures
<1> DEFINE Kept == \A i \in 1..Len(sink) :
                      sink'[i] # sink[i] =>
                          /\ i > stream.offset
                          /\ sink[i] \in {Placeholder, Datasum(<<>>)}
                          /\ sink'[i][1] = sink[i][1]
<1>1. ASSUME WInv, [Next]_vars PROVE Kept
  <2>1. CASE ~(\E n \in 1..Len(plan) : Emit(n))
    BY <2>1, <1>1, OnlyEmitWrites
  <2>2. ASSUME NEW n \in 1..Len(plan), Emit(n) PROVE Kept
    <3>1. CASE call # "rewrite"
      <4>1. pos = Len(sink) /\ Len(sink) \in Nat
        BY <3>1, <2>2, <1>1, EmitPlace, Basics DEF WInv, Numbers
      <4>2. \A i \in 1..Len(sink) : i <= pos
        BY <4>1
      <4> QED BY <4>2, <2>2, <1>1, EmitWrites
    <3>2. CASE call = "rewrite"
      <4>1. Typed /\ PlacedWhole /\ RewritePart
        BY <3>2, <2>2, <1>1 DEF WInv, Part, Emit
      <4> QED BY <4>1, <2>2, EmitRewrite
    <3> QED BY <3>1, <3>2
  <2> QED BY <2>1, <2>2
<1> QED BY <1>1, WInvHolds, PTL DEF Spec, OverwritesOnlySignatures


--------------------------------------------------------------------------------
(* The log of HDUs. *)

\* The HDUs of the log: the bytes of those committed.
Hdus == [i \in 1..Len(placed) |-> Committed(i)]

\* The log has every HDU committed, and each is whole.
LogShown ==
    /\ IsSeq(Hdus) /\ Len(Hdus) = Len(placed) /\ Len(placed) \in Nat
    /\ \A i \in 1..Len(placed) : Hdus[i] = Committed(i)
    /\ Log!AllWhole(Hdus)

\* The HDUs of the log are those committed, and they are whole.
LEMMA HdusShape == ASSUME WInv PROVE LogShown
<1>1. Typed /\ PlacedWhole
  BY DEF WInv
<1>2. Len(placed) \in Nat
  BY <1>1, LenNat DEF PlacedWhole, Extents
<1>3. Hdus = [i \in 1..Len(placed) |-> Hdus[i]] /\ \A i \in 1..Len(placed) : Hdus[i] = Committed(i)
  BY DEF Hdus
<1>4. IsSeq(Hdus) /\ Len(Hdus) = Len(placed)
  BY <1>2, <1>3, FunIsSeq
<1>5. \A i \in 1..Len(Hdus) : WholeUnit(i, Hdus[i])
  <2>1. TAKE i \in 1..Len(Hdus)
  <2>2. i \in Nat /\ form.checksums \in BOOLEAN /\ IsHdu(i, Committed(i), form.checksums)
    BY <1>1, <1>2, <1>4, Basics DEF Numbers, PlacedWhole
  <2> QED BY <2>2, <1>3, <1>4, LogIsWhole
<1> QED BY <1>2, <1>3, <1>4, <1>5 DEF Log!AllWhole, LogShown

\* A step that neither commits nor fails is none of the log's.
LEMMA LogStutters ==
    ASSUME WInv, IsSeq(sink'), Len(sink') >= Len(sink),
           \A i \in 1..Len(sink) : i <= End => sink'[i] = sink[i],
           UNCHANGED <<placed, form>>
    PROVE  Hdus' = Hdus
<1>1. Typed /\ PlacedWhole /\ Numbers
  BY Basics DEF WInv
<1>2. \A i \in 1..End : sink'[i] = sink[i]
  BY <1>1 DEF Numbers
<1>3. \A i \in 1..Len(placed) : Committed(i)' = Committed(i)
  BY <1>1, <1>2, PlacedKept DEF Numbers
<1>4. Hdus' = [i \in 1..Len(placed) |-> Committed(i)']
  BY DEF Hdus
<1> QED BY <1>3, <1>4 DEF Hdus

\* A commit adds its HDUs after the others.
LEMMA LogCommits ==
    ASSUME WInv, LogShown, LogShown', EnsureUsable, EnsureUsable', sink' = sink,
           NEW added, IsSeq(added), placed' = placed \o added,
           Len(added) \in (IF Len(placed) = 0 THEN {1, 2} ELSE {1})
    PROVE  Log!Commit
<1> DEFINE n == Len(placed)
<1>1. /\ IsSeq(Hdus) /\ Len(Hdus) = n /\ n \in Nat
      /\ \A i \in 1..n : Hdus[i] = Committed(i)
  BY DEF LogShown
<1>2. /\ IsSeq(Hdus') /\ Len(Hdus') = Len(placed')
      /\ \A i \in 1..Len(placed') : Hdus'[i] = Committed(i)'
      /\ Log!AllWhole(Hdus)'
  BY DEF LogShown
<1>3. IsSeq(placed)
  BY DEF WInv, PlacedWhole, Extents
<1>4. Joins(placed, added, placed')
  BY <1>3, ConcatIsSeq
<1>5. Len(placed') = n + Len(added) /\ \A i \in 1..n : placed'[i] = placed[i]
  BY <1>4 DEF Joins
<1>6. \A i \in 1..n : Committed(i)' = Committed(i)
  BY <1>5 DEF Committed
<1>7. Len(Hdus') - Len(Hdus) = Len(added) /\ Len(Hdus') >= n /\ Len(Hdus') \in Nat
  BY <1>1, <1>2, <1>5, LenNat
<1>8. Hdus = <<>> <=> n = 0
  BY <1>1, EmptyIsSeq, SeqsEqual
<1>9. \A i \in 1..n : Hdus'[i] = Hdus[i]
  BY <1>1, <1>2, <1>5, <1>6, <1>7
<1>10. SubSeq(Hdus', 1, n) = Hdus
  <2> DEFINE t == Hdus'
             s == SubSeq(t, 1, n)
  <2>1. IsSeq(t) /\ Len(t) >= n /\ Len(t) \in Nat /\ \A i \in 1..n : t[i] = Hdus[i]
    BY <1>2, <1>7, <1>9
  <2> HIDE DEF t
  <2>2. 1 \in 1..Len(t) + 1 /\ n \in 1 - 1..Len(t)
    BY <2>1, <1>1
  <2>3. Cuts(t, 1, n, s)
    BY <2>1, <2>2, SubSeqIsSeq
  <2> HIDE DEF s
  <2>4. IsSeq(s) /\ Len(s) = n /\ \A i \in 1..n : s[i] = t[i]
    BY <2>3, <1>1 DEF Cuts
  <2>5. s = Hdus
    BY <2>1, <2>4, <1>1, SeqsEqual
  <2> QED BY <2>5 DEF s, t
<1>11. /\ Len(Hdus') - Len(Hdus) \in (IF Hdus = <<>> THEN {1, 2} ELSE {1})
       /\ SubSeq(Hdus', 1, Len(Hdus)) = Hdus
  BY <1>1, <1>7, <1>8, <1>10
<1>12. EnsureUsable' = EnsureUsable
  BY DEF EnsureUsable
<1> QED BY <1>2, <1>11, <1>12 DEF Log!Commit, Hdus

\* What each step is of the log.
LEMMA NextIsLogNext ==
    ASSUME WInv, LogShown, LogShown', [Next]_vars
    PROVE  [Log!LogNext]_(Log!logvars)
<1> DEFINE Still == Hdus' = Hdus /\ EnsureUsable' = EnsureUsable
           Failing == Hdus' = Hdus /\ EnsureUsable' = FALSE
<1>1. ASSUME UNCHANGED <<sink, placed, form>> PROVE Hdus' = Hdus
  BY <1>1 DEF Hdus, Committed
<1>2. ASSUME NEW header, NEW len, FinishHdu(header, len) PROVE Still
  BY <1>1, <1>2 DEF FinishHdu, EnsureUsable
<1>3. CASE WriteRawHdu \/ WriteImage \/ WriteTable \/ WriteEmptyPrimary
  <2>1. Still
    BY <1>2, <1>3 DEF WriteRawHdu, WriteImage, WriteTable, WriteEmptyPrimary
  <2> QED BY <2>1 DEF Log!logvars, Hdus
<1>4. CASE EmitFails \/ EmitRefused \/ SeekFails \/ DropStream
  <2>1. Failing
    BY <1>1, <1>4 DEF EmitFails, EmitRefused, SeekFails, DropStream, EnsureUsable
  <2> QED BY <2>1 DEF Log!LogNext, Log!Fail, Hdus
<1>5. CASE \E n \in 1..Len(plan) : Emit(n)
  <2>1. PICK n \in 1..Len(plan) : Emit(n)
    BY <1>5
  <2>2. IsSeq(sink') /\ Len(sink') >= Len(sink)
        /\ \A i \in 1..Len(sink) : i <= pos => sink'[i] = sink[i]
    BY <2>1, EmitWrites
  <2>3. End <= pos /\ Numbers
    BY <2>1, EmitPlace, Basics DEF WInv
  <2>4. \A i \in 1..Len(sink) : i <= End => sink'[i] = sink[i]
    BY <2>2, <2>3 DEF Numbers
  <2>5. UNCHANGED <<placed, form, state>>
    BY <2>1 DEF Emit
  <2>6. Still
    BY <2>2, <2>4, <2>5, LogStutters DEF EnsureUsable
  <2> QED BY <2>6 DEF Log!logvars, Hdus
<1>6. CASE \E len \in 0..MaxLen : StartStream(len)
  <2>1. Still
    BY <1>1, <1>6 DEF StartStream, EnsureUsable
  <2> QED BY <2>1 DEF Log!logvars, Hdus
<1>7. CASE \E n \in 1..MaxLen : WriteChunk(n)
  <2>1. Still
    BY <1>1, <1>7 DEF WriteChunk, EnsureUsable
  <2> QED BY <2>1 DEF Log!logvars, Hdus
<1>8. CASE StreamStarted \/ ChunkWritten \/ Finish \/ Sign \/ UNCHANGED vars
  <2>1. UNCHANGED <<sink, placed, form>> /\ EnsureUsable' = EnsureUsable
    BY <1>8 DEF WInv, Typed, StreamStarted, ChunkWritten, Finish, Sign, vars, EnsureUsable
  <2>2. Still
    BY <2>1, <1>1
  <2> QED BY <2>2 DEF Log!logvars, Hdus
<1>9. CASE HduWritten
  <2>1. EnsureUsable /\ EnsureUsable' /\ sink' = sink /\ placed' = placed \o adding
    BY <1>9 DEF WInv, Typed, HduWritten, EnsureUsable
  <2>2. PICK cells : AddingWhole(cells)
    BY <2>1, <1>9 DEF WInv, Part, HduPart, HduWritten
  <2>3. IsSeq(adding) /\ Len(adding) \in (IF Len(placed) = 0 THEN {1, 2} ELSE {1})
    BY <2>2 DEF AddingWhole, Adds, Extents
  <2>4. Log!Commit
    BY <2>1, <2>3, LogCommits
  <2> QED BY <2>4 DEF Log!LogNext
<1>10. CASE FinishUnsigned \/ Signed
  <2>1. PICK e : placed' = Append(placed, e) /\ sink' = sink /\ state' = state
    BY <1>10 DEF FinishUnsigned, Signed, CommitStream
  <2>2. EnsureUsable /\ EnsureUsable'
    BY <2>1, <1>10 DEF WInv, Typed, FinishUnsigned, Signed, EnsureUsable
  <2>3. placed' = placed \o <<e>>
    BY <2>1, AppendJoins DEF WInv, PlacedWhole, Extents
  <2>4. IsSeq(<<e>>) /\ Len(<<e>>) \in (IF Len(placed) = 0 THEN {1, 2} ELSE {1})
    BY SingletonIsSeq
  <2>5. Log!Commit
    BY <2>1, <2>2, <2>3, <2>4, LogCommits
  <2> QED BY <2>5 DEF Log!LogNext
<1> QED BY <1>3, <1>4, <1>5, <1>6, <1>7, <1>8, <1>9, <1>10 DEF Next

\* The writer implements the append-only log of HDUs for every block size, raw
\* header and bound: each commit adds whole HDUs after the others, and no step
\* of any call, stream or failure touches one that is committed.
THEOREM LogRefined == Spec => ImplementsHduLog
<1>1. ASSUME Init PROVE Log!LogInit
  <2>1. WInv
    BY <1>1, InitInv
  <2>2. Log!AllWhole(Hdus)
    BY <2>1, HdusShape DEF LogShown
  <2>3. EnsureUsable = TRUE
    BY <1>1 DEF Init, EnsureUsable
  <2> QED BY <2>2, <2>3 DEF Log!LogInit, Hdus
<1>2. WInv => LogShown
  BY HdusShape
<1>3. ASSUME WInv, LogShown, LogShown', [Next]_vars PROVE [Log!LogNext]_(Log!logvars)
  BY <1>3, NextIsLogNext
<1> QED BY <1>1, <1>2, <1>3, WInvHolds, PTL DEF Spec, ImplementsHduLog, Log!LogSpec


--------------------------------------------------------------------------------
(* What a scan finds. *)

\* The cells of a file written over are its own and those written.
LEMMA OverwriteIsFile ==
    ASSUME NEW file, IsFile(file), NEW bytes, IsFile(bytes), NEW at \in 0..Len(file)
    PROVE  IsFile(Overwrite(file, at, bytes))
<1> DEFINE w == Overwrite(file, at, bytes)
<1>1. IsSeq(file) /\ IsSeq(bytes) /\ Len(file) \in Nat /\ Len(bytes) \in Nat /\ at \in Nat
  BY LenNat DEF IsFile
<1>2. Overwrites(file, at, bytes, w)
  BY <1>1, OverwriteShape
<1> HIDE DEF w
<1>3. ASSUME NEW i \in 1..Len(w) PROVE IsCell(w[i])
  <2>1. CASE i \in at + 1..at + Len(bytes)
    <3>1. i - at \in 1..Len(bytes) /\ at + (i - at) = i
      BY <2>1, <1>1
    <3>2. w[at + (i - at)] = bytes[i - at] /\ IsCell(bytes[i - at])
      BY <3>1, <1>2 DEF Overwrites, IsFile
    <3> QED BY <3>1, <3>2
  <2>2. CASE i \notin at + 1..at + Len(bytes)
    <3>1. i \in 1..Len(file) /\ (i <= at \/ i > at + Len(bytes))
      BY <2>2, <1>1, <1>2 DEF Overwrites
    <3> QED BY <3>1, <1>2 DEF Overwrites, IsFile
  <2> QED BY <2>1, <2>2
<1>4. IsFile(w)
  BY <1>2, <1>3 DEF Overwrites, IsFile
<1> QED BY <1>4 DEF w

\* What is written, and what a call has left to write, are cells of a file.
CellsWritten == IsFile(sink) /\ IsFile(plan)

\* The empty file.
LEMMA EmptyIsFile == IsFile(<<>>)
BY EmptyIsSeq DEF IsFile

\* What `finish_hdu` renders.
LEMMA FinishHduIsFile ==
    ASSUME Typed, NEW header, IsHeader(header), NEW len, FinishHdu(header, len)
    PROVE  IsFile(plan')
<1> DEFINE primary == GoesFirst(header)
           kind == KindOf(header, primary)
           unit == UnitOf(kind)
<1>1. primary \in BOOLEAN /\ HasRole(header, primary) /\ kind.len = len
  BY DEF FinishHdu, GoesFirst, NextIsPrimary
<1>2. kind.len \in Nat
  BY <1>1, KindShape
<1>3. \A sum : IsSigning(Signing(sum))
  BY DEF Signing, IsSigning, WithDataSum, Unsigned
<1>4. form.spare \in Nat
  BY WriterAssumption DEF Typed, TypeOK, Forms
<1>5. IsFile(RenderInto(header, Signing(unit), form.spare))
  BY <1>3, <1>4, RenderIsFile
<1>6. IsFile(unit)
  BY <1>2, UnitIsFile
<1>7. IsFile(Lead(header))
  <2>1. IsHeader(EmptyPrimary)
    BY OneOpenShape DEF EmptyPrimary
  <2>2. IsFile(RenderInto(EmptyPrimary, Signing(<<>>), form.spare))
    BY <2>1, <1>3, <1>4, RenderIsFile
  <2> QED BY <2>2, EmptyIsFile DEF Lead
<1>8. plan' = Lead(header) \o (RenderInto(header, Signing(unit), form.spare) \o unit)
  BY <1>1 DEF FinishHdu, UnitOf
<1> HIDE DEF unit
<1>9. IsFile(RenderInto(header, Signing(unit), form.spare) \o unit)
  BY <1>5, <1>6, JoinIsFile
<1> QED BY <1>7, <1>8, <1>9, JoinIsFile

\* What a step leaves to write, and writes.
LEMMA NextIsFile ==
    ASSUME WInv, CellsWritten, [Next]_vars
    PROVE  CellsWritten'
<1>1. Typed /\ PlacedWhole /\ Numbers
  BY Basics DEF WInv
<1>2. CASE \E n \in 1..Len(plan) : Emit(n)
  <2>1. PICK n \in 1..Len(plan) : Emit(n)
    BY <1>2
  <2>2. n \in Nat /\ n <= Len(plan) /\ Len(plan) \in Nat /\ pos \in 0..Len(sink)
    BY <1>1 DEF Numbers
  <2>3. IsFile(SubSeq(plan, 0 + 1, n)) /\ IsFile(SubSeq(plan, n + 1, Len(plan)))
    BY <2>2, CutIsFile DEF CellsWritten
  <2>4. SubSeq(plan, 0 + 1, n) = SubSeq(plan, 1, n)
    OBVIOUS
  <2>5. IsFile(Overwrite(sink, pos, SubSeq(plan, 1, n)))
    BY <2>2, <2>3, <2>4, OverwriteIsFile DEF CellsWritten
  <2> QED BY <2>1, <2>3, <2>5 DEF Emit, CellsWritten
<1>3. CASE EmitFails \/ EmitRefused \/ SeekFails
  BY <1>3, EmptyIsFile DEF EmitFails, EmitRefused, SeekFails, Abandon, CellsWritten
<1>4. CASE WriteRawHdu \/ WriteImage \/ WriteTable \/ WriteEmptyPrimary
  <2>1. PICK header, len : IsHeader(header) /\ FinishHdu(header, len)
    BY <1>4, WriteIsFinish
  <2>2. IsFile(plan')
    BY <2>1, <1>1, FinishHduIsFile
  <2>3. sink' = sink
    BY <2>1 DEF FinishHdu
  <2> QED BY <2>2, <2>3 DEF CellsWritten
<1>5. CASE \E len \in 0..MaxLen : StartStream(len)
  <2>1. PICK len \in 0..MaxLen : StartStream(len)
    BY <1>5
  <2> DEFINE ext == ~NextIsPrimary
             signing == IF form.checksums THEN Unfinished ELSE Unsigned
  <2>2. ext \in BOOLEAN /\ len \in Nat /\ form.spare \in Nat
    BY <1>1, WriterAssumption DEF Numbers
  <2>3. IsSigning(signing)
    BY DEF IsSigning, Unfinished, Unsigned
  <2>4. plan' = RenderInto(<<Open(ext, FALSE, len)>>, signing, form.spare) /\ sink' = sink
    BY <2>1 DEF StartStream
  <2> HIDE DEF ext, signing
  <2>5. IsHeader(<<Open(ext, FALSE, len)>>)
    BY <2>2, OneOpenShape
  <2>6. IsFile(plan')
    BY <2>2, <2>3, <2>4, <2>5, RenderIsFile
  <2> QED BY <2>4, <2>6 DEF CellsWritten
<1>6. CASE \E n \in 1..MaxLen : WriteChunk(n)
  <2>1. PICK n \in 1..MaxLen : WriteChunk(n)
    BY <1>6
  <2> DEFINE m == stream.written
  <2>2. m \in Nat /\ m + n \in Nat /\ m <= m + n /\ stream.expected \in Nat /\ n \in Nat
    BY <1>1, WriterAssumption DEF Numbers
  <2>3. m + n <= stream.expected /\ sink' = sink
        /\ plan' = SubSeq(Data(stream.expected), m + 1, m + n)
    BY <2>1 DEF WriteChunk
  <2>4. IsFile(Data(stream.expected)) /\ Len(Data(stream.expected)) = stream.expected
    BY <2>2, DataIsFile, DataIsSeq
  <2>5. IsFile(plan')
    BY <2>2, <2>3, <2>4, CutIsFile
  <2> QED BY <2>3, <2>5 DEF CellsWritten
<1>7. CASE Finish
  <2>1. Padding(stream.expected) \in Nat
    <3>1. stream.expected \in Nat
      BY <1>1 DEF Numbers
    <3>2. Padding(stream.expected) \in 0..B - 1
      BY <3>1, Grid
    <3> QED BY <3>2, BAssumption
  <2>2. IsFile(Fill(Zero, Padding(stream.expected)))
    BY <2>1, FillIsFile DEF Zero
  <2> QED BY <2>2, <1>7 DEF Finish, CellsWritten
<1>8. CASE Sign
  <2>1. StreamPart /\ form.spare \in Nat
    BY <1>1, <1>8 DEF WInv, Part, FillPart, OpenPart, Sign, EnsureUsable, Numbers, Typed
  <2>2. IsHeader(stream.header)
    BY <2>1, <1>1, StreamShape DEF StreamFacts
  <2>3. \A sum : IsSigning(WithDataSum(sum))
    BY DEF IsSigning, WithDataSum
  <2>4. \A sum : IsFile(RenderInto(stream.header, WithDataSum(sum), form.spare))
    BY <2>1, <2>2, <2>3, RenderIsFile
  <2> QED BY <2>4, <1>8 DEF Sign, CellsWritten
<1>9. CASE HduWritten \/ StreamStarted \/ ChunkWritten \/ DropStream \/ FinishUnsigned \/ Signed
           \/ UNCHANGED vars
  BY <1>9 DEF HduWritten, StreamStarted, ChunkWritten, DropStream, FinishUnsigned, Signed,
              CommitStream, vars, CellsWritten
<1> QED BY <1>2, <1>3, <1>4, <1>5, <1>6, <1>7, <1>8, <1>9 DEF Next

\* A new writer, or one that continues a file.
LEMMA InitIsFile ==
    ASSUME Init
    PROVE  CellsWritten
<1> DEFINE signing == IF form.checksums THEN WithDataSum(<<>>) ELSE Unsigned
<1>1. IsHeader(EmptyPrimary)
  BY OneOpenShape DEF EmptyPrimary
<1>2. IsSigning(signing)
  BY DEF IsSigning, WithDataSum, Unsigned
<1>3. IsFile(RenderInto(EmptyPrimary, signing, 0))
  <2> HIDE DEF signing
  <2> QED BY <1>1, <1>2, RenderIsFile
<1> QED BY <1>3, EmptyIsFile DEF Init, CellsWritten

\* The HDUs of the log as a scan parses them.
Scanned == [i \in 1..Len(placed) |-> HduOf(Unit(sink, placed[i].from), placed[i].from)]

\* A scan finds what is committed.
LEMMA LogIsScanned ==
    ASSUME WInv, CellsWritten, \A i \in 1..Len(placed) : OpensFirst(Committed(i), i = 1)
    PROVE  ScansAs(sink, 0, Scanned) /\ Len(Scanned) = Len(placed)
<1> DEFINE list == Scanned
           n == Len(placed)
<1>1. Typed /\ PlacedWhole /\ Numbers /\ n \in Nat /\ Len(sink) \in Nat
  BY Basics, LenNat DEF WInv, PlacedWhole, Extents, Numbers
<1>2. list = [i \in 1..n |-> list[i]]
      /\ \A i \in 1..n : list[i] = HduOf(Unit(sink, placed[i].from), placed[i].from)
  BY DEF Scanned
<1> HIDE DEF list
<1>3. IsSeq(list) /\ Len(list) = n
  BY <1>1, <1>2, FunIsSeq
<1>4. \A i \in 1..n : InLog(i)
  BY <1>1, LogShape
<1>5. \A i \in 1..n : /\ EndBlocks(sink, placed[i].from) # {}
                      /\ Len(sink) - placed[i].from >= B
                      /\ DataEnd(list[i]) = placed[i].to
  BY <1>1, <1>2, LogReads
<1>6. \A i \in 1..n : OffsetIn(list, 0, i) = placed[i].from
  <2>1. TAKE i \in 1..n
  <2>2. CASE i = 1
    BY <2>2, <1>4 DEF OffsetIn, InLog
  <2>3. CASE i # 1
    <3>1. i - 1 \in 1..n
      BY <2>3, <1>1
    <3>2. placed[i].from = placed[i - 1].to
      BY <2>3, <1>4 DEF InLog
    <3> QED BY <2>3, <3>1, <3>2, <1>5 DEF OffsetIn
  <2> QED BY <2>2, <2>3
<1>7. ASSUME NEW i \in 1..n PROVE placed[i].from \in 0..Len(sink) /\ Found(sink, placed[i].from)
  <2> DEFINE at == placed[i].from
             first == SubSeq(sink, at + 1, at + B)
             cells == Committed(i)
             q == at + B
             primary == i = 1
  <2>1. /\ at \in Nat /\ Len(sink) - at >= B /\ EndBlocks(sink, at) # {} /\ IsSeq(sink)
        /\ at \in 0..Len(sink) /\ B \in Nat /\ B > 0 /\ (at = 0) = (i = 1)
    <3>1. InLog(i) /\ IsSeq(sink) /\ B \in Nat /\ B > 0
      BY <1>1, <1>4, BAssumption DEF Numbers
    <3>2. at \in Nat /\ at < placed[i].to /\ placed[i].to <= Len(sink) /\ placed[i].to \in Nat
          /\ (at = 0) = (i = 1)
      BY <3>1 DEF InLog
    <3>3. Len(sink) - at >= B /\ EndBlocks(sink, at) # {}
      BY <1>5
    <3>4. at \in 0..Len(sink)
      BY <3>2, <1>1
    <3> QED BY <3>1, <3>2, <3>3, <3>4
  <2>2. q \in Nat /\ at <= q /\ q <= Len(sink) /\ 1 \in 1..q - at
    BY <2>1, <1>1
  <2>3. first = SubSeq(sink, at + 1, q)
    OBVIOUS
  <2> HIDE DEF q, first
  <2>4. Slice(sink, at, q, first)
    BY <2>1, <2>2, <2>3, CutIsHeld
  <2>5. first[1] = sink[at + 1]
    BY <2>2, <2>4 DEF Slice
  <2>6. Holds(sink, at, cells) /\ OpensFirst(cells, i = 1)
    BY <1>4 DEF InLog
  <2>7. 1 \in 1..Len(cells)
    <3> DEFINE to == placed[i].to
    <3>1. at \in Nat /\ to \in Nat /\ at < to /\ Len(cells) = to - at /\ Len(cells) \in Nat
      BY <1>4 DEF InLog
    <3> HIDE DEF at, to, cells
    <3> QED BY <3>1
  <2>8. sink[at + 1] = cells[1]
    BY <2>6, <2>7 DEF Holds
  <2>9. OpensFirst(first, at = 0)
    <3> DEFINE zero == at = 0
    <3>1. zero = (i = 1)
      BY <2>1
    <3> HIDE DEF zero
    <3>2. OpensFirst(first, zero)
      BY <2>5, <2>6, <2>8, <3>1 DEF OpensFirst
    <3> QED BY <3>2 DEF zero
  <2> QED BY <2>1, <2>9 DEF Found, first
<1>8. ScansAs(sink, 0, list)
  BY <1>2, <1>3, <1>6, <1>7 DEF ScansAs
<1> QED BY <1>3, <1>8 DEF list

\* A committed header that opens and has one role opens with that of its place.
LEMMA OpensInItsRole ==
    ASSUME WInv, CellsWritten, NEW i \in 1..Len(placed),
           Committed(i)[1][1] = "open", OneRole(Committed(i))
    PROVE  OpensFirst(Committed(i), i = 1)
<1> DEFINE cells == Committed(i)
           signs == form.checksums
           primary == i = 1
           at == placed[i].from
<1>1. Typed /\ PlacedWhole /\ Numbers
  BY Basics DEF WInv
<1>2. InLog(i)
  BY <1>1, LogShape
<1>3. PICK header, spare :
          /\ IsHeader(header) /\ spare \in Nat /\ HasRole(header, i = 1)
          /\ cells = HduCells(header, signs, spare, i = 1)
  BY <1>2 DEF InLog, IsHdu
<1>4. (i = 1) = primary /\ primary \in BOOLEAN /\ signs \in BOOLEAN /\ at \in Nat
      /\ Holds(sink, at, cells) /\ Len(cells) \in Nat
  BY <1>1, <1>2 DEF InLog, Numbers
<1> HIDE DEF primary, at, cells, signs
<1>5. HasRole(header, primary) /\ cells = HduCells(header, signs, spare, primary)
  BY <1>3, <1>4
<1> DEFINE hc == HeaderCells(header, signs, spare, primary)
           signing == SigningOf(signs, UnitOf(KindOf(header, primary)))
           r == RenderRecords(header, signing)
<1>6. IsSigning(signing)
  BY <1>4, SigningOfIsSigning
<1>7. RecordsOf(header, signing, r)
  BY <1>3, RecordsShape
<1>8. Rendered(header, signing, spare, hc)
  <2> HIDE DEF signing
  <2>1. Rendered(header, signing, spare, RenderInto(header, signing, spare))
    BY <1>3, <1>6, RenderShape
  <2> QED BY <2>1 DEF HeaderCells, signing
<1>9. HduParts(header, signs, spare, primary)
  BY <1>3, <1>4, <1>5, HduShape
<1>10. \A j \in 1..Len(hc) : j <= Len(cells) /\ cells[j] = hc[j]
  <2> DEFINE unit == UnitOf(KindOf(header, primary))
  <2>1. Joins(hc, unit, cells) /\ Len(hc) \in Nat /\ Len(unit) \in Nat
    BY <1>5, <1>9 DEF HduParts
  <2> HIDE DEF hc, unit
  <2> QED BY <2>1 DEF Joins
<1>11. /\ Len(header) \in Nat /\ Len(r) \in Nat /\ Len(header) <= Len(r)
       /\ Len(hc) \in Nat /\ Len(r) <= Len(hc)
  <2> HIDE DEF hc, signing
  <2>1. Len(r) \in Nat /\ Len(hc) >= Len(r) + spare + 1 /\ IsSeq(hc)
    BY <1>8 DEF Rendered
  <2> HIDE DEF r
  <2>2. Len(hc) \in Nat
    BY <2>1, LenNat
  <2>3. Len(header) \in Nat /\ Len(header) <= Len(r)
    BY <1>3, <1>7 DEF RecordsOf, IsHeader
  <2> QED BY <1>3, <2>1, <2>2, <2>3
<1>12. ASSUME NEW j \in 1..Len(header), header[j][1] = "open"
       PROVE  j \in 1..Len(cells) /\ cells[j] = header[j]
  <2>1. r[j] = header[j]
    <3> HIDE DEF r
    <3> QED BY <1>7, <1>12 DEF RecordsOf
  <2>2. j \in 1..Len(r) /\ j \in 1..Len(hc)
    <3> HIDE DEF r, hc
    <3> QED BY <1>11
  <2>3. hc[j] = r[j]
    <3>1. ~(signing.final /\ j = Least(Tagged(r, "checksum")))
      <4>1. SUFFICES ASSUME signing.final, j = Least(Tagged(r, "checksum")) PROVE FALSE
        OBVIOUS
      <4>2. signing.signs
        BY <4>1, <1>6, <1>4, SigningOfIsSigning
      <4> HIDE DEF r, signing
      <4>3. r[j] = Placeholder
        BY <4>1, <4>2, <1>7 DEF RecordsOf
      <4> QED BY <4>3, <2>1, <1>12 DEF Placeholder
    <3> HIDE DEF hc, signing
    <3> QED BY <3>1, <2>2, <1>8 DEF Rendered, r
  <2> HIDE DEF hc, r
  <2> QED BY <2>1, <2>2, <2>3, <1>4, <1>10
<1> HIDE DEF hc, r, signing
<1>13. HasRole(cells, primary)
  <2>1. PICK j \in 1..Len(header) : header[j][1] = "open" /\ header[j][2].ext = ~primary
    BY <1>5 DEF HasRole, Roles, Tagged
  <2>2. j \in 1..Len(cells) /\ cells[j] = header[j]
    BY <2>1, <1>12
  <2>3. j \in Roles(cells, primary)
    BY <2>1, <2>2 DEF Roles, Tagged
  <2> QED BY <2>3 DEF HasRole
<1>14. 1 \in 1..Len(cells) /\ cells[1][1] = "open" /\ OneRole(cells)
  <2>1. Len(cells) > 0
    BY <1>2 DEF InLog, cells
  <2> QED BY <2>1, <1>4 DEF cells
<1>15. cells[1][2].ext \in BOOLEAN
  <2>1. at + 1 \in 1..Len(sink) /\ sink[at + 1] = cells[1]
    <3>1. Len(sink) \in Nat
      BY <1>1 DEF Numbers
    <3> QED BY <3>1, <1>4, <1>14 DEF Holds
  <2>2. cells[1][2] \in [ext : BOOLEAN, ascii : BOOLEAN, len : Nat]
    BY <2>1, <1>14 DEF CellsWritten, IsFile, IsCell
  <2> QED BY <2>2
<1>16. cells[1][2].ext = ~primary
  <2>1. SUFFICES ASSUME cells[1][2].ext # ~primary PROVE FALSE
    OBVIOUS
  <2>2. HasRole(cells, ~primary)
    <3>1. cells[1][2].ext = ~(~primary)
      BY <2>1, <1>15, <1>4
    <3>2. 1 \in Roles(cells, ~primary)
      BY <3>1, <1>14 DEF Roles, Tagged
    <3> QED BY <3>2 DEF HasRole
  <2> QED BY <2>2, <1>4, <1>13, <1>14 DEF OneRole
<1>17. OpensFirst(cells, primary)
  BY <1>14, <1>16 DEF OpensFirst
<1> QED BY <1>17, <1>4 DEF cells, primary

\* Wherever the program stops, a scan finds every HDU committed before it, for
\* every block size, raw header and bound.
THEOREM CommittedFound == Spec => []ScanFindsCommitted
<1>1. ASSUME WInv, CellsWritten PROVE ScanFindsCommitted
  <2>1. SUFFICES ASSUME \A i \in 1..Len(placed) :
                            Committed(i)[1][1] = "open" /\ OneRole(Committed(i))
                 PROVE  /\ Len(Scan(sink)) >= Len(placed)
                        /\ \A i \in 1..Len(placed) :
                              /\ Scan(sink)[i].offset = placed[i].from
                              /\ DataEnd(Scan(sink)[i]) = placed[i].to
    BY DEF ScanFindsCommitted
  <2>2. ScansAs(sink, 0, Scanned) /\ Len(Scanned) = Len(placed)
    BY <1>1, <2>1, OpensInItsRole, LogIsScanned
  <2>3. ScansTo(sink, 0, Scan(sink))
    BY <1>1, ScanShape DEF CellsWritten
  <2>4. /\ Len(Scan(sink)) >= Len(placed)
        /\ \A i \in 1..Len(placed) : Scan(sink)[i] = Scanned[i]
    BY <2>2, <2>3, ScanGoesOn
  <2>5. ASSUME NEW i \in 1..Len(placed)
        PROVE  Scanned[i].offset = placed[i].from /\ DataEnd(Scanned[i]) = placed[i].to
    <3>1. Scanned[i] = HduOf(Unit(sink, placed[i].from), placed[i].from)
      BY DEF Scanned
    <3> QED BY <3>1, <1>1, LogReads DEF WInv
  <2> QED BY <2>4, <2>5
<1>2. Init => CellsWritten
  BY InitIsFile
<1>3. WInv /\ CellsWritten /\ [Next]_vars => CellsWritten'
  BY NextIsFile
<1> QED BY <1>1, <1>2, <1>3, WInvHolds, PTL DEF Spec
================================================================================
