--------------------------- MODULE FitsEditorProofs ----------------------------
(***************************************************************************)
(* The theorems of FitsEditor, for every block size, file, header and      *)
(* bound: the list is what a scan finds, an edit in place changes the one  *)
(* header, the second file is a splice of the first, `append` continues a  *)
(* file that is whole, and the checksums stay valid.                       *)
(*                                                                         *)
(* They rest on EditorInv: the HDUs of the list are end to end in the      *)
(* file, the scan ends behind the last, and each header that is not torn   *)
(* reads as it is listed.  Part way through an edit, the file has the      *)
(* first cells of the new header and the edit has the others.  The sums    *)
(* rest on SumInv beside it: a header an edit writes has its sum before    *)
(* the list has the header, and so has each HDU a splice moves.            *)
(***************************************************************************)
EXTENDS FitsEditor, FitsFileProofs

(* HDUs in a list. *)

\* An HDU as the editor lists it: whole blocks of header, then data.
HduTyped(hdu) ==
    /\ hdu.offset \in Nat /\ hdu.blocks \in Nat /\ hdu.blocks > 0
    /\ hdu.blocks * B \in Nat /\ hdu.blocks * B > 0
    /\ hdu.data = hdu.offset + hdu.blocks * B /\ hdu.data \in Nat
    /\ hdu.kind.len \in Nat
    /\ DataEnd(hdu) \in Nat /\ DataEnd(hdu) >= hdu.data
    /\ IsSeq(hdu.header) /\ Len(hdu.header) > 0

\* HDUs end to end, each with its header in the file.
Chained(list, size) ==
    /\ IsSeq(list) /\ Len(list) \in Nat
    /\ \A i \in 1..Len(list) :
          /\ HduTyped(list[i])
          /\ list[i].offset = OffsetIn(list, 0, i)
          /\ list[i].data <= size

\* The header at the offset of an HDU reads as the HDU.
ReadsAs(f, hdu) ==
    /\ EndBlocks(f, hdu.offset) # {}
    /\ hdu = HduOf(Unit(f, hdu.offset), hdu.offset)
    /\ hdu.header[1] = f[hdu.offset + 1]

\* Where an HDU starts, has its data and ends.
Extent(hdu) ==
    /\ hdu.offset \in Nat /\ hdu.data \in Nat /\ DataEnd(hdu) \in Nat
    /\ hdu.offset < hdu.data /\ hdu.data <= DataEnd(hdu)

\* An HDU of the list takes at least its header.
LEMMA HduExtent ==
    ASSUME NEW hdu, HduTyped(hdu)
    PROVE  Extent(hdu)
<1> DEFINE k == hdu.blocks * B
           d == hdu.data
           o == hdu.offset
<1>1. o \in Nat /\ k \in Nat /\ k > 0 /\ d = o + k
      /\ DataEnd(hdu) \in Nat /\ DataEnd(hdu) >= d
  BY DEF HduTyped
<1> HIDE DEF k, d, o
<1>2. o \in Nat /\ d \in Nat /\ o < d
  BY <1>1
<1> QED BY <1>1, <1>2 DEF Extent, d, o

\* The blocks a number of cells takes.
LEMMA PaddedNat ==
    ASSUME NEW n \in Nat
    PROVE  PaddedLen(n) \in Nat /\ PaddedLen(n) >= n
<1>1. PaddedLen(n) = n + Padding(n) /\ Padding(n) \in 0..B - 1
  BY Grid
<1> HIDE DEF Padding, PaddedLen
<1>2. Padding(n) \in Nat
  BY <1>1, BAssumption
<1> QED BY <1>1, <1>2

\* An HDU lies behind all before it.
LEMMA Ordered ==
    ASSUME NEW list, NEW size, Chained(list, size),
           NEW i \in 1..Len(list), NEW j \in 1..Len(list), i < j
    PROVE  DataEnd(list[i]) <= list[j].offset
<1> DEFINE n == Len(list)
           fails == {k \in i + 1..n : ~(DataEnd(list[i]) <= list[k].offset)}
<1>1. n \in Nat /\ i \in Nat
  BY DEF Chained
<1>2. fails = {}
  <2>1. SUFFICES ASSUME fails # {} PROVE FALSE
    OBVIOUS
  <2> DEFINE m == Least(fails)
  <2>2. m \in fails /\ \A k \in fails : m <= k
    <3>1. fails \in SUBSET Nat
      BY <1>1
    <3> HIDE DEF fails
    <3> QED BY <3>1, <2>1, LeastOf
  <2> HIDE DEF m
  <2>3. m \in i + 1..n /\ m \in 1..n /\ m - 1 \in 1..n /\ m # 1
    BY <2>2, <1>1
  <2>4. list[m].offset = DataEnd(list[m - 1])
    BY <2>3 DEF Chained, OffsetIn
  <2>5. Extent(list[i]) /\ Extent(list[m - 1])
    BY <2>3, HduExtent DEF Chained
  <2>6. m - 1 # i
    <3>1. SUFFICES ASSUME m - 1 = i PROVE FALSE
      OBVIOUS
    <3>2. list[m].offset = DataEnd(list[i])
      BY <2>4, <3>1
    <3>3. DataEnd(list[i]) <= list[m].offset
      BY <3>2, <2>5 DEF Extent
    <3> QED BY <3>3, <2>2
  <2>7. m - 1 \in i + 1..n /\ m - 1 < m
    BY <2>3, <2>6, <1>1
  <2>8. m - 1 \notin fails
    BY <2>2, <2>3, <2>7, <1>1
  <2>9. DataEnd(list[i]) <= list[m - 1].offset
    BY <2>7, <2>8
  <2>10. DataEnd(list[i]) <= list[m].offset
    <3> DEFINE a == DataEnd(list[i])
               b == list[m - 1].offset
               c == list[m - 1].data
               d == DataEnd(list[m - 1])
    <3>1. a \in Nat /\ b \in Nat /\ c \in Nat /\ d \in Nat /\ b < c /\ c <= d /\ a <= b
          /\ list[m].offset = d
      BY <2>4, <2>5, <2>9 DEF Extent
    <3> HIDE DEF a, b, c, d
    <3>2. a <= list[m].offset
      BY <3>1
    <3> QED BY <3>2 DEF a
  <2> QED BY <2>2, <2>10
<1>3. j \in i + 1..n
  BY <1>1
<1>4. j \notin fails
  BY <1>2
<1> QED BY <1>3, <1>4

\* What a scan lists is end to end, and reads as it is listed.
LEMMA ScanIsChained ==
    ASSUME NEW f, IsFile(f)
    PROVE  /\ Chained(Scan(f), Len(f))
           /\ \A i \in 1..Len(Scan(f)) : ReadsAs(f, Scan(f)[i])
<1> DEFINE list == Scan(f)
<1>1. ScansTo(f, 0, list)
  BY ScanShape
<1> HIDE DEF list
<1>2. IsSeq(list) /\ Len(list) \in Nat /\ IsSeq(f) /\ Len(f) \in Nat /\ ScansAs(f, 0, list)
  BY <1>1, LenNat DEF ScansTo, ScansAs, IsFile
<1>3. ASSUME NEW i \in 1..Len(list)
      PROVE  /\ HduTyped(list[i]) /\ list[i].offset = OffsetIn(list, 0, i)
             /\ list[i].data <= Len(f) /\ ReadsAs(f, list[i])
  <2> DEFINE o == OffsetIn(list, 0, i)
             hdu == HduOf(Unit(f, o), o)
             k == Least(EndBlocks(f, o))
  <2>1. o \in 0..Len(f) /\ Found(f, o) /\ list[i] = hdu
    BY <1>2 DEF ScansAs
  <2>2. FoundHdu(f, o)
    BY <2>1, FoundShape
  <2>3. PaddedLen(hdu.kind.len) \in Nat /\ DataEnd(hdu) = hdu.data + PaddedLen(hdu.kind.len)
    <3>1. hdu.kind.len \in Nat
      BY <2>2 DEF FoundHdu
    <3> HIDE DEF hdu
    <3> QED BY <3>1, PaddedNat DEF DataEnd
  <2> HIDE DEF o
  <2>4. /\ k \in Nat /\ k > 0 /\ k * B \in Nat /\ k * B > 0 /\ o + k * B <= Len(f)
        /\ hdu.offset = o /\ hdu.data = o + k * B /\ hdu.blocks = k
        /\ IsSeq(hdu.header) /\ Len(hdu.header) > 0 /\ hdu.header[1] = f[o + 1]
        /\ hdu.kind.len \in Nat
        /\ DataEnd(hdu) \in Nat
    BY <2>2 DEF FoundHdu
  <2>5. EndBlocks(f, o) # {}
    BY <2>1 DEF Found
  <2> HIDE DEF k
  <2>6. ReadsAs(f, list[i])
    BY <2>1, <2>4, <2>5 DEF ReadsAs
  <2> HIDE DEF hdu
  <2>7. hdu.data \in Nat /\ DataEnd(hdu) >= hdu.data /\ hdu.data <= Len(f)
    <3> DEFINE m == k * B
    <3>1. m \in Nat /\ hdu.data = o + m /\ o + m <= Len(f) /\ o \in Nat
      BY <2>1, <2>4, <1>2
    <3> HIDE DEF m
    <3> QED BY <3>1, <2>3, <1>2
  <2>8. HduTyped(hdu)
    BY <2>1, <2>4, <2>7 DEF HduTyped
  <2> QED BY <2>1, <2>4, <2>6, <2>7, <2>8 DEF o
<1>4. Chained(list, Len(f))
  BY <1>2, <1>3 DEF Chained
<1> QED BY <1>3, <1>4 DEF list


--------------------------------------------------------------------------------
(* A header edited. *)

\* new is an old HDU with its header rendered again: the unit, with some spare
\* records, is of the same kind.
EditedAs(unit, new, old, spare) ==
    /\ IsFile(unit) /\ Len(unit) = new.blocks * B
    /\ \E e \in 1..Len(unit) : EndsUnit(unit, e)
    /\ HduTyped(new)
    /\ new = HduOf(unit, old.offset)
    /\ new.offset = old.offset /\ new.kind = old.kind
    /\ new.header[1] = unit[1]
    /\ Len(new.header) + spare + 1 <= new.blocks * B

\* The unit an edit renders reads as an HDU of the kind that was there.
LEMMA EditShape ==
    ASSUME NEW header, IsHeader(header), NEW signing, IsSigning(signing), NEW spare \in Nat,
           NEW old, HduTyped(old), HasRole(header, old.offset = 0),
           KindOf(header, old.offset = 0) = old.kind,
           NEW unit, unit = RenderInto(header, signing, spare)
    PROVE  EditedAs(unit, HduOf(unit, old.offset), old, spare)
<1> DEFINE o   == old.offset
           primary == o = 0
           new == HduOf(unit, o)
           h   == ParseHeader(unit)
           r   == RenderRecords(header, signing)
           e   == Len(r) + spare + 1
<1>1. /\ o \in Nat /\ old.kind.len \in Nat
  BY DEF HduTyped
<1>2. Rendered(header, signing, spare, unit)
  BY RenderShape
<1>3. /\ IsSeq(unit) /\ Len(r) \in Nat /\ Len(unit) = PaddedLen(e) /\ Len(unit) >= e
      /\ \A i \in 1..Len(r) : unit[i][1] = r[i][1]
      /\ \A i \in Len(r) + 1..Len(unit) : unit[i] = IF i = e THEN EndRecord ELSE Blank
  BY <1>2 DEF Rendered
<1>4. IsFile(unit)
  BY RenderIsFile
<1>5. ParsesTo(header, signing, spare, unit)
  <2>1. Len(unit) <= Len(unit)
    BY <1>3, LenNat
  <2> QED BY <2>1, <1>3, ParseOfRender
<1>6. RecordsOf(header, signing, r)
  BY RecordsShape
<1>7. /\ IsSeq(h) /\ Len(h) <= Len(r)
      /\ Tagged(h, "open") = Tagged(r, "open")
  BY <1>5 DEF ParsesTo
<1>8. KindOf(h, primary) = old.kind /\ HasRole(h, primary)
  <2>1. primary \in BOOLEAN
    OBVIOUS
  <2>2. /\ HasRole(h, primary) <=> HasRole(header, primary)
        /\ HasRole(header, primary) => KindOf(h, primary) = KindOf(header, primary)
    BY <2>1, <1>5 DEF ParsesTo
  <2> QED BY <2>2
<1>9. Len(h) > 0 /\ Len(h) \in Nat
  <2>1. Tagged(h, "open") # {}
    BY <1>8 DEF HasRole, Roles
  <2>2. Len(h) \in Nat
    BY <1>7, LenNat
  <2> QED BY <2>1, <2>2 DEF Tagged
<1>10. \A i \in 1..Len(r) : r[i][1] # "end"
  BY <1>6 DEF RecordsOf, IsHeader, Blank
<1> HIDE DEF r
<1>11. e \in 1..Len(unit) /\ unit[e] = EndRecord /\ e \in Nat
  BY <1>3, LenNat
<1>12. \A i \in 1..e - 1 : unit[i] # EndRecord
  <2>1. TAKE i \in 1..e - 1
  <2>2. i \in 1..Len(unit)
    BY <1>3, <1>11, LenNat
  <2>3. CASE i <= Len(r)
    <3>1. i \in 1..Len(r)
      BY <2>3, <2>2, <1>3
    <3>2. unit[i][1] # "end"
      BY <3>1, <1>3, <1>10
    <3> QED BY <3>2 DEF EndRecord
  <2>4. CASE i > Len(r)
    <3>1. i \in Len(r) + 1..Len(unit) /\ i # e
      BY <2>4, <2>2, <1>3, <1>11
    <3> QED BY <3>1, <1>3 DEF EndRecord, Blank
  <2> QED BY <2>3, <2>4, <2>2, <1>3
<1>13. EndsUnit(unit, e)
  BY <1>3, <1>11, <1>12 DEF EndsUnit
<1>14. ParsesFirst(unit, h)
  BY <1>3, <1>11, HeaderOfUnit
<1> DEFINE k == PaddedLen(e) \div B
<1>15. k \in Nat /\ Len(unit) = k * B /\ k * B \in Nat /\ k * B > 0
  <2>1. k \in Nat /\ PaddedLen(e) = k * B
    BY <1>11, Grid
  <2>2. Len(unit) \in Nat /\ Len(unit) > 0
    BY <1>3, <1>11, LenNat
  <2> QED BY <2>1, <2>2, <1>3
<1>16. Len(unit) \div B = k
  BY <1>3
<1> HIDE DEF k, h, e
<1>17. k > 0
  BY <1>15, BAssumption
<1>18. /\ new.offset = o /\ new.header = h /\ new.kind = old.kind
       /\ new.blocks = k /\ new.data = o + k * B
  BY <1>8, <1>15, <1>16 DEF HduOf, h
<1> HIDE DEF new
<1>19. new.data \in Nat /\ PaddedLen(new.kind.len) \in Nat
  <2>1. new.data \in Nat
    <3> HIDE DEF o
    <3> QED BY <1>1, <1>15, <1>18
  <2>2. new.kind.len \in Nat
    BY <1>1, <1>18
  <2> QED BY <2>1, <2>2, PaddedNat
<1>20. DataEnd(new) \in Nat /\ DataEnd(new) >= new.data
  BY <1>19 DEF DataEnd
<1>21. HduTyped(new)
  BY <1>1, <1>7, <1>9, <1>15, <1>17, <1>18, <1>19, <1>20 DEF HduTyped
<1>22. new.header[1] = unit[1]
  BY <1>9, <1>14, <1>18 DEF ParsesFirst
<1>23. Len(new.header) + spare + 1 <= new.blocks * B
  BY <1>3, <1>7, <1>9, <1>15, <1>18 DEF e
<1>24. EditedAs(unit, new, old, spare)
  BY <1>4, <1>11, <1>13, <1>15, <1>18, <1>21, <1>22, <1>23 DEF EditedAs, new
<1> QED BY <1>24 DEF new

\* What an edit signs with.
LEMMA EditSigningIs ==
    ASSUME NEW index, NEW header
    PROVE  IsSigning(EditSigning(index, header))
BY DEF EditSigning, IsSigning, Unsigned, WithDataSum

\* An edit in place takes the blocks the header had.
LEMMA FitShape ==
    ASSUME NEW index, NEW header, IsHeader(header), HduTyped(hdus[index]),
           HasRole(header, hdus[index].offset = 0),
           KindOf(header, hdus[index].offset = 0) = hdus[index].kind,
           Fits(index, header)
    PROVE  LET unit == FitRender(index, header)
               new  == HduOf(unit, hdus[index].offset)
           IN  /\ EditedAs(unit, new, hdus[index], 0) /\ new.blocks = hdus[index].blocks
               /\ \E n \in Nat : unit = RenderInto(header, EditSigning(index, header), n)
<1> DEFINE old == hdus[index]
           signing == EditSigning(index, header)
           r == RenderRecords(header, signing)
           m == old.blocks * B
           spare == m - Len(r) - 1
           unit == FitRender(index, header)
           new == HduOf(unit, old.offset)
           need == PaddedLen(Len(r) + 1)
<1>1. IsSigning(signing)
  BY EditSigningIs
<1>2. RecordsOf(header, signing, r)
  BY RecordsShape
<1>3. Len(r) \in Nat
  BY <1>2, HeaderIsSeq DEF RecordsOf
<1>4. need \div B <= old.blocks
  BY DEF Fits, NeededBlocks
<1>5. unit = RenderInto(header, signing, spare)
  BY DEF FitRender, RenderBlocks
<1>6. old.blocks \in Nat /\ m \in Nat /\ old.blocks > 0
  BY DEF HduTyped
<1>7. Rendered(header, signing, spare, unit) \/ spare \notin Nat
  BY <1>1, <1>5, RenderShape
<1> HIDE DEF signing, unit, r
<1>8. need >= Len(r) + 1 /\ need \in Nat
  BY <1>3, PaddedNat
<1>9. need <= m
  <2> DEFINE q == need \div B
  <2>1. q \in Nat /\ need = q * B
    <3>1. Len(r) + 1 \in Nat
      BY <1>3
    <3> QED BY <3>1, Grid
  <2> HIDE DEF q, need
  <2>2. q <= old.blocks
    BY <1>4 DEF q
  <2> HIDE DEF old
  <2>3. q * B <= old.blocks * B
    BY <2>1, <2>2, <1>6, BAssumption
  <2> QED BY <2>1, <2>3
<1> HIDE DEF need
<1>10. spare \in Nat /\ Len(r) + spare + 1 = m
  <2> HIDE DEF m
  <2> QED BY <1>3, <1>6, <1>8, <1>9
<1>11. EditedAs(unit, new, old, spare)
  BY <1>1, <1>5, <1>10, EditShape
<1>12. Len(unit) = m
  <2>1. Len(unit) = PaddedLen(m)
    BY <1>7, <1>10 DEF Rendered, r
  <2>2. PaddedLen(m) = old.blocks * B
    <3> HIDE DEF old
    <3>1. m <= old.blocks * B /\ old.blocks * B < m + B
      BY <1>6, BAssumption
    <3> QED BY <3>1, <1>6, GridUnique
  <2> QED BY <2>1, <2>2
<1>13. new.blocks = old.blocks
  <2>1. Len(unit) = new.blocks * B /\ new.blocks \in Nat
    BY <1>11 DEF EditedAs, HduTyped
  <2> DEFINE x == new.blocks
             y == old.blocks
  <2>2. x * B = y * B /\ x \in Nat /\ y \in Nat
    BY <2>1, <1>6, <1>12
  <2> HIDE DEF x, y
  <2>3. x = y
    <3>1. ASSUME x < y PROVE FALSE
      <4>1. (x + 1) * B <= y * B /\ (x + 1) * B = x * B + B /\ x * B \in Nat
        BY <3>1, <2>2, BAssumption
      <4> QED BY <4>1, <2>2, BAssumption
    <3>2. ASSUME y < x PROVE FALSE
      <4>1. (y + 1) * B <= x * B /\ (y + 1) * B = y * B + B /\ y * B \in Nat
        BY <3>2, <2>2, BAssumption
      <4> QED BY <4>1, <2>2, BAssumption
    <3> QED BY <3>1, <3>2, <2>2
  <2> QED BY <2>3 DEF x, y
<1>14. EditedAs(unit, new, old, 0)
  <2>1. Len(new.header) + 0 + 1 <= new.blocks * B
    <3>1. Len(new.header) + spare + 1 <= new.blocks * B
      BY <1>11 DEF EditedAs
    <3>2. Len(new.header) \in Nat /\ new.blocks * B \in Nat
      BY <1>11, LenNat DEF EditedAs, HduTyped
    <3> HIDE DEF new, spare
    <3> QED BY <3>1, <3>2, <1>10
  <2> QED BY <2>1, <1>11 DEF EditedAs
<1>15. \E n \in Nat : unit = RenderInto(header, signing, n)
  BY <1>5, <1>10
<1> QED BY <1>13, <1>14, <1>15 DEF unit, signing

\* The first HDU, and no other, is the primary.
LEMMA PrimaryIsFirst ==
    ASSUME NEW list, NEW size, Chained(list, size), NEW i \in 1..Len(list)
    PROVE  (list[i].offset = 0) = (i = 1)
<1>1. Len(list) \in Nat /\ list[i].offset = OffsetIn(list, 0, i)
  BY DEF Chained
<1>2. CASE i = 1
  BY <1>1, <1>2 DEF OffsetIn
<1>3. CASE i # 1
  <2>1. i - 1 \in 1..Len(list)
    BY <1>1, <1>3
  <2>2. Extent(list[i - 1])
    BY <2>1, HduExtent DEF Chained
  <2>3. list[i].offset = DataEnd(list[i - 1])
    BY <1>1, <1>3 DEF OffsetIn
  <2>4. DataEnd(list[i - 1]) > 0
    <3> DEFINE a == list[i - 1].offset
               b == list[i - 1].data
               c == DataEnd(list[i - 1])
    <3>1. a \in Nat /\ b \in Nat /\ c \in Nat /\ a < b /\ b <= c
      BY <2>2 DEF Extent
    <3> HIDE DEF a, b, c
    <3>2. c > 0
      BY <3>1
    <3> QED BY <3>2 DEF c
  <2> QED BY <1>3, <2>3, <2>4
<1> QED BY <1>2, <1>3

\* A header that a change of the file leaves alone reads as before.
LEMMA ReadsKept ==
    ASSUME NEW f, IsSeq(f), NEW w, IsSeq(w), Len(w) = Len(f), NEW hdu, HduTyped(hdu),
           hdu.data <= Len(f), ReadsAs(f, hdu),
           \A i \in hdu.offset + 1..hdu.data : w[i] = f[i]
    PROVE  ReadsAs(w, hdu)
<1> DEFINE o    == hdu.offset
           unit == Unit(f, o)
           m    == Len(unit)
<1>1. Extent(hdu) /\ Len(f) \in Nat
  BY HduExtent, LenNat
<1>2. o \in 0..Len(f) /\ o \in Nat /\ o + 1 \in o + 1..hdu.data
  <2> DEFINE d == hdu.data
  <2>1. o \in Nat /\ d \in Nat /\ o < d /\ d <= Len(f)
    BY <1>1 DEF Extent
  <2> HIDE DEF o, d
  <2>2. o \in 0..Len(f) /\ o + 1 \in o + 1..d
    BY <2>1, <1>1
  <2> QED BY <2>1, <2>2 DEF d
<1>3. EndBlocks(f, o) # {} /\ hdu = HduOf(unit, o) /\ hdu.header[1] = f[o + 1]
  BY DEF ReadsAs
<1>4. UnitAt(f, o)
  BY <1>2, <1>3, UnitOfEnd
<1>5. hdu.data = o + m
  BY <1>3 DEF HduOf
<1>6. /\ IsSeq(unit) /\ o + m <= Len(f) /\ \A i \in 1..m : unit[i] = f[o + i]
      /\ \E e \in 1..m : EndsUnit(unit, e)
  BY <1>4 DEF UnitAt
<1> HIDE DEF o, unit
<1>7. m \in Nat
  BY <1>6, LenNat
<1>8. \A i \in 1..m : o + i \in o + 1..hdu.data
  <2> HIDE DEF m
  <2> QED BY <1>2, <1>5, <1>7
<1>9. Holds(w, o, unit)
  BY <1>6, <1>8 DEF Holds, o
<1>10. PICK e \in 1..m : EndsUnit(unit, e)
  BY <1>6
<1>11. EndBlocks(w, o) # {} /\ Unit(w, o) = unit
  BY <1>2, <1>6, <1>9, <1>10, UnitOfHeld DEF EndsUnit
<1>12. w[o + 1] = f[o + 1]
  BY <1>2 DEF o
<1> QED BY <1>3, <1>11, <1>12 DEF ReadsAs, o

\* Where no cell from an offset on changes, the scan finds what it found.
LEMMA FoundKept ==
    ASSUME NEW f, IsSeq(f), NEW w, IsSeq(w), Len(w) = Len(f), NEW at \in 0..Len(f),
           \A i \in at + 1..Len(f) : w[i] = f[i]
    PROVE  Found(w, at) = Found(f, at)
<1> DEFINE n == (Len(f) - at) \div B
<1>1. /\ B \in Nat /\ B > 0 /\ Len(f) \in Nat /\ at \in Nat /\ Len(f) - at \in Nat
      /\ at <= Len(f)
  <2>1. Len(f) \in Nat
    BY LenNat
  <2> QED BY <2>1, BAssumption
<1>2. n \in Nat
  BY <1>1, Division
<1>3. ASSUME NEW k \in 1..n, NEW i \in 1..B
      PROVE  w[at + (k - 1) * B + i] = f[at + (k - 1) * B + i]
  <2>1. k \in Nat /\ k <= (Len(f) - at) \div B
    BY <1>2
  <2>2. k * B <= Len(f) - at
    BY <2>1, <1>1, BlocksFit
  <2>3. k * B = (k - 1) * B + B /\ (k - 1) * B \in Nat
    BY <2>1, <1>1
  <2> DEFINE p == (k - 1) * B
             j == at + p + i
  <2>4. p \in Nat /\ p + B <= Len(f) - at
    BY <2>2, <2>3
  <2> HIDE DEF p
  <2>5. j \in at + 1..Len(f)
    BY <2>4, <1>1
  <2> QED BY <2>5 DEF p
<1>4. EndBlocks(w, at) = EndBlocks(f, at)
  BY <1>3 DEF EndBlocks
<1>5. ASSUME Len(f) - at >= B PROVE SubSeq(w, at + 1, at + B) = SubSeq(f, at + 1, at + B)
  <2> DEFINE q == at + B
  <2>1. q \in Nat /\ at <= q /\ q <= Len(f) /\ \A i \in at + 1..q : i \in at + 1..Len(f)
    BY <1>1, <1>5
  <2> HIDE DEF q
  <2>2. SubSeq(w, at + 1, q) = SubSeq(f, at + 1, q)
    BY <2>1, <1>1, SameCut
  <2> QED BY <2>2 DEF q
<1> QED BY <1>4, <1>5 DEF Found

\* A header unit that is all in the file reads as the HDU it was rendered for.
LEMMA EditReads ==
    ASSUME NEW f, IsSeq(f), NEW unit, NEW new, NEW old, NEW spare, EditedAs(unit, new, old, spare),
           new.data <= Len(f), \A i \in 1..Len(unit) : f[old.offset + i] = unit[i]
    PROVE  ReadsAs(f, new)
<1> DEFINE o == new.offset
           m == Len(unit)
<1>1. /\ IsSeq(unit) /\ HduTyped(new) /\ o = old.offset /\ new = HduOf(unit, o)
      /\ new.header[1] = unit[1]
  BY DEF EditedAs, IsFile
<1>2. PICK e \in 1..m : EndsUnit(unit, e)
  BY DEF EditedAs
<1>3. o \in Nat /\ m \in Nat /\ new.data = o + m /\ 1 \in 1..m
  <2>1. m \in Nat
    BY <1>1, LenNat
  <2>2. o \in Nat
    BY <1>1 DEF HduTyped
  <2>3. new.data = o + m
    BY <1>1 DEF HduOf
  <2> QED BY <2>1, <2>2, <2>3, <1>2
<1>4. Holds(f, o, unit)
  BY <1>1, <1>3 DEF Holds
<1>5. EndBlocks(f, o) # {} /\ Unit(f, o) = unit
  BY <1>1, <1>2, <1>3, <1>4, UnitOfHeld DEF EndsUnit
<1>6. f[o + 1] = unit[1]
  BY <1>1, <1>3
<1> QED BY <1>1, <1>5, <1>6 DEF ReadsAs


--------------------------------------------------------------------------------
(* Cuts of a file. *)

\* Joins may be made in either order.
EitherOrder(s, t, u) == (s \o t) \o u = s \o (t \o u)

\* It does not matter in which order three sequences are joined.
LEMMA ConcatAssoc ==
    ASSUME NEW s, IsSeq(s), NEW t, IsSeq(t), NEW u, IsSeq(u)
    PROVE  EitherOrder(s, t, u)
<1> DEFINE st == s \o t
           tu == t \o u
           x  == st \o u
           y  == s \o tu
<1>1. Len(s) \in Nat /\ Len(t) \in Nat /\ Len(u) \in Nat
  BY LenNat
<1>2. Joins(s, t, st) /\ Joins(t, u, tu)
  BY ConcatIsSeq
<1> HIDE DEF st, tu
<1>3. Joins(st, u, x) /\ Joins(s, tu, y)
  <2>1. IsSeq(st) /\ IsSeq(tu)
    BY <1>2 DEF Joins
  <2> QED BY <2>1, ConcatIsSeq
<1> HIDE DEF x, y
<1>4. /\ Len(st) = Len(s) + Len(t) /\ Len(tu) = Len(t) + Len(u)
      /\ Len(x) = Len(s) + Len(t) + Len(u) /\ Len(y) = Len(x)
      /\ IsSeq(x) /\ IsSeq(y)
  BY <1>1, <1>2, <1>3 DEF Joins
<1>5. ASSUME NEW i \in 1..Len(x) PROVE x[i] = y[i]
  <2>1. CASE i <= Len(s)
    <3>1. i \in 1..Len(s) /\ i \in 1..Len(st)
      BY <2>1, <1>1, <1>4
    <3> QED BY <3>1, <1>2, <1>3 DEF Joins
  <2>2. CASE i > Len(s) /\ i <= Len(s) + Len(t)
    <3> DEFINE j == i - Len(s)
    <3>1. j \in 1..Len(t) /\ j \in 1..Len(tu) /\ i \in 1..Len(st) /\ i = Len(s) + j
      BY <2>2, <1>1, <1>4
    <3> HIDE DEF j
    <3>2. x[i] = st[i] /\ st[Len(s) + j] = t[j]
      BY <3>1, <1>2, <1>3 DEF Joins
    <3>3. y[Len(s) + j] = tu[j] /\ tu[j] = t[j]
      BY <3>1, <1>2, <1>3 DEF Joins
    <3> QED BY <3>1, <3>2, <3>3
  <2>3. CASE i > Len(s) + Len(t)
    <3> DEFINE j == i - Len(s) - Len(t)
               k == Len(t) + j
    <3>1. j \in 1..Len(u) /\ k \in 1..Len(tu) /\ i = Len(st) + j /\ i = Len(s) + k
      BY <2>3, <1>1, <1>4
    <3> HIDE DEF j
    <3>2. x[Len(st) + j] = u[j] /\ tu[k] = u[j]
      BY <3>1, <1>2, <1>3 DEF Joins
    <3> HIDE DEF k
    <3>3. y[Len(s) + k] = tu[k]
      BY <3>1, <1>3 DEF Joins
    <3> QED BY <3>1, <3>2, <3>3
  <2> QED BY <2>1, <2>2, <2>3, <1>1
<1>6. x = y
  BY <1>4, <1>5, SeqsEqual
<1> QED BY <1>6 DEF x, y, st, tu, EitherOrder

\* The cells of a file between two positions.
Cut(f, m, n) == SubSeq(f, m + 1, n)

\* What a cut holds.
LEMMA CutSlices ==
    ASSUME NEW f, IsSeq(f), NEW a \in Nat, NEW b \in Nat, a <= b, b <= Len(f)
    PROVE  Slice(f, a, b, Cut(f, a, b))
BY CutIsHeld DEF Cut

\* Two cuts that meet join to one.
Meet(f, a, b, c) == Cut(f, a, b) \o Cut(f, b, c) = Cut(f, a, c)

\* Two cuts that meet join to one.
LEMMA CutJoin ==
    ASSUME NEW f, IsSeq(f), NEW a \in Nat, NEW b \in Nat, NEW c \in Nat,
           a <= b, b <= c, c <= Len(f)
    PROVE  Meet(f, a, b, c)
<1> DEFINE s == Cut(f, a, b)
           t == Cut(f, b, c)
           u == Cut(f, a, c)
           x == s \o t
<1>1. Len(f) \in Nat
  BY LenNat
<1>2. Slice(f, a, b, s)
  <2>1. b <= Len(f)
    BY <1>1
  <2> QED BY <2>1, CutSlices
<1>3. Slice(f, b, c, t)
  BY CutSlices
<1>4. Slice(f, a, c, u)
  <2>1. a <= c
    BY <1>1
  <2> QED BY <2>1, CutSlices
<1> HIDE DEF s, t, u
<1>5. Joins(s, t, x)
  BY <1>2, <1>3, ConcatIsSeq DEF Slice
<1> HIDE DEF x
<1>6. /\ Len(s) = b - a /\ Len(t) = c - b /\ Len(u) = c - a /\ Len(x) = c - a
      /\ IsSeq(x) /\ IsSeq(u)
  BY <1>2, <1>3, <1>4, <1>5 DEF Slice, Joins
<1>7. ASSUME NEW i \in 1..Len(x) PROVE x[i] = u[i]
  <2>1. i \in 1..c - a /\ u[i] = f[a + i]
    BY <1>4, <1>6 DEF Slice
  <2>2. CASE i <= b - a
    <3>1. i \in 1..b - a
      BY <2>1, <2>2
    <3>2. x[i] = s[i] /\ s[i] = f[a + i]
      BY <3>1, <1>2, <1>5, <1>6 DEF Slice, Joins
    <3> QED BY <3>2, <2>1
  <2>3. CASE i > b - a
    <3> DEFINE j == i - (b - a)
    <3>1. j \in 1..c - b /\ i = Len(s) + j /\ a + i = b + j
      BY <2>1, <2>3, <1>6
    <3> HIDE DEF j
    <3>2. x[Len(s) + j] = t[j] /\ t[j] = f[b + j]
      BY <3>1, <1>3, <1>5, <1>6 DEF Slice, Joins
    <3> QED BY <3>1, <3>2, <2>1
  <2> QED BY <2>1, <2>2, <2>3
<1>8. x = u
  BY <1>6, <1>7, SeqsEqual
<1> QED BY <1>8 DEF x, s, t, u, Meet

\* A cut is a sequence.
LEMMA CutIsSeq ==
    ASSUME NEW f, IsSeq(f), NEW a \in Nat, NEW b \in Nat, a <= b, b <= Len(f)
    PROVE  IsSeq(Cut(f, a, b)) /\ Len(Cut(f, a, b)) = b - a
<1>1. Slice(f, a, b, Cut(f, a, b))
  BY CutSlices
<1> QED BY <1>1 DEF Slice

\* A cut of nothing.
LEMMA CutOfNone ==
    ASSUME NEW f, IsSeq(f), NEW a \in Nat, a <= Len(f)
    PROVE  Cut(f, a, a) = <<>>
<1>1. IsSeq(Cut(f, a, a)) /\ Len(Cut(f, a, a)) = a - a
  BY CutIsSeq
<1> HIDE DEF Cut
<1>2. Len(Cut(f, a, a)) = 0
  BY <1>1
<1> QED BY <1>1, <1>2, EmptyIsSeq, SeqsEqual


--------------------------------------------------------------------------------
(* The second file. *)

\* What the copy of the HDUs from one on is, when f has the copies from later ones.
CopyBody(f, target, unit, i) ==
    IF i <= Len(hdus) THEN Copied(i, target, unit) \o f[i + 1]
    ELSE SubSeq(file, DataEnd(hdus[Len(hdus)]) + 1, Len(file))

CopyFrom(target, unit) ==
    CHOOSE f : f = [i \in 1..Len(hdus) + 1 |-> CopyBody(f, target, unit, i)]

\* `replace_header_into` copies from the first HDU on.
LEMMA CopyIsFrom ==
    ASSUME NEW target, NEW unit
    PROVE  CopyAll(target, unit) = CopyFrom(target, unit)[1]
BY DEF CopyAll, CopyFrom, CopyBody

\* Where an HDU starts, and the bytes after the last.
StartOf(i) == IF i <= Len(hdus) THEN hdus[i].offset ELSE DataEnd(hdus[Len(hdus)])

\* The file from an HDU on, with the unit for the header of the target.
Spliced(target, unit, i) ==
    IF i <= target
    THEN (Cut(file, StartOf(i), hdus[target].offset) \o unit)
         \o Cut(file, hdus[target].data, Len(file))
    ELSE Cut(file, StartOf(i), Len(file))

\* What `replace_header_into` copies.
CopyReady(target, unit) ==
    /\ IsSeq(file) /\ IsSeq(unit)
    /\ Chained(hdus, Len(file))
    /\ target \in 1..Len(hdus)
    /\ DataEnd(hdus[Len(hdus)]) <= Len(file)

\* An HDU between those before and after it.
Stretch(i) ==
    /\ StartOf(i) = hdus[i].offset /\ StartOf(i + 1) = DataEnd(hdus[i])
    /\ hdus[i].offset \in Nat /\ hdus[i].data \in Nat /\ DataEnd(hdus[i]) \in Nat
    /\ hdus[i].offset <= hdus[i].data /\ hdus[i].data <= DataEnd(hdus[i])
    /\ DataEnd(hdus[i]) <= Len(file)

\* Each HDU the copy takes is all in the file, and the next starts where it ends.
LEMMA Stretches ==
    ASSUME NEW target, NEW unit, CopyReady(target, unit), NEW i \in 1..Len(hdus)
    PROVE  Stretch(i)
<1> DEFINE n == Len(hdus)
           a == hdus[i].offset
           b == hdus[i].data
           c == DataEnd(hdus[i])
<1>1. n \in Nat /\ Len(file) \in Nat /\ n > 0
  BY LenNat DEF CopyReady, Chained
<1>2. Extent(hdus[i])
  BY HduExtent DEF CopyReady, Chained
<1>3. a \in Nat /\ b \in Nat /\ c \in Nat /\ a < b /\ b <= c
  BY <1>2 DEF Extent
<1>4. StartOf(i) = a
  BY <1>1 DEF StartOf
<1>5. StartOf(i + 1) = c /\ c <= Len(file)
  <2>1. CASE i = n
    BY <2>1, <1>1 DEF StartOf, CopyReady
  <2>2. CASE i # n
    <3>1. i + 1 \in 1..n /\ (i + 1) - 1 = i /\ i + 1 # 1
      BY <2>2, <1>1
    <3>2. hdus[i + 1].offset = c
      <4>1. hdus[i + 1].offset = OffsetIn(hdus, 0, i + 1)
        BY <3>1 DEF CopyReady, Chained
      <4> QED BY <4>1, <3>1 DEF OffsetIn
    <3>3. StartOf(i + 1) = hdus[i + 1].offset
      BY <3>1, <1>1 DEF StartOf
    <3>4. Extent(hdus[i + 1]) /\ hdus[i + 1].data <= Len(file)
      BY <3>1, HduExtent DEF CopyReady, Chained
    <3> DEFINE x == hdus[i + 1].offset
               y == hdus[i + 1].data
    <3>5. x \in Nat /\ y \in Nat /\ x < y /\ y <= Len(file)
      BY <3>4 DEF Extent
    <3> HIDE DEF x, y
    <3>6. x <= Len(file)
      BY <3>5, <1>1
    <3> QED BY <3>2, <3>3, <3>6 DEF x
  <2> QED BY <2>1, <2>2
<1>6. a <= b
  <2> HIDE DEF a, b
  <2> QED BY <1>3
<1> QED BY <1>3, <1>4, <1>5, <1>6 DEF Stretch

\* Two cuts that meet and what follows them.
ThenRest(f, u, rest, a, c, s) ==
    Cut(f, a, c) \o ((Cut(f, c, s) \o u) \o rest) = (Cut(f, a, s) \o u) \o rest

\* Two cuts that meet, with the unit and the rest of the file behind them.
LEMMA CutsThenRest ==
    ASSUME NEW f, IsSeq(f), NEW u, IsSeq(u), NEW rest, IsSeq(rest),
           NEW a \in Nat, NEW c \in Nat, NEW s \in Nat, a <= c, c <= s, s <= Len(f)
    PROVE  ThenRest(f, u, rest, a, c, s)
<1> DEFINE cell == Cut(f, a, c)
           head == Cut(f, c, s)
           both == Cut(f, a, s)
<1>1. Len(f) \in Nat
  BY LenNat
<1>2. c <= Len(f)
  BY <1>1
<1>3. IsSeq(cell) /\ IsSeq(head)
  BY <1>2, CutIsSeq
<1>4. Meet(f, a, c, s)
  BY CutJoin
<1>5. cell \o head = both
  BY <1>4 DEF Meet
<1> HIDE DEF cell, head, both
<1>6. IsSeq(head \o u)
  BY <1>3, ConcatIsSeq DEF Joins
<1>7. EitherOrder(cell, head \o u, rest)
  BY <1>3, <1>6, ConcatAssoc
<1>8. EitherOrder(cell, head, u)
  BY <1>3, ConcatAssoc
<1>9. cell \o ((head \o u) \o rest) = (both \o u) \o rest
  BY <1>5, <1>7, <1>8 DEF EitherOrder
<1> QED BY <1>9 DEF cell, head, both, ThenRest

\* Where one HDU, the target and the file lie.
Places(a, b, c, s, e, z) ==
    /\ a \in Nat /\ b \in Nat /\ c \in Nat /\ s \in Nat /\ e \in Nat /\ z \in Nat
    /\ a <= b /\ b <= c /\ c <= z /\ a <= c /\ b <= z /\ s <= e /\ e <= z /\ s <= z

\* A copied header and its data are a cut, and so are they with the file behind them.
LEMMA JoinAfter ==
    ASSUME NEW f, IsSeq(f), NEW u, IsSeq(u), NEW a, NEW b, NEW c, NEW s, NEW e,
           Places(a, b, c, s, e, Len(f))
    PROVE  Cut(f, a, b) \o Cut(f, b, c) = Cut(f, a, c)
           /\ Cut(f, a, c) \o Cut(f, c, Len(f)) = Cut(f, a, Len(f))
<1> DEFINE z == Len(f)
<1>1. /\ a \in Nat /\ b \in Nat /\ c \in Nat /\ z \in Nat
      /\ a <= b /\ b <= c /\ c <= z /\ a <= c /\ z <= z
  BY DEF Places
<1>2. Meet(f, a, b, c)
  BY <1>1, CutJoin
<1>3. Meet(f, a, c, z)
  BY <1>1, CutJoin
<1> QED BY <1>2, <1>3 DEF Meet

\* The new unit, the data behind it and the rest of the file.
ThenFile(f, u, b, c, s) ==
    (u \o Cut(f, b, c)) \o Cut(f, c, Len(f)) = (Cut(f, s, s) \o u) \o Cut(f, b, Len(f))

\* The new unit, with the data and the file behind them.
LEMMA UnitAfter ==
    ASSUME NEW f, IsSeq(f), NEW u, IsSeq(u), NEW b, NEW c, NEW s,
           Places(s, b, c, s, b, Len(f))
    PROVE  ThenFile(f, u, b, c, s)
<1> DEFINE x == Cut(f, b, c)
           y == Cut(f, c, Len(f))
           xy == Cut(f, b, Len(f))
           z == Len(f)
<1>1. /\ b \in Nat /\ c \in Nat /\ z \in Nat /\ s \in Nat
      /\ b <= c /\ c <= z /\ z <= z /\ s <= z
  BY DEF Places
<1>2. IsSeq(x) /\ IsSeq(y)
  BY <1>1, CutIsSeq
<1>3. x \o y = xy
  <2>1. Meet(f, b, c, z)
    BY <1>1, CutJoin
  <2> QED BY <2>1 DEF Meet
<1>4. Cut(f, s, s) = <<>>
  BY <1>1, CutOfNone
<1> HIDE DEF x, y, xy
<1>5. EitherOrder(u, x, y)
  BY <1>2, ConcatAssoc
<1>6. <<>> \o u = u
  BY ConcatEmpty
<1>7. (u \o x) \o y = u \o xy
  BY <1>5, <1>3 DEF EitherOrder
<1> QED BY <1>4, <1>6, <1>7 DEF x, y, xy, ThenFile

\* A copied HDU with the copies of those behind it.
LEMMA CopyStep ==
    ASSUME NEW target, NEW unit, CopyReady(target, unit), NEW i \in 1..Len(hdus)
    PROVE  Copied(i, target, unit) \o Spliced(target, unit, i + 1) = Spliced(target, unit, i)
<1> DEFINE a == hdus[i].offset
           b == hdus[i].data
           c == DataEnd(hdus[i])
           s == hdus[target].offset
           e == hdus[target].data
           z == Len(file)
           cell == Copied(i, target, unit)
           here == Spliced(target, unit, i)
           next == Spliced(target, unit, i + 1)
<1>1. /\ IsSeq(file) /\ IsSeq(unit) /\ z \in Nat
      /\ target \in 1..Len(hdus) /\ Len(hdus) \in Nat /\ target \in Nat /\ i \in Nat
  BY LenNat DEF CopyReady, Chained
<1>2. Stretch(i) /\ Stretch(target)
  BY <1>1, Stretches
<1>3. StartOf(i) = a /\ StartOf(i + 1) = c
  BY <1>2 DEF Stretch
<1>4. Places(a, b, c, s, e, z)
  <2> DEFINE x == DataEnd(hdus[target])
  <2>1. /\ a \in Nat /\ b \in Nat /\ c \in Nat /\ a <= b /\ b <= c /\ c <= z
        /\ s \in Nat /\ e \in Nat /\ x \in Nat /\ s <= e /\ e <= x /\ x <= z
    BY <1>2 DEF Stretch
  <2>2. z \in Nat
    BY <1>1
  <2> HIDE DEF a, b, c, s, e, x, z
  <2> QED BY <2>1, <2>2 DEF Places
<1>5. cell = (IF i = target THEN unit ELSE Cut(file, a, b)) \o Cut(file, b, c)
  BY DEF Copied, HeaderUnit, DataUnit, Cut
<1>6. here = IF i <= target THEN (Cut(file, a, s) \o unit) \o Cut(file, e, z)
             ELSE Cut(file, a, z)
  BY <1>3 DEF Spliced
<1>7. next = IF i + 1 <= target THEN (Cut(file, c, s) \o unit) \o Cut(file, e, z)
             ELSE Cut(file, c, z)
  BY <1>3 DEF Spliced
<1>8. i < target => c <= s
  BY <1>1, Ordered DEF CopyReady
<1>9. i = target => a = s /\ b = e
  OBVIOUS
<1> HIDE DEF a, b, c, s, e, cell, here, next
<1>10. CASE i > target
  <2>1. cell = Cut(file, a, b) \o Cut(file, b, c)
    <3>1. i # target
      BY <1>1, <1>10
    <3> QED BY <1>5, <3>1
  <2>2. next = Cut(file, c, Len(file)) /\ here = Cut(file, a, Len(file))
    BY <1>1, <1>6, <1>7, <1>10
  <2>3. /\ cell = Cut(file, a, c)
        /\ Cut(file, a, c) \o Cut(file, c, Len(file)) = Cut(file, a, Len(file))
    BY <1>1, <1>4, <2>1, JoinAfter
  <2>4. cell \o next = here
    BY <2>2, <2>3
  <2> QED BY <2>4 DEF cell, here, next
<1>11. CASE i = target
  <2>1. cell = unit \o Cut(file, b, c)
    BY <1>5, <1>11
  <2>2. next = Cut(file, c, Len(file))
    BY <1>1, <1>7, <1>11
  <2>3. here = (Cut(file, s, s) \o unit) \o Cut(file, b, Len(file))
    BY <1>1, <1>6, <1>9, <1>11
  <2>4. Places(s, b, c, s, b, Len(file))
    BY <1>4, <1>9, <1>11
  <2>5. ThenFile(file, unit, b, c, s)
    BY <2>4, <1>1, UnitAfter
  <2>6. cell \o next = here
    BY <2>1, <2>2, <2>3, <2>5 DEF ThenFile
  <2> QED BY <2>6 DEF cell, here, next
<1>12. CASE i < target
  <2> DEFINE rest == Cut(file, e, z)
  <2>1. cell = Cut(file, a, b) \o Cut(file, b, c)
    <3>1. i # target
      BY <1>1, <1>12
    <3> QED BY <1>5, <3>1
  <2>2. cell = Cut(file, a, c)
    BY <1>1, <1>4, <2>1, JoinAfter
  <2>3. next = (Cut(file, c, s) \o unit) \o rest /\ here = (Cut(file, a, s) \o unit) \o rest
    BY <1>1, <1>6, <1>7, <1>12
  <2>4. /\ a \in Nat /\ c \in Nat /\ s \in Nat /\ a <= c /\ c <= s /\ s <= Len(file)
        /\ e \in Nat /\ e <= Len(file) /\ z \in Nat /\ z <= z
    BY <1>1, <1>4, <1>8, <1>12 DEF Places
  <2>5. IsSeq(rest)
    BY <2>4, <1>1, CutIsSeq
  <2> HIDE DEF rest
  <2>6. ThenRest(file, unit, rest, a, c, s)
    BY <2>4, <2>5, <1>1, CutsThenRest
  <2>7. cell \o next = here
    BY <2>2, <2>3, <2>6 DEF ThenRest
  <2> QED BY <2>7 DEF cell, here, next
<1> QED BY <1>1, <1>10, <1>11, <1>12

\* `replace_header_into` writes the file with one header unit for another.
LEMMA CopyIsSplice ==
    ASSUME NEW target, NEW unit, CopyReady(target, unit)
    PROVE  CopyAll(target, unit) = Spliced(target, unit, 1)
<1> DEFINE n == Len(hdus)
           g == [i \in 1..n + 1 |-> Spliced(target, unit, i)]
           f == CopyFrom(target, unit)
           fails == {k \in 0..n : f[n + 1 - k] # Spliced(target, unit, n + 1 - k)}
<1>1. n \in Nat /\ n > 0 /\ target \in 1..n
  BY DEF CopyReady, Chained
<1>2. ASSUME NEW h, h = [i \in 1..n + 1 |-> h[i]], NEW i \in 1..n + 1,
             i <= n => h[i + 1] = Spliced(target, unit, i + 1)
      PROVE  CopyBody(h, target, unit, i) = Spliced(target, unit, i)
  <2>1. CASE i <= n
    <3>1. i \in 1..Len(hdus)
      BY <2>1, <1>1
    <3> QED BY <2>1, <3>1, <1>2, CopyStep DEF CopyBody
  <2>2. CASE i > n
    <3>1. i = n + 1 /\ ~(i <= Len(hdus)) /\ ~(i <= target)
      BY <2>2, <1>1
    <3> QED BY <3>1 DEF CopyBody, Spliced, StartOf, Cut
  <2> QED BY <2>1, <2>2, <1>1
<1>3. g = [i \in 1..n + 1 |-> CopyBody(g, target, unit, i)]
  <2>1. \A i \in 1..n + 1 : CopyBody(g, target, unit, i) = Spliced(target, unit, i)
    <3>1. TAKE i \in 1..n + 1
    <3>2. g = [j \in 1..n + 1 |-> g[j]]
      OBVIOUS
    <3>3. i <= n => g[i + 1] = Spliced(target, unit, i + 1)
      BY <1>1
    <3> HIDE DEF g
    <3> QED BY <3>2, <3>3, <1>2
  <2> QED BY <2>1
<1> HIDE DEF g
<1>4. f = [i \in 1..n + 1 |-> CopyBody(f, target, unit, i)]
  <2>1. \E h : h = [i \in 1..n + 1 |-> CopyBody(h, target, unit, i)]
    BY <1>3
  <2> QED BY <2>1 DEF CopyFrom
<1> HIDE DEF f
<1>5. f = [i \in 1..n + 1 |-> f[i]] /\ \A i \in 1..n + 1 : f[i] = CopyBody(f, target, unit, i)
  BY <1>4
<1>6. fails = {}
  <2>1. SUFFICES ASSUME fails # {} PROVE FALSE
    OBVIOUS
  <2> DEFINE m == Least(fails)
  <2>2. m \in fails /\ \A k \in fails : m <= k
    <3>1. fails \in SUBSET Nat
      BY <1>1
    <3> HIDE DEF fails
    <3> QED BY <3>1, <2>1, LeastOf
  <2> HIDE DEF m
  <2> DEFINE i == n + 1 - m
  <2>3. m \in 0..n /\ i \in 1..n + 1
    BY <2>2, <1>1
  <2>4. ASSUME i <= n PROVE f[i + 1] = Spliced(target, unit, i + 1)
    <3>1. m - 1 \in 0..n /\ m - 1 < m /\ n + 1 - (m - 1) = i + 1
      BY <2>3, <2>4, <1>1
    <3>2. m - 1 \notin fails
      BY <2>2, <2>3, <3>1, <1>1
    <3>3. f[n + 1 - (m - 1)] = Spliced(target, unit, n + 1 - (m - 1))
      BY <3>1, <3>2
    <3> QED BY <3>1, <3>3
  <2> HIDE DEF i
  <2>5. CopyBody(f, target, unit, i) = Spliced(target, unit, i)
    BY <2>3, <2>4, <1>2, <1>5
  <2>6. f[i] = Spliced(target, unit, i)
    BY <2>3, <2>5, <1>5
  <2> QED BY <2>2, <2>6 DEF i
<1>7. f[1] = Spliced(target, unit, 1)
  <2>1. n \in 0..n /\ n \notin fails /\ n + 1 - n = 1
    BY <1>1, <1>6
  <2>2. f[n + 1 - n] = Spliced(target, unit, n + 1 - n)
    BY <2>1
  <2> QED BY <2>1, <2>2
<1> QED BY <1>7, CopyIsFrom DEF f


--------------------------------------------------------------------------------
(* A write. *)

\* w is f with the cells of a unit from k to k + n written at their place.
Wrote(f, w, unit, o, k, n) ==
    /\ IsFile(w) /\ Len(w) = Len(f)
    /\ \A i \in 1..Len(f) : i \notin o + k + 1..o + k + n => w[i] = f[i]
    /\ \A i \in k + 1..k + n : w[o + i] = unit[i]

\* A write puts cells of the unit where they belong, and nothing else.
LEMMA WriteShape ==
    ASSUME NEW f, IsFile(f), NEW unit, IsFile(unit), NEW o \in Nat, NEW k \in Nat,
           NEW n \in Nat, k + n <= Len(unit), o + Len(unit) <= Len(f),
           NEW bytes, bytes = Cut(unit, k, Len(unit)), NEW p, p = o + k,
           NEW w, w = [i \in 1..Len(f) |-> IF i \in p + 1..p + n THEN bytes[i - p] ELSE f[i]]
    PROVE  Wrote(f, w, unit, o, k, n)
<1> DEFINE m == Len(unit)
           z == Len(f)
<1>1. IsSeq(f) /\ IsSeq(unit) /\ m \in Nat /\ z \in Nat
  BY LenNat DEF IsFile
<1>2. k <= m /\ m <= Len(unit)
  BY <1>1
<1>3. Slice(unit, k, m, bytes)
  BY <1>1, <1>2, CutSlices
<1>4. IsSeq(w) /\ Len(w) = z
  BY <1>1, FunIsSeq
<1> HIDE DEF m, z
<1>5. \A i \in 1..m - k : bytes[i] = unit[k + i]
  BY <1>3 DEF Slice
<1>6. ASSUME NEW i \in 1..z, i \in p + 1..p + n
      PROVE  i - o \in k + 1..k + n /\ i - o \in 1..m /\ w[i] = unit[i - o]
  <2> DEFINE j == i - p
  <2>1. j \in 1..m - k /\ k + j = i - o /\ i - o \in k + 1..k + n /\ i - o \in 1..m
    BY <1>1, <1>2, <1>6 DEF m
  <2>2. w[i] = bytes[j]
    BY <1>6 DEF z
  <2> HIDE DEF j
  <2>3. bytes[j] = unit[k + j]
    BY <2>1, <1>5
  <2> QED BY <2>1, <2>2, <2>3
<1>7. ASSUME NEW i \in 1..z, i \notin p + 1..p + n PROVE w[i] = f[i]
  BY <1>7 DEF z
<1>8. \A i \in 1..Len(w) : IsCell(w[i])
  <2> TAKE i \in 1..Len(w)
  <2>1. i \in 1..z
    BY <1>4
  <2>2. CASE i \in p + 1..p + n
    <3>1. w[i] = unit[i - o] /\ i - o \in 1..Len(unit)
      BY <1>6, <2>1, <2>2 DEF m
    <3> QED BY <3>1 DEF IsFile
  <2>3. CASE i \notin p + 1..p + n
    <3>1. w[i] = f[i] /\ i \in 1..Len(f)
      BY <1>7, <2>1, <2>3 DEF z
    <3> QED BY <3>1 DEF IsFile
  <2> QED BY <2>2, <2>3
<1>9. ASSUME NEW i \in k + 1..k + n PROVE w[o + i] = unit[i]
  <2> DEFINE j == o + i
  <2>1. j \in 1..z /\ j \in p + 1..p + n /\ j - o = i
    BY <1>1 DEF m, z
  <2> HIDE DEF j
  <2>2. w[j] = unit[j - o]
    BY <2>1, <1>6
  <2> QED BY <2>1, <2>2 DEF j
<1>10. IsFile(w) /\ Len(w) = Len(f)
  BY <1>4, <1>8 DEF IsFile, z
<1>11. \A i \in 1..Len(f) : i \notin o + k + 1..o + k + n => w[i] = f[i]
  BY <1>7 DEF z
<1> QED BY <1>9, <1>10, <1>11 DEF Wrote

\* The bytes left after a write.
LEMMA CutOfCut ==
    ASSUME NEW u, IsSeq(u), NEW k \in Nat, NEW n \in Nat, k + n <= Len(u)
    PROVE  LET bytes == Cut(u, k, Len(u))
           IN  SubSeq(bytes, n + 1, Len(bytes)) = Cut(u, k + n, Len(u))
<1> DEFINE bytes == Cut(u, k, Len(u))
           m == Len(u)
           q == Len(bytes)
           s == SubSeq(bytes, n + 1, q)
           t == Cut(u, k + n, m)
           kn == k + n
<1>1. m \in Nat
  BY LenNat
<1>2. k <= m /\ kn <= m /\ m <= Len(u) /\ kn \in Nat
  BY <1>1
<1>3. Slice(u, k, m, bytes)
  BY <1>1, <1>2, CutSlices
<1> HIDE DEF kn
<1>4. Slice(u, kn, m, t)
  BY <1>1, <1>2, CutSlices DEF kn
<1> HIDE DEF t
<1>5. IsSeq(bytes) /\ q = m - k
  BY <1>3 DEF Slice
<1> HIDE DEF bytes, q
<1>6. q \in Nat /\ n <= q /\ q = Len(bytes)
  BY <1>1, <1>5 DEF q
<1>7. Slice(bytes, n, q, s)
  <2>1. q <= Len(bytes)
    BY <1>6
  <2> QED BY <1>5, <1>6, <2>1, CutIsHeld
<1> HIDE DEF s
<1>8. IsSeq(s) /\ IsSeq(t) /\ Len(s) = q - n /\ Len(t) = m - kn
  BY <1>4, <1>7 DEF Slice
<1>9. Len(s) = Len(t) /\ Len(s) = m - kn
  BY <1>1, <1>5, <1>8 DEF kn
<1>10. ASSUME NEW i \in 1..Len(s) PROVE s[i] = t[i]
  <2> DEFINE j == n + i
  <2>1. i \in 1..q - n /\ i \in 1..m - kn /\ j \in 1..m - k /\ k + j = kn + i
    BY <1>1, <1>5, <1>8, <1>9 DEF kn
  <2>2. s[i] = bytes[j]
    BY <2>1, <1>7 DEF Slice
  <2>3. t[i] = u[kn + i]
    BY <2>1, <1>4 DEF Slice
  <2> HIDE DEF j
  <2>4. bytes[j] = u[k + j]
    BY <2>1, <1>3 DEF Slice
  <2> QED BY <2>1, <2>2, <2>3, <2>4
<1>11. s = t
  BY <1>8, <1>9, <1>10, SeqsEqual
<1> QED BY <1>11 DEF s, t, bytes, q, kn

\* A change of the cells of one header alone: w has every other cell of f.
OnlyWithin(f, w, hdu) ==
    /\ IsSeq(f) /\ IsSeq(w) /\ Len(w) = Len(f)
    /\ \A i \in 1..Len(f) : i \notin hdu.offset + 1..hdu.data => w[i] = f[i]

\* An edit of one header leaves the headers of the other HDUs to read as they are
\* listed.
LEMMA OthersRead ==
    ASSUME NEW list, NEW f, NEW w, Chained(list, Len(f)),
           NEW index \in 1..Len(list), OnlyWithin(f, w, list[index]),
           NEW j \in 1..Len(list), j # index, ReadsAs(f, list[j])
    PROVE  ReadsAs(w, list[j])
<1> DEFINE a == list[j].offset
           b == list[j].data
           c == DataEnd(list[j])
           s == list[index].offset
           e == list[index].data
           x == DataEnd(list[index])
           z == Len(f)
<1>1. z \in Nat /\ Len(list) \in Nat /\ IsSeq(f) /\ IsSeq(w) /\ Len(w) = Len(f)
  BY LenNat DEF Chained, OnlyWithin
<1>2. HduTyped(list[j]) /\ HduTyped(list[index]) /\ b <= z
  BY DEF Chained
<1>3. Extent(list[j]) /\ Extent(list[index])
  BY <1>2, HduExtent
<1>4. /\ a \in Nat /\ b \in Nat /\ c \in Nat /\ a < b /\ b <= c
      /\ s \in Nat /\ e \in Nat /\ x \in Nat /\ s < e /\ e <= x
  BY <1>3 DEF Extent
<1>5. c <= s \/ x <= a
  <2>1. j < index \/ index < j
    BY <1>1
  <2> QED BY <2>1, Ordered
<1>6. \A i \in 1..z : i \notin s + 1..e => w[i] = f[i]
  BY DEF OnlyWithin
<1>7. \A i \in a + 1..b : w[i] = f[i]
  <2> HIDE DEF a, b, c, s, e, x, z
  <2> TAKE i \in a + 1..b
  <2>1. i \in 1..z /\ i \notin s + 1..e
    BY <1>1, <1>2, <1>4, <1>5
  <2> QED BY <2>1, <1>6
<1> QED BY <1>1, <1>2, <1>7, ReadsKept

\* No HDU is found behind the last of a list.
EndFound(f, list) ==
    LET end == DataEnd(list[Len(list)])
    IN  end \in 0..Len(f) => ~Found(f, end)

\* It leaves the bytes after the last HDU to open no other.
LEMMA EndKept ==
    ASSUME NEW list, NEW f, NEW w, Chained(list, Len(f)),
           NEW index \in 1..Len(list), OnlyWithin(f, w, list[index]), EndFound(f, list)
    PROVE  EndFound(w, list)
<1> DEFINE end == DataEnd(list[Len(list)])
<1>1. SUFFICES ASSUME end \in 0..Len(f) PROVE Found(w, end) = Found(f, end)
  BY DEF EndFound, OnlyWithin
<1> DEFINE s == list[index].offset
           e == list[index].data
           x == DataEnd(list[index])
           n == Len(list)
           z == Len(f)
<1>2. z \in Nat /\ n \in Nat /\ n \in 1..n /\ IsSeq(f) /\ IsSeq(w) /\ Len(w) = Len(f)
  BY LenNat DEF Chained, OnlyWithin
<1>3. Extent(list[index]) /\ Extent(list[n])
  BY <1>2, HduExtent DEF Chained
<1>4. s \in Nat /\ e \in Nat /\ x \in Nat /\ s < e /\ e <= x
  BY <1>3 DEF Extent
<1> HIDE DEF end
<1>5. x <= end
  <2>1. CASE index = n
    BY <2>1, <1>4 DEF end
  <2>2. CASE index # n
    <3> DEFINE y == list[n].offset
               d == list[n].data
    <3>1. index < n
      BY <2>2, <1>2
    <3>2. x <= y
      BY <3>1, <1>2, Ordered
    <3>3. y \in Nat /\ d \in Nat /\ end \in Nat /\ y < d /\ d <= end
      BY <1>3 DEF Extent, end
    <3> HIDE DEF x, y, d
    <3> QED BY <3>2, <3>3, <1>4
  <2> QED BY <2>1, <2>2
<1>6. \A i \in 1..z : i \notin s + 1..e => w[i] = f[i]
  BY DEF OnlyWithin
<1>7. \A i \in end + 1..Len(f) : w[i] = f[i]
  <2> TAKE i \in end + 1..Len(f)
  <2> HIDE DEF s, e, x
  <2>1. i \in 1..z /\ i \notin s + 1..e
    <3>1. end \in 0..z
      BY <1>1
    <3> HIDE DEF z
    <3>2. i \in end + 1..z
      BY DEF z
    <3> QED BY <3>1, <3>2, <1>2, <1>4, <1>5
  <2> QED BY <2>1, <1>6
<1> QED BY <1>1, <1>2, <1>7, FoundKept

\* other is the list with a new HDU in the place of one.
Replaced(list, size, index, new, other) ==
    /\ Chained(other, size) /\ Len(other) = Len(list)
    /\ other[index] = new
    /\ \A i \in 1..Len(list) :
          /\ i # index => other[i] = list[i]
          /\ other[i].offset = list[i].offset
          /\ DataEnd(other[i]) = DataEnd(list[i])

\* A list with one HDU for another of the same extent is end to end as it was.
LEMMA ReplacedChained ==
    ASSUME NEW list, NEW size, Chained(list, size), NEW index \in 1..Len(list),
           NEW new, HduTyped(new), new.offset = list[index].offset,
           new.blocks = list[index].blocks, new.kind = list[index].kind,
           NEW other, other = [list EXCEPT ![index] = new]
    PROVE  Replaced(list, size, index, new, other)
<1>1. IsSeq(list) /\ Len(list) \in Nat
  BY DEF Chained
<1>2. Updates(list, index, new, other)
  BY <1>1, ExceptIsSeq
<1>3. /\ IsSeq(other) /\ Len(other) = Len(list) /\ other[index] = new
      /\ \A i \in 1..Len(list) : i # index => other[i] = list[i]
  BY <1>2 DEF Updates
<1>4. HduTyped(list[index]) /\ list[index].data <= size
  BY DEF Chained
<1>5. new.data = list[index].data
  BY <1>4 DEF HduTyped
<1>6. DataEnd(new) = DataEnd(list[index])
  BY <1>5 DEF DataEnd
<1>7. \A i \in 1..Len(list) :
         /\ other[i].offset = list[i].offset /\ other[i].data = list[i].data
         /\ DataEnd(other[i]) = DataEnd(list[i]) /\ HduTyped(other[i])
  <2> TAKE i \in 1..Len(list)
  <2>1. CASE i = index
    BY <2>1, <1>3, <1>5, <1>6
  <2>2. CASE i # index
    BY <2>2, <1>3 DEF Chained
  <2> QED BY <2>1, <2>2
<1>8. ASSUME NEW i \in 1..Len(other)
      PROVE  /\ HduTyped(other[i]) /\ other[i].offset = OffsetIn(other, 0, i)
             /\ other[i].data <= size
  <2>1. i \in 1..Len(list)
    BY <1>3
  <2>2. list[i].offset = OffsetIn(list, 0, i) /\ list[i].data <= size
    BY <2>1 DEF Chained
  <2>3. OffsetIn(other, 0, i) = OffsetIn(list, 0, i)
    <3>1. CASE i = 1
      BY <3>1 DEF OffsetIn
    <3>2. CASE i # 1
      <4>1. i - 1 \in 1..Len(list)
        BY <3>2, <2>1, <1>1
      <4>2. DataEnd(other[i - 1]) = DataEnd(list[i - 1])
        BY <4>1, <1>7
      <4> QED BY <3>2, <4>2 DEF OffsetIn
    <3> QED BY <3>1, <3>2
  <2> QED BY <2>1, <2>2, <2>3, <1>7
<1>9. Chained(other, size)
  BY <1>1, <1>3, <1>8 DEF Chained
<1> QED BY <1>3, <1>7, <1>9 DEF Replaced


--------------------------------------------------------------------------------
(* The invariant. *)

\* Each header that is not torn reads as it is listed.
AllRead(f, list, t) == \A i \in 1..Len(list) : list[i].offset \notin t => ReadsAs(f, list[i])

ListFacts(f, list, t) ==
    /\ IsFile(f)
    /\ Chained(list, Len(f)) /\ Len(list) > 0
    /\ EndFound(f, list)
    /\ AllRead(f, list, t)

\* An edit is of one HDU of the list.
EditShaped(list, e) ==
    /\ e.index \in 1..Len(list)
    /\ e = [index |-> e.index, hdu |-> <<e.hdu[1]>>, bytes |-> e.bytes]

\* The file has the first k cells of the new unit, and the edit has the others.
Partway(f, old, e, unit, k) ==
    /\ EditedAs(unit, e.hdu[1], old, 0)
    /\ e.hdu[1].blocks = old.blocks
    /\ k \in 0..Len(unit)
    /\ e.bytes = Cut(unit, k, Len(unit))
    /\ \A i \in 1..k : f[old.offset + i] = unit[i]

\* w is f with one header unit for another.
SplicedAs(f, w, old, new) ==
    /\ IsFile(w)
    /\ new.offset = old.offset
    /\ SubSeq(w, 1, old.offset) = SubSeq(f, 1, old.offset)
    /\ SubSeq(w, new.data + 1, Len(w)) = SubSeq(f, old.data + 1, Len(f))
    /\ FreeRecords(new) >= old.blocks * B - 1 - Len(old.header)

\* The inductive invariant of the editor.
EditorInv ==
    /\ phase \in {"open", "writing", "written", "appending"}
    /\ ListFacts(file, hdus, torn)
    /\ phase \in {"open", "appending"} => edit = NoEdit
    /\ phase = "appending" => Len(file) = DataEnd(hdus[Len(hdus)])
    /\ phase \in {"writing", "written"} => EditShaped(hdus, edit)
    /\ phase = "writing" =>
          \E unit : \E k \in 0..Len(unit) : Partway(file, hdus[edit.index], edit, unit, k)
    /\ phase = "written" => SplicedAs(file, out, hdus[edit.index], edit.hdu[1])

\* A list fresh from a scan has all that the editor relies on.
LEMMA ScanGives ==
    ASSUME NEW f, IsFile(f), Scan(f) # <<>>, NEW t
    PROVE  ListFacts(f, Scan(f), t)
<1> DEFINE list == Scan(f)
<1>1. Chained(list, Len(f)) /\ \A i \in 1..Len(list) : ReadsAs(f, list[i])
  BY ScanIsChained
<1>2. ScansTo(f, 0, list)
  BY ScanShape
<1>3. IsSeq(list) /\ Len(list) \in Nat
  BY <1>1 DEF Chained
<1> HIDE DEF list
<1>4. Len(list) > 0
  <2>1. SUFFICES ASSUME Len(list) = 0 PROVE FALSE
    BY <1>3
  <2>2. list = <<>>
    BY <2>1, <1>3, EmptyIsSeq, SeqsEqual
  <2> QED BY <2>2 DEF list
<1>5. EndFound(f, list)
  <2>1. Len(list) + 1 # 1 /\ (Len(list) + 1) - 1 = Len(list)
    BY <1>3, <1>4
  <2>2. OffsetIn(list, 0, Len(list) + 1) = DataEnd(list[Len(list)])
    BY <2>1 DEF OffsetIn
  <2>3. OffsetIn(list, 0, Len(list) + 1) \notin 0..Len(f)
        \/ ~Found(f, OffsetIn(list, 0, Len(list) + 1))
    BY <1>2 DEF ScansTo
  <2> QED BY <2>2, <2>3 DEF EndFound
<1>6. AllRead(f, list, t)
  BY <1>1 DEF AllRead
<1>7. ListFacts(f, list, t)
  BY <1>1, <1>4, <1>5, <1>6 DEF ListFacts
<1> QED BY <1>7 DEF list

\* Two HDUs of a list start at two places.
LEMMA OffsetsDiffer ==
    ASSUME NEW list, NEW size, Chained(list, size),
           NEW i \in 1..Len(list), NEW j \in 1..Len(list), i # j
    PROVE  list[i].offset # list[j].offset
<1> DEFINE a == list[i].offset
           b == list[i].data
           c == DataEnd(list[i])
           p == list[j].offset
           q == list[j].data
           r == DataEnd(list[j])
<1>1. Extent(list[i]) /\ Extent(list[j])
  BY HduExtent DEF Chained
<1>2. /\ a \in Nat /\ b \in Nat /\ c \in Nat /\ a < b /\ b <= c
      /\ p \in Nat /\ q \in Nat /\ r \in Nat /\ p < q /\ q <= r
  BY <1>1 DEF Extent
<1>3. c <= p \/ r <= a
  <2>1. Len(list) \in Nat
    BY DEF Chained
  <2>2. i < j \/ j < i
    BY <2>1
  <2> QED BY <2>2, Ordered
<1> HIDE DEF a, b, c, p, q, r
<1>4. a # p
  BY <1>2, <1>3
<1> QED BY <1>4 DEF a, p

\* An editor opens in the invariant.
LEMMA InitHolds == Init => EditorInv
<1> SUFFICES ASSUME Init PROVE EditorInv
  OBVIOUS
<1>1. file \in Files /\ Scan(file) # <<>> /\ hdus = Scan(file) /\ phase = "open" /\ edit = NoEdit
  BY DEF Init
<1>2. IsFile(file)
  BY <1>1, EditorAssumption DEF IsFile, IsSeq, IsCell
<1>3. ListFacts(file, hdus, torn)
  BY <1>1, <1>2, ScanGives
<1> QED BY <1>1, <1>3 DEF EditorInv

\* All of a sequence.
LEMMA CutOfAll ==
    ASSUME NEW s, IsSeq(s)
    PROVE  Cut(s, 0, Len(s)) = s
<1> DEFINE t == Cut(s, 0, Len(s))
           n == Len(s)
<1>1. n \in Nat /\ n <= Len(s) /\ 0 <= n
  BY LenNat
<1>2. Slice(s, 0, n, t)
  BY <1>1, CutSlices
<1> HIDE DEF t
<1>3. IsSeq(t) /\ Len(t) = n - 0 /\ \A i \in 1..n - 0 : t[i] = s[0 + i]
  BY <1>2 DEF Slice
<1>4. Len(t) = Len(s)
  BY <1>1, <1>3
<1>5. \A i \in 1..Len(s) : t[i] = s[i]
  BY <1>1, <1>3
<1>6. t = s
  BY <1>3, <1>4, <1>5, SeqsEqual
<1> QED BY <1>6 DEF t

\* What an edit may take for granted of the HDU it edits.
LEMMA AcceptedHdu ==
    ASSUME EditorInv, NEW index, NEW header \in Headers, Accepted(index, header)
    PROVE  LET old == hdus[index]
           IN  /\ index \in 1..Len(hdus) /\ HduTyped(old) /\ IsHeader(header)
               /\ old.data <= Len(file)
               /\ HasRole(header, old.offset = 0)
               /\ KindOf(header, old.offset = 0) = old.kind
<1>1. index \in 1..Len(hdus) /\ CheckUnit(index, header)
  BY DEF Accepted
<1>2. Chained(hdus, Len(file))
  BY DEF EditorInv, ListFacts
<1>3. HduTyped(hdus[index]) /\ hdus[index].data <= Len(file)
  BY <1>1, <1>2 DEF Chained
<1>4. (hdus[index].offset = 0) = (index = 1)
  BY <1>1, <1>2, PrimaryIsFirst
<1>5. HasRole(header, index = 1) /\ KindOf(header, index = 1) = hdus[index].kind
  BY <1>1 DEF CheckUnit
<1>6. HasRole(header, hdus[index].offset = 0)
      /\ KindOf(header, hdus[index].offset = 0) = hdus[index].kind
  BY <1>4, <1>5
<1> QED BY <1>1, <1>3, <1>6, EditorAssumption

\* `replace_header`, up to its first byte: the header it renders takes the blocks the
\* old one has, and no cell of it is in the file.
LEMMA ReplaceStarts ==
    ASSUME EditorInv, NEW index, NEW header \in Headers, ReplaceHeader(index, header)
    PROVE  LET old  == hdus[index]
               unit == FitRender(index, header)
           IN  /\ Partway(file, old, edit', unit, 0) /\ EditShaped(hdus, edit')
               /\ index \in 1..Len(hdus) /\ edit'.index = index
               /\ edit'.hdu[1].header = ParseHeader(unit) /\ IsHeader(header)
               /\ 0 \in 0..Len(unit)
               /\ \E n \in Nat : unit = RenderInto(header, EditSigning(index, header), n)
<1> DEFINE old  == hdus[index]
           unit == FitRender(index, header)
           new  == HduOf(unit, old.offset)
<1>1. /\ Accepted(index, header) /\ Fits(index, header)
      /\ edit' = [index |-> index, hdu |-> <<new>>, bytes |-> unit]
  BY DEF ReplaceHeader
<1>2. /\ index \in 1..Len(hdus) /\ HduTyped(old) /\ IsHeader(header)
      /\ HasRole(header, old.offset = 0) /\ KindOf(header, old.offset = 0) = old.kind
  BY <1>1, AcceptedHdu
<1>3. /\ EditedAs(unit, new, old, 0) /\ new.blocks = old.blocks
      /\ \E n \in Nat : unit = RenderInto(header, EditSigning(index, header), n)
  BY <1>1, <1>2, FitShape
<1>4. new.header = ParseHeader(unit)
  BY DEF HduOf
<1> HIDE DEF unit, new
<1>5. IsSeq(unit) /\ Cut(unit, 0, Len(unit)) = unit /\ Len(unit) \in Nat
  BY <1>3, CutOfAll, LenNat DEF EditedAs, IsFile
<1>6. edit'.index = index /\ edit'.hdu[1] = new /\ edit'.bytes = unit
      /\ edit' = [index |-> index, hdu |-> <<new>>, bytes |-> unit]
  BY <1>1
<1>7. EditShaped(hdus, edit')
  BY <1>2, <1>6 DEF EditShaped
<1>8. Partway(file, old, edit', unit, 0)
  BY <1>3, <1>5, <1>6 DEF Partway
<1>9. 0 \in 0..Len(unit)
  BY <1>5
<1> QED BY <1>2, <1>3, <1>4, <1>6, <1>7, <1>8, <1>9 DEF unit

\* So it keeps the invariant.
LEMMA ReplaceHeaderKeeps ==
    ASSUME EditorInv, NEW index, NEW header \in Headers, ReplaceHeader(index, header)
    PROVE  EditorInv'
<1> DEFINE unit == FitRender(index, header)
<1>1. phase' = "writing" /\ file' = file /\ hdus' = hdus /\ out' = out /\ torn' = torn
  BY DEF ReplaceHeader
<1>2. /\ Partway(file, hdus[index], edit', unit, 0) /\ EditShaped(hdus, edit')
      /\ edit'.index = index /\ 0 \in 0..Len(unit)
  BY ReplaceStarts
<1> HIDE DEF unit
<1>3. ListFacts(file, hdus, torn)
  BY DEF EditorInv
<1> QED BY <1>1, <1>2, <1>3 DEF EditorInv


--------------------------------------------------------------------------------
(* The steps. *)

\* What a write of n cells finds and does: k cells of the unit are there already.
WriteOf(unit, k, n) ==
    LET old == hdus[edit.index]
    IN  /\ Partway(file, old, edit, unit, k)
        /\ edit.index \in 1..Len(hdus)
        /\ k \in Nat /\ n \in Nat /\ k + n \in 0..Len(unit)
        /\ Wrote(file, file', unit, old.offset, k, n)
        /\ OnlyWithin(file, file', old)
        /\ edit' = [edit EXCEPT !.bytes = Cut(unit, k + n, Len(unit))]

\* A write of an edit puts the next cells of the new header behind those already there.
LEMMA WriteIs ==
    ASSUME EditorInv, NEW n \in 1..Len(edit.bytes), EditWrites(n)
    PROVE  \E unit : \E k \in 0..Len(unit) : WriteOf(unit, k, n)
<1> DEFINE old == hdus[edit.index]
           new == edit.hdu[1]
           o   == old.offset
           e   == old.data
           z   == Len(file)
           bs  == edit.bytes
           p   == WriteAt
<1>1. /\ phase = "writing"
      /\ file' = [i \in 1..z |-> IF i \in p + 1..p + n THEN bs[i - p] ELSE file[i]]
      /\ edit' = [edit EXCEPT !.bytes = SubSeq(bs, n + 1, Len(bs))]
  BY DEF EditWrites
<1>2. EditShaped(hdus, edit)
  BY <1>1 DEF EditorInv
<1>3. PICK unit : \E k \in 0..Len(unit) : Partway(file, old, edit, unit, k)
  BY <1>1 DEF EditorInv
<1>4. PICK k \in 0..Len(unit) : Partway(file, old, edit, unit, k)
  BY <1>3
<1> DEFINE m == Len(unit)
<1>5. IsFile(file) /\ Chained(hdus, z) /\ edit.index \in 1..Len(hdus)
  BY <1>2 DEF EditorInv, ListFacts, EditShaped
<1>6. HduTyped(old) /\ e <= z
  BY <1>5 DEF Chained
<1>7. EditedAs(unit, new, old, 0) /\ new.blocks = old.blocks /\ bs = Cut(unit, k, m)
  BY <1>4 DEF Partway
<1>8. IsFile(unit) /\ m = new.blocks * B /\ HduTyped(new) /\ new.offset = o
  BY <1>7 DEF EditedAs
<1>9. o \in Nat /\ e \in Nat /\ e = o + m /\ new.data = o + m
  BY <1>6, <1>7, <1>8 DEF HduTyped
<1>10. IsSeq(unit) /\ m \in Nat /\ IsSeq(file) /\ z \in Nat /\ k \in Nat /\ k <= m
  BY <1>4, <1>5, <1>8, LenNat DEF IsFile
<1>11. Len(bs) = m - k /\ IsSeq(bs)
  <2>1. m <= Len(unit)
    BY <1>10
  <2>2. IsSeq(Cut(unit, k, m)) /\ Len(Cut(unit, k, m)) = m - k
    BY <2>1, <1>10, CutIsSeq
  <2> QED BY <2>2, <1>7
<1>12. p = o + k
  <2> DEFINE d == new.data
             q == Len(bs)
  <2>1. p = d - q
    BY DEF WriteAt
  <2>2. d = o + m /\ q = m - k
    BY <1>9, <1>11
  <2> HIDE DEF d, q, p, o, m
  <2> QED BY <2>1, <2>2, <1>9, <1>10
<1>13. n \in Nat /\ k + n <= m /\ k + n \in 0..m
  <2> DEFINE q == Len(bs)
  <2>1. n \in 1..q /\ q = m - k
    BY <1>11
  <2> HIDE DEF m, q
  <2> QED BY <2>1, <1>10
<1>14. o + m <= z
  BY <1>6, <1>9
<1> HIDE DEF p
<1>15. Wrote(file, file', unit, o, k, n)
  BY <1>1, <1>5, <1>7, <1>8, <1>9, <1>10, <1>12, <1>13, <1>14, WriteShape
<1>16. OnlyWithin(file, file', old)
  <2>1. IsFile(file') /\ Len(file') = z
        /\ \A i \in 1..z : i \notin o + k + 1..o + k + n => file'[i] = file[i]
    BY <1>15 DEF Wrote
  <2>2. \A i \in 1..z : i \notin o + 1..e => file'[i] = file[i]
    <3> TAKE i \in 1..z
    <3> HAVE i \notin o + 1..e
    <3>1. i \notin o + k + 1..o + k + n
      <4> HIDE DEF o, e, z, m
      <4> QED BY <1>9, <1>10, <1>13
    <3> QED BY <2>1, <3>1
  <2> QED BY <2>1, <2>2, <1>10 DEF OnlyWithin, IsFile
<1>17. SubSeq(bs, n + 1, Len(bs)) = Cut(unit, k + n, m)
  <2>1. SubSeq(Cut(unit, k, m), n + 1, Len(Cut(unit, k, m))) = Cut(unit, k + n, m)
    BY <1>10, <1>13, CutOfCut
  <2> QED BY <2>1, <1>7
<1>18. edit' = [edit EXCEPT !.bytes = Cut(unit, k + n, m)]
  BY <1>1, <1>17
<1>19. WriteOf(unit, k, n)
  BY <1>4, <1>5, <1>10, <1>13, <1>15, <1>16, <1>18 DEF WriteOf
<1> QED BY <1>4, <1>19

\* Behind it, the edit is n cells further.
LEMMA WriteAdvances ==
    ASSUME EditorInv, NEW n, NEW unit, NEW k, WriteOf(unit, k, n), EditShaped(hdus, edit)
    PROVE  Partway(file', hdus[edit.index], edit', unit, k + n)
<1> DEFINE old == hdus[edit.index]
           o   == old.offset
           m   == Len(unit)
<1>1. /\ Partway(file, old, edit, unit, k) /\ edit.index \in 1..Len(hdus)
      /\ k \in Nat /\ n \in Nat /\ k + n \in 0..m
      /\ Wrote(file, file', unit, o, k, n)
      /\ edit' = [edit EXCEPT !.bytes = Cut(unit, k + n, m)]
  BY DEF WriteOf
<1>2. edit'.hdu = edit.hdu /\ edit'.bytes = Cut(unit, k + n, m)
  BY <1>1 DEF EditShaped
<1>3. \A i \in 1..k : file[o + i] = unit[i]
  BY <1>1 DEF Partway
<1>4. \A i \in k + 1..k + n : file'[o + i] = unit[i]
  BY <1>1 DEF Wrote
<1>5. \A i \in 1..Len(file) : i \notin o + k + 1..o + k + n => file'[i] = file[i]
  BY <1>1 DEF Wrote
<1>6. EditedAs(unit, edit.hdu[1], old, 0) /\ edit.hdu[1].blocks = old.blocks
  BY <1>1 DEF Partway
<1>7. o \in Nat /\ Len(file) \in Nat /\ o + m <= Len(file) /\ m \in Nat
  <2>1. HduTyped(old) /\ old.data <= Len(file)
    BY <1>1 DEF EditorInv, ListFacts, Chained
  <2>2. m = old.blocks * B
    BY <1>6 DEF EditedAs
  <2>3. IsSeq(file)
    BY DEF EditorInv, ListFacts, IsFile
  <2> QED BY <2>1, <2>2, <2>3, LenNat DEF HduTyped
<1>8. ASSUME NEW i \in 1..k + n PROVE file'[o + i] = unit[i]
  <2> HIDE DEF o, m
  <2>1. CASE i \in k + 1..k + n
    BY <2>1, <1>4
  <2>2. CASE i \notin k + 1..k + n
    <3> DEFINE j == o + i
               z == Len(file)
    <3>1. k \in Nat /\ n \in Nat /\ k + n <= m /\ z \in Nat /\ o \in Nat /\ o + m <= z
      BY <1>1, <1>7
    <3> HIDE DEF z
    <3>2. i \in 1..k /\ j \in 1..z /\ j \notin o + k + 1..o + k + n
      BY <2>2, <3>1, <1>7
    <3>3. i \in 1..k /\ j \in 1..Len(file) /\ j \notin o + k + 1..o + k + n
      BY <3>2 DEF z
    <3> HIDE DEF j
    <3>4. file'[j] = file[j]
      BY <3>3, <1>5
    <3>5. file[o + i] = unit[i]
      BY <3>3, <1>3
    <3> QED BY <3>4, <3>5 DEF j
  <2> QED BY <2>1, <2>2
<1> QED BY <1>1, <1>2, <1>6, <1>8 DEF Partway

\* A write that stops at any byte keeps the invariant: the header is torn, and all
\* others read as they are listed.
LEMMA EditWritesKeeps ==
    ASSUME EditorInv, NEW n \in 1..Len(edit.bytes), EditWrites(n)
    PROVE  EditorInv'
<1> DEFINE old == hdus[edit.index]
           o   == old.offset
<1>1. /\ phase = "writing" /\ phase' = phase /\ hdus' = hdus
      /\ torn' = torn \union {edit.hdu[1].offset}
  BY DEF EditWrites
<1>2. PICK unit : \E k \in 0..Len(unit) : WriteOf(unit, k, n)
  BY WriteIs
<1>3. PICK k \in 0..Len(unit) : WriteOf(unit, k, n)
  BY <1>2
<1> DEFINE m == Len(unit)
<1>4. /\ Partway(file, old, edit, unit, k) /\ edit.index \in 1..Len(hdus)
      /\ k \in Nat /\ n \in Nat /\ k + n \in 0..m
      /\ Wrote(file, file', unit, o, k, n)
      /\ OnlyWithin(file, file', old)
      /\ edit' = [edit EXCEPT !.bytes = Cut(unit, k + n, m)]
  BY <1>3 DEF WriteOf
<1>5. EditShaped(hdus, edit)
  BY <1>1 DEF EditorInv
<1>6. /\ edit'.index = edit.index /\ edit'.hdu = edit.hdu /\ edit'.bytes = Cut(unit, k + n, m)
      /\ edit' = [index |-> edit.index, hdu |-> <<edit.hdu[1]>>, bytes |-> Cut(unit, k + n, m)]
  BY <1>4, <1>5 DEF EditShaped
<1>7. EditShaped(hdus, edit')
  <2>1. edit'.hdu[1] = edit.hdu[1]
    BY <1>6
  <2> QED BY <2>1, <1>4, <1>6 DEF EditShaped
<1>8. edit.hdu[1].offset = o
  BY <1>4 DEF Partway, EditedAs
<1>9. Partway(file', old, edit', unit, k + n)
  BY <1>3, <1>5, WriteAdvances
<1>10. ListFacts(file', hdus, torn')
  <2>1. IsFile(file') /\ Len(file') = Len(file)
    BY <1>4 DEF Wrote
  <2>2. /\ Chained(hdus, Len(file)) /\ Len(hdus) > 0 /\ EndFound(file, hdus)
        /\ AllRead(file, hdus, torn)
    BY DEF EditorInv, ListFacts
  <2>3. EndFound(file', hdus)
    BY <1>4, <2>2, EndKept
  <2>4. AllRead(file', hdus, torn')
    <3>1. ASSUME NEW j \in 1..Len(hdus), hdus[j].offset \notin torn'
          PROVE  ReadsAs(file', hdus[j])
      <4>1. j # edit.index
        BY <1>1, <1>8, <3>1
      <4>2. ReadsAs(file, hdus[j])
        BY <1>1, <2>2, <3>1 DEF AllRead
      <4> QED BY <4>1, <4>2, <1>4, <2>2, OthersRead
    <3> QED BY <3>1 DEF AllRead
  <2> QED BY <2>1, <2>2, <2>3, <2>4 DEF ListFacts
<1> QED BY <1>1, <1>4, <1>6, <1>7, <1>9, <1>10 DEF EditorInv

\* An edit with no bytes left has all cells of the header in the file.
LEMMA AllWritten ==
    ASSUME NEW f, NEW old, NEW e, NEW unit, NEW k, Partway(f, old, e, unit, k), e.bytes = <<>>
    PROVE  k = Len(unit)
<1>1. IsSeq(unit) /\ Len(unit) \in Nat /\ k \in Nat /\ k <= Len(unit) /\ Len(unit) <= Len(unit)
  <2>1. IsSeq(unit) /\ k \in 0..Len(unit)
    BY DEF Partway, EditedAs, IsFile
  <2>2. Len(unit) \in Nat
    BY <2>1, LenNat
  <2> QED BY <2>1, <2>2
<1>2. Len(Cut(unit, k, Len(unit))) = Len(unit) - k
  BY <1>1, CutIsSeq
<1>3. e.bytes = Cut(unit, k, Len(unit))
  BY DEF Partway
<1>4. Len(<<>>) = 0
  BY EmptyIsSeq
<1> QED BY <1>1, <1>2, <1>3, <1>4

\* The end of `replace_header` keeps the invariant: the header it leaves reads as the
\* HDU it puts in the list.
LEMMA EditDoneKeeps ==
    ASSUME EditorInv, EditDone
    PROVE  EditorInv'
<1> DEFINE index == edit.index
           old == hdus[edit.index]
           new == edit.hdu[1]
           o   == old.offset
<1>1. /\ phase = "writing" /\ edit.bytes = <<>> /\ phase' = "open" /\ edit' = NoEdit
      /\ hdus' = [hdus EXCEPT ![index] = new] /\ file' = file
      /\ torn' = torn \ {new.offset}
  BY DEF EditDone
<1>2. EditShaped(hdus, edit)
  BY <1>1 DEF EditorInv
<1>3. PICK unit : \E k \in 0..Len(unit) : Partway(file, old, edit, unit, k)
  BY <1>1 DEF EditorInv
<1>4. PICK k \in 0..Len(unit) : Partway(file, old, edit, unit, k)
  BY <1>3
<1>5. /\ IsFile(file) /\ Chained(hdus, Len(file)) /\ Len(hdus) > 0 /\ index \in 1..Len(hdus)
      /\ EndFound(file, hdus) /\ AllRead(file, hdus, torn)
  BY <1>2 DEF EditorInv, ListFacts, EditShaped
<1>6. HduTyped(old) /\ old.data <= Len(file)
  BY <1>5 DEF Chained
<1>7. /\ EditedAs(unit, new, old, 0) /\ new.blocks = old.blocks
      /\ edit.bytes = Cut(unit, k, Len(unit))
      /\ \A i \in 1..k : file[o + i] = unit[i]
  BY <1>4 DEF Partway
<1>8. /\ IsFile(unit) /\ HduTyped(new) /\ new.offset = o /\ new.kind = old.kind
  BY <1>7 DEF EditedAs
<1>9. k = Len(unit)
  BY <1>1, <1>4, AllWritten
<1>10. new.data <= Len(file)
  BY <1>6, <1>7, <1>8 DEF HduTyped
<1>11. ReadsAs(file, new)
  <2>1. \A i \in 1..Len(unit) : file[o + i] = unit[i]
    BY <1>7, <1>9
  <2>2. IsSeq(file)
    BY <1>5 DEF IsFile
  <2> QED BY <2>1, <2>2, <1>7, <1>10, EditReads
<1> DEFINE list == [hdus EXCEPT ![index] = new]
<1>12. /\ Chained(list, Len(file)) /\ Len(list) = Len(hdus)
       /\ list[index] = new
       /\ \A i \in 1..Len(hdus) :
             /\ i # index => list[i] = hdus[i]
             /\ list[i].offset = hdus[i].offset
             /\ DataEnd(list[i]) = DataEnd(hdus[i])
  <2>1. Replaced(hdus, Len(file), index, new, list)
    BY <1>5, <1>7, <1>8, ReplacedChained
  <2> HIDE DEF index, new, list
  <2> QED BY <2>1 DEF Replaced
<1> HIDE DEF list
<1>13. EndFound(file, list)
  <2>1. Len(hdus) \in 1..Len(hdus)
    BY <1>5 DEF Chained
  <2>2. DataEnd(list[Len(list)]) = DataEnd(hdus[Len(hdus)])
    BY <2>1, <1>12
  <2> QED BY <2>2, <1>5 DEF EndFound
<1>14. AllRead(file, list, torn')
  <2>1. ASSUME NEW j \in 1..Len(list), list[j].offset \notin torn'
        PROVE  ReadsAs(file, list[j])
    <3>1. CASE j = index
      BY <3>1, <1>11, <1>12
    <3>2. CASE j # index
      <4>1. j \in 1..Len(hdus) /\ list[j] = hdus[j]
        BY <3>2, <1>12
      <4>2. hdus[j].offset # o
        BY <3>2, <4>1, <1>5, OffsetsDiffer
      <4>3. hdus[j].offset \notin torn
        BY <4>1, <4>2, <2>1, <1>1, <1>8
      <4> QED BY <4>1, <4>3, <1>5 DEF AllRead
    <3> QED BY <3>1, <3>2
  <2> QED BY <2>1 DEF AllRead
<1>15. ListFacts(file, list, torn')
  BY <1>5, <1>12, <1>13, <1>14 DEF ListFacts
<1>16. hdus' = list
  BY <1>1 DEF list
<1> QED BY <1>1, <1>15, <1>16 DEF EditorInv

\* w is the file with a unit for the cells from o to e.
HasUnit(f, unit, o, e, w) ==
    /\ IsFile(w)
    /\ SubSeq(w, 1, o) = SubSeq(f, 1, o)
    /\ SubSeq(w, o + Len(unit) + 1, Len(w)) = SubSeq(f, e + 1, Len(f))

\* A file with a unit for the cells between two positions has the others as they were.
LEMMA SpliceShape ==
    ASSUME NEW f, IsFile(f), NEW unit, IsFile(unit), NEW o \in Nat, NEW e \in Nat,
           o <= e, e <= Len(f), NEW w, w = (Cut(f, 0, o) \o unit) \o Cut(f, e, Len(f))
    PROVE  HasUnit(f, unit, o, e, w)
<1> DEFINE head == Cut(f, 0, o)
           tail == Cut(f, e, Len(f))
           both == head \o unit
           z    == Len(f)
           m    == Len(unit)
<1>1. IsSeq(f) /\ IsSeq(unit) /\ z \in Nat /\ m \in Nat
  BY LenNat DEF IsFile
<1>2. 0 <= o /\ o <= Len(f) /\ z <= Len(f) /\ 0 \in Nat /\ z \in Nat
  BY <1>1
<1>3. IsFile(head) /\ IsFile(tail)
  <2>1. IsFile(SubSeq(f, 0 + 1, o))
    BY <1>2, CutIsFile
  <2>2. IsFile(SubSeq(f, e + 1, z))
    BY <1>2, CutIsFile
  <2> QED BY <2>1, <2>2 DEF Cut
<1>4. IsSeq(head) /\ Len(head) = o
  <2>1. IsSeq(head) /\ Len(head) = o - 0
    BY <1>1, <1>2, CutIsSeq
  <2> HIDE DEF head
  <2> QED BY <2>1
<1>5. IsSeq(tail) /\ Len(tail) = z - e
  BY <1>1, <1>2, CutIsSeq
<1>6. head = SubSeq(f, 1, o) /\ tail = SubSeq(f, e + 1, Len(f))
  BY DEF Cut
<1>7. w = both \o tail
  OBVIOUS
<1> HIDE DEF head, tail
<1>8. Joins(head, unit, both) /\ IsFile(both)
  BY <1>1, <1>3, <1>4, ConcatIsSeq, JoinIsFile
<1> HIDE DEF both
<1>9. Joins(both, tail, w) /\ IsFile(w)
  <2>1. IsSeq(both)
    BY <1>8 DEF Joins
  <2> QED BY <2>1, <1>3, <1>5, <1>7, <1>8, ConcatIsSeq, JoinIsFile
<1>10. IsSeq(both) /\ Len(both) = o + m
  BY <1>4, <1>8 DEF Joins
<1>11. IsSeq(w) /\ Len(w) = (o + m) + (z - e)
  BY <1>5, <1>9, <1>10 DEF Joins
<1>12. Holds(w, 0, head)
  <2>1. 0 + Len(head) <= Len(w)
    <3> HIDE DEF m, z
    <3> QED BY <1>1, <1>2, <1>4, <1>11 DEF z
  <2>2. ASSUME NEW i \in 1..Len(head) PROVE w[0 + i] = head[i]
    <3>1. i \in 1..Len(both) /\ 0 + i = i
      <4> HIDE DEF m
      <4> QED BY <1>1, <1>4, <1>10
    <3>2. w[i] = both[i] /\ both[i] = head[i]
      BY <3>1, <1>8, <1>9 DEF Joins
    <3> QED BY <3>1, <3>2
  <2> QED BY <2>1, <2>2 DEF Holds
<1>13. SubSeq(w, 1, o) = head
  <2>1. SubSeq(w, 0 + 1, 0 + Len(head)) = head
    BY <1>4, <1>11, <1>12, SubSeqOfHeld
  <2>2. 0 + Len(head) = o /\ 0 + 1 = 1
    BY <1>4
  <2> QED BY <2>1, <2>2
<1> DEFINE p == o + m
<1>14. p \in Nat
  BY <1>1
<1>15. Holds(w, p, tail)
  <2>1. p + Len(tail) <= Len(w)
    <3> HIDE DEF m, z
    <3> QED BY <1>1, <1>2, <1>5, <1>11 DEF z
  <2>2. \A i \in 1..Len(tail) : w[p + i] = tail[i]
    BY <1>9, <1>10 DEF Joins
  <2> QED BY <2>1, <2>2 DEF Holds
<1> HIDE DEF p
<1>16. SubSeq(w, p + 1, p + Len(tail)) = tail
  BY <1>5, <1>11, <1>14, <1>15, SubSeqOfHeld
<1>17. p + Len(tail) = Len(w)
  BY <1>5, <1>11 DEF p
<1>18. SubSeq(w, o + Len(unit) + 1, Len(w)) = tail
  BY <1>16, <1>17 DEF p
<1> QED BY <1>6, <1>9, <1>13, <1>18 DEF HasUnit

\* The records `replace_header_into` keeps free are all the header had.
LEMMA FreeRecordsNat ==
    ASSUME NEW hdu, HduTyped(hdu)
    PROVE  /\ FreeRecords(hdu) \in Nat
           /\ FreeRecords(hdu) >= hdu.blocks * B - 1 - Len(hdu.header)
<1> DEFINE n == hdu.blocks * B
           h == Len(hdu.header)
<1>1. n \in Nat /\ h \in Nat
  BY LenNat DEF HduTyped
<1>2. FreeRecords(hdu) = IF n - 1 > h THEN n - 1 - h ELSE 0
  BY DEF FreeRecords
<1> HIDE DEF n, h
<1>3. FreeRecords(hdu) \in Nat /\ FreeRecords(hdu) >= n - 1 - h
  BY <1>1, <1>2
<1> QED BY <1>3 DEF n, h

\* `replace_header_into` writes the file with a rendered header for another.
LEMMA IntoIs ==
    ASSUME EditorInv, NEW index, NEW header \in Headers, ReplaceHeaderInto(index, header)
    PROVE  LET old  == hdus[index]
               unit == SpareRender(index, header)
               new  == HduOf(unit, old.offset)
           IN  /\ index \in 1..Len(hdus) /\ HduTyped(old) /\ IsHeader(header)
               /\ old.offset \in Nat /\ old.data \in Nat
               /\ old.offset <= old.data /\ old.data <= Len(file)
               /\ EditedAs(unit, new, old, FreeRecords(old))
               /\ out' = (Cut(file, 0, old.offset) \o unit) \o Cut(file, old.data, Len(file))
               /\ edit'.index = index /\ edit'.hdu[1] = new /\ EditShaped(hdus, edit')
<1> DEFINE old  == hdus[index]
           unit == SpareRender(index, header)
           new  == HduOf(unit, old.offset)
           o    == old.offset
           e    == old.data
           spare == FreeRecords(old)
<1>1. /\ Accepted(index, header)
      /\ DataEnd(hdus[Len(hdus)]) <= Len(file)
      /\ out' = CopyAll(index, unit)
      /\ edit' = [index |-> index, hdu |-> <<new>>, bytes |-> <<>>]
  BY DEF ReplaceHeaderInto
<1>2. /\ index \in 1..Len(hdus) /\ HduTyped(old) /\ IsHeader(header) /\ e <= Len(file)
      /\ HasRole(header, o = 0) /\ KindOf(header, o = 0) = old.kind
  BY <1>1, AcceptedHdu
<1>3. IsFile(file) /\ Chained(hdus, Len(file)) /\ Len(hdus) > 0 /\ IsSeq(file)
  BY DEF EditorInv, ListFacts, IsFile
<1>4. EditedAs(unit, new, old, spare)
  <2>1. IsSigning(EditSigning(index, header))
    BY EditSigningIs
  <2>2. unit = RenderInto(header, EditSigning(index, header), spare)
    BY DEF SpareRender
  <2>3. spare \in Nat
    BY <1>2, FreeRecordsNat
  <2> HIDE DEF unit, spare
  <2> QED BY <2>1, <2>2, <2>3, <1>2, EditShape
<1> HIDE DEF unit, new
<1>5. IsSeq(unit)
  BY <1>4 DEF EditedAs, IsFile
<1>6. CopyReady(index, unit)
  BY <1>1, <1>2, <1>3, <1>5 DEF CopyReady
<1>7. out' = Spliced(index, unit, 1)
  BY <1>1, <1>6, CopyIsSplice
<1>8. out' = (Cut(file, 0, o) \o unit) \o Cut(file, e, Len(file))
  <2>1. 1 \in 1..Len(hdus) /\ 1 <= Len(hdus) /\ 1 <= index
    BY <1>2, <1>3 DEF Chained
  <2>2. StartOf(1) = hdus[1].offset
    BY <2>1 DEF StartOf
  <2>3. hdus[1].offset = OffsetIn(hdus, 0, 1)
    BY <2>1, <1>3 DEF Chained
  <2>4. StartOf(1) = 0
    BY <2>2, <2>3 DEF OffsetIn
  <2> QED BY <2>1, <2>4, <1>7 DEF Spliced
<1>9. o \in Nat /\ e \in Nat /\ o <= e
  <2>1. o \in Nat /\ e \in Nat /\ o < e
    BY <1>2, HduExtent DEF Extent
  <2> HIDE DEF o, e
  <2> QED BY <2>1
<1>10. edit'.index = index /\ edit'.hdu[1] = new /\ EditShaped(hdus, edit')
  BY <1>1, <1>2 DEF EditShaped
<1> QED BY <1>2, <1>4, <1>8, <1>9, <1>10 DEF unit, new

\* So it keeps the invariant: the second file is a splice.
LEMMA IntoKeeps ==
    ASSUME EditorInv, NEW index, NEW header \in Headers, ReplaceHeaderInto(index, header)
    PROVE  EditorInv'
<1> DEFINE old  == hdus[index]
           unit == SpareRender(index, header)
           new  == HduOf(unit, old.offset)
           o    == old.offset
           e    == old.data
           spare == FreeRecords(old)
<1>1. phase' = "written" /\ file' = file /\ hdus' = hdus /\ torn' = torn
  BY DEF ReplaceHeaderInto
<1>2. /\ HduTyped(old) /\ o \in Nat /\ e \in Nat /\ o <= e /\ e <= Len(file)
      /\ EditedAs(unit, new, old, spare)
      /\ out' = (Cut(file, 0, o) \o unit) \o Cut(file, e, Len(file))
      /\ edit'.index = index /\ edit'.hdu[1] = new /\ EditShaped(hdus, edit')
  BY IntoIs
<1>3. ListFacts(file, hdus, torn)
  BY DEF EditorInv
<1>4. IsFile(file)
  BY <1>3 DEF ListFacts
<1>5. spare \in Nat /\ spare >= old.blocks * B - 1 - Len(old.header)
  BY <1>2, FreeRecordsNat
<1> HIDE DEF unit, new
<1>6. /\ IsFile(unit) /\ IsSeq(unit) /\ HduTyped(new) /\ new.offset = o
      /\ Len(unit) = new.blocks * B /\ Len(new.header) + spare + 1 <= new.blocks * B
  BY <1>2 DEF EditedAs, IsFile
<1>7. HasUnit(file, unit, o, e, out')
  <2> HIDE DEF o, e
  <2> QED BY <1>2, <1>4, <1>6, SpliceShape
<1> HIDE DEF o, e
<1>8. new.data = o + Len(unit)
  BY <1>6 DEF HduTyped
<1>9. FreeRecords(new) >= old.blocks * B - 1 - Len(old.header)
  <2> DEFINE n == new.blocks * B
             h == Len(new.header)
             x == old.blocks * B
             y == Len(old.header)
             q == FreeRecords(new)
  <2>1. q \in Nat /\ q >= n - 1 - h
    BY <1>6, FreeRecordsNat
  <2>2. n \in Nat /\ h \in Nat /\ h + spare + 1 <= n
    BY <1>6, LenNat DEF HduTyped
  <2>3. x \in Nat /\ y \in Nat /\ spare >= x - 1 - y
    BY <1>2, <1>5, LenNat DEF HduTyped
  <2> HIDE DEF n, h, x, y, q, spare
  <2>4. q >= x - 1 - y
    BY <2>1, <2>2, <2>3, <1>5
  <2> QED BY <2>4 DEF x, y, q
<1>10. SplicedAs(file, out', old, new)
  BY <1>6, <1>7, <1>8, <1>9 DEF SplicedAs, HasUnit, o, e
<1> QED BY <1>1, <1>2, <1>3, <1>10 DEF EditorInv

\* The invariant is inductive.
LEMMA NextKeeps ==
    ASSUME EditorInv, [Next]_vars
    PROVE  EditorInv'
<1>1. ListFacts(file, hdus, torn)
  BY DEF EditorInv
<1>2. ASSUME NEW index \in 1..Len(hdus), NEW header \in Headers, ReplaceHeader(index, header)
      PROVE  EditorInv'
  BY <1>2, ReplaceHeaderKeeps
<1>3. ASSUME NEW n \in 1..Len(edit.bytes), EditWrites(n) PROVE EditorInv'
  BY <1>3, EditWritesKeeps
<1>4. CASE EditFails
  BY <1>1, <1>4 DEF EditFails, EditorInv
<1>5. CASE EditDone
  BY <1>5, EditDoneKeeps
<1>6. ASSUME NEW index \in 1..Len(hdus), NEW header \in Headers, ReplaceHeaderInto(index, header)
      PROVE  EditorInv'
  BY <1>6, IntoKeeps
<1>7. CASE Rename
  <2>1. /\ phase = "written" /\ Scan(out) # <<>> /\ file' = out /\ hdus' = Scan(out)
        /\ phase' = "open" /\ edit' = NoEdit
    BY <1>7 DEF Rename
  <2>2. IsFile(out)
    BY <2>1 DEF EditorInv, SplicedAs
  <2>3. ListFacts(file', hdus', torn')
    BY <2>1, <2>2, ScanGives
  <2> QED BY <2>1, <2>3 DEF EditorInv
<1>8. CASE Discard
  BY <1>1, <1>8 DEF Discard, EditorInv
<1>9. CASE AppendHdus
  BY <1>1, <1>9 DEF AppendHdus, EditorInv
<1>10. CASE Reopen
  <2>1. /\ Scan(file) # <<>> /\ file' = file /\ hdus' = Scan(file)
        /\ phase' = "open" /\ edit' = NoEdit
    BY <1>10 DEF Reopen
  <2>2. IsFile(file)
    BY <1>1 DEF ListFacts
  <2>3. ListFacts(file', hdus', torn')
    BY <2>1, <2>2, ScanGives
  <2> QED BY <2>1, <2>3 DEF EditorInv
<1>11. CASE UNCHANGED vars
  BY <1>11 DEF vars, EditorInv
<1> QED BY <1>2, <1>3, <1>4, <1>5, <1>6, <1>7, <1>8, <1>9, <1>10, <1>11 DEF Next

\* The editor is in its invariant at every step, for every block size, file, header
\* and bound: its list is end to end in the file, no HDU is found behind the last, and
\* each header no failed write tore reads as it is listed, wherever a write stops.
THEOREM EditorInvHolds == Spec => []EditorInv
<1>1. Init => EditorInv
  BY InitHolds
<1>2. EditorInv /\ [Next]_vars => EditorInv'
  BY NextKeeps
<1> QED BY <1>1, <1>2, PTL DEF Spec


--------------------------------------------------------------------------------
(* The theorems. *)

\* The invariant gives the types.
LEMMA InvTypes ==
    ASSUME EditorInv
    PROVE  TypeOK
<1>1. Chained(hdus, Len(file)) /\ Len(hdus) > 0
  BY DEF EditorInv, ListFacts
<1>2. phase \in {"open", "writing", "written", "appending"}
  BY DEF EditorInv
<1>3. ASSUME NEW i \in 1..Len(hdus)
      PROVE  /\ hdus[i].data = hdus[i].offset + hdus[i].blocks * B
             /\ hdus[i].offset = (IF i = 1 THEN 0 ELSE DataEnd(hdus[i - 1]))
             /\ hdus[i].data <= Len(file)
  BY <1>1 DEF Chained, HduTyped, OffsetIn
<1>4. edit # NoEdit => edit.hdu[1].offset = hdus[edit.index].offset
  <2>1. CASE phase = "writing"
    <3>1. \E unit : \E k \in 0..Len(unit) : Partway(file, hdus[edit.index], edit, unit, k)
      BY <2>1 DEF EditorInv
    <3> QED BY <3>1 DEF Partway, EditedAs
  <2>2. CASE phase = "written"
    BY <2>2 DEF EditorInv, SplicedAs
  <2> QED BY <1>2, <2>1, <2>2 DEF EditorInv
<1> QED BY <1>1, <1>2, <1>3, <1>4 DEF TypeOK

\* The type invariant, for every block size, file, header and bound: the list of
\* `FitsEditor` is never empty, its HDUs follow one another in the file, and an edit keeps
\* the place of the HDU it edits.
THEOREM EditorTyped == Spec => []TypeOK
<1>1. EditorInv => TypeOK
  BY InvTypes
<1> QED BY <1>1, EditorInvHolds, PTL

\* The invariant gives the splice.
LEMMA InvSplices == ASSUME EditorInv PROVE SecondFileIsSplice
<1>1. SUFFICES ASSUME phase = "written"
               PROVE  LET old == hdus[edit.index]
                          new == edit.hdu[1]
                      IN  /\ SubSeq(out, 1, old.offset) = SubSeq(file, 1, old.offset)
                          /\ SubSeq(out, new.data + 1, Len(out))
                               = SubSeq(file, old.data + 1, Len(file))
                          /\ FreeRecords(new) >= old.blocks * B - 1 - Len(old.header)
  BY DEF SecondFileIsSplice
<1>2. SplicedAs(file, out, hdus[edit.index], edit.hdu[1])
  BY <1>1 DEF EditorInv
<1> QED BY <1>2 DEF SplicedAs

\* `replace_header_into` writes the file with one header unit for another, for every
\* block size, file, header and bound: the bytes before it, its data, the HDUs after it and
\* the bytes after the last are copied as they are, and no free record is lost.
THEOREM SecondFile == Spec => []SecondFileIsSplice
<1>1. EditorInv => SecondFileIsSplice
  BY InvSplices
<1> QED BY <1>1, EditorInvHolds, PTL

\* A list whose headers read, and open, as they are listed is the scan.
LEMMA ListOfScan ==
    ASSUME NEW f, NEW list, ListFacts(f, list, {}),
           \A i \in 1..Len(list) : OpensFirst(list[i].header, i = 1)
    PROVE  Scan(f) = list
<1>1. /\ IsFile(f) /\ IsSeq(f) /\ Chained(list, Len(f)) /\ Len(list) > 0
      /\ EndFound(f, list) /\ AllRead(f, list, {})
  BY DEF ListFacts, IsFile
<1>2. IsSeq(list) /\ Len(list) \in Nat /\ Len(f) \in Nat
  BY <1>1, LenNat DEF Chained
<1>3. ASSUME NEW i \in 1..Len(list)
      PROVE  LET o == OffsetIn(list, 0, i)
             IN  o \in 0..Len(f) /\ Found(f, o) /\ list[i] = HduOf(Unit(f, o), o)
  <2> DEFINE hdu == list[i]
             o   == hdu.offset
             d   == hdu.data
             w   == hdu.blocks * B
             z   == Len(f)
             cut == SubSeq(f, o + 1, o + B)
  <2>1. HduTyped(hdu) /\ o = OffsetIn(list, 0, i) /\ d <= z
    BY <1>1 DEF Chained
  <2>2. ReadsAs(f, hdu)
    BY <1>1 DEF AllRead
  <2>3. EndBlocks(f, o) # {} /\ hdu = HduOf(Unit(f, o), o) /\ hdu.header[1] = f[o + 1]
    BY <2>2 DEF ReadsAs
  <2>4. (o = 0) = (i = 1)
    BY <1>1, PrimaryIsFirst
  <2>5. OpensFirst(hdu.header, o = 0)
    BY <2>4
  <2>6. o \in Nat /\ d \in Nat /\ d = o + w /\ w \in Nat /\ w >= B
    <3>1. hdu.blocks \in Nat /\ hdu.blocks > 0
      BY <2>1 DEF HduTyped
    <3> DEFINE k == hdu.blocks
    <3>2. k * B >= B
      <4> HIDE DEF k
      <4>1. k \in Nat /\ k > 0
        BY <3>1 DEF k
      <4> QED BY <4>1, BAssumption
    <3> QED BY <2>1, <3>2 DEF HduTyped
  <2>7. z \in Nat /\ B \in Nat /\ B > 0
    BY <1>2, BAssumption
  <2>8. z - o >= B /\ o \in 0..z /\ o + B <= z /\ o <= o + B
    <3> HIDE DEF o, d, w, z
    <3> QED BY <2>1, <2>6, <2>7
  <2>9. cut[1] = f[o + 1]
    <3> HIDE DEF hdu
    <3> HIDE DEF o, z
    <3>1. o + B \in Nat /\ o + B <= Len(f)
      BY <2>6, <2>7, <2>8 DEF z
    <3>2. Slice(f, o, o + B, cut)
      BY <3>1, <2>6, <2>8, <1>1, CutIsHeld
    <3> HIDE DEF cut
    <3>3. 1 \in 1..(o + B) - o /\ o + 1 = o + 1
      BY <2>6, <2>7
    <3> QED BY <3>2, <3>3 DEF Slice
  <2>10. OpensFirst(cut, o = 0)
    BY <2>3, <2>5, <2>9 DEF OpensFirst
  <2>11. Found(f, o)
    BY <2>3, <2>8, <2>10 DEF Found
  <2> QED BY <2>1, <2>3, <2>8, <2>11
<1>4. ScansAs(f, 0, list)
  BY <1>2, <1>3 DEF ScansAs
<1>5. ScansTo(f, 0, list)
  <2>1. Len(list) + 1 # 1 /\ (Len(list) + 1) - 1 = Len(list)
    BY <1>1, <1>2
  <2>2. OffsetIn(list, 0, Len(list) + 1) = DataEnd(list[Len(list)])
    BY <2>1 DEF OffsetIn
  <2> QED BY <2>2, <1>1, <1>4 DEF ScansTo, EndFound
<1> QED BY <1>1, <1>5, ScanIsOne

\* The invariant gives the scan.
LEMMA InvScans == ASSUME EditorInv PROVE ListIsScan
<1> SUFFICES ASSUME torn = {}, AllOpenFirst PROVE hdus = Scan(file)
  BY DEF ListIsScan
<1>1. ListFacts(file, hdus, {})
  BY DEF EditorInv
<1>2. \A i \in 1..Len(hdus) : OpensFirst(hdus[i].header, i = 1)
  BY DEF AllOpenFirst
<1>3. Scan(file) = hdus
  BY <1>1, <1>2, ListOfScan
<1> QED BY <1>3

\* What the editor lists is what a new scan of the file finds, after any sequence of
\* edits in place, into a second file and reopenings, for every block size, file, header
\* and bound, unless a torn header is still there or a caller's header opens with another
\* record.
THEOREM ListScanned == Spec => []ListIsScan
<1>1. EditorInv => ListIsScan
  BY InvScans
<1> QED BY <1>1, EditorInvHolds, PTL

\* The invariant gives the end of the file.
LEMMA InvAppends == ASSUME EditorInv PROVE AppendContinuesWhole
<1> SUFFICES ASSUME phase = "appending", torn = {}, AllOpenFirst
             PROVE  /\ Scan(file) = hdus
                    /\ DataEnd(Scan(file)[Len(Scan(file))]) = Len(file)
  BY DEF AppendContinuesWhole
<1>1. hdus = Scan(file)
  BY InvScans DEF ListIsScan
<1>2. Len(file) = DataEnd(hdus[Len(hdus)])
  BY DEF EditorInv
<1> QED BY <1>1, <1>2

\* `append` hands a FitsWriter a file that ends where its last HDU does, for every block
\* size, file, header and bound.
THEOREM AppendWhole == Spec => []AppendContinuesWhole
<1>1. EditorInv => AppendContinuesWhole
  BY InvAppends
<1> QED BY <1>1, EditorInvHolds, PTL

\* What OnlyTheHeaderChanges says of a step.
HeaderChanges ==
    phase = "writing" =>
          /\ Len(file') = Len(file)
          /\ \A i \in 1..Len(file) : file'[i] # file[i] =>
                i \in hdus[edit.index].offset + 1..hdus[edit.index].data

\* No step of an edit changes a byte outside the header it writes.
LEMMA StepChanges ==
    ASSUME EditorInv, [Next]_vars
    PROVE  HeaderChanges
<1> SUFFICES ASSUME phase = "writing"
             PROVE  /\ Len(file') = Len(file)
                    /\ \A i \in 1..Len(file) : file'[i] # file[i] =>
                          i \in hdus[edit.index].offset + 1..hdus[edit.index].data
  BY DEF HeaderChanges
<1>1. ASSUME NEW n \in 1..Len(edit.bytes), EditWrites(n)
      PROVE  OnlyWithin(file, file', hdus[edit.index])
  BY <1>1, WriteIs DEF WriteOf
<1>2. CASE \E n \in 1..Len(edit.bytes) : EditWrites(n)
  BY <1>1, <1>2 DEF OnlyWithin
<1>3. CASE file' = file
  BY <1>3
<1>4. file' = file \/ \E n \in 1..Len(edit.bytes) : EditWrites(n)
  BY DEF Next, ReplaceHeader, EditFails, EditDone, ReplaceHeaderInto, Rename, Discard,
         AppendHdus, Reopen, vars
<1> QED BY <1>2, <1>3, <1>4

\* An edit in place changes no byte outside the blocks of the header it replaces, and no
\* length, for every block size, file, header and bound, and wherever a write stops.
THEOREM HeaderOnly == Spec => OnlyTheHeaderChanges
<1>1. EditorInv /\ [Next]_vars => [HeaderChanges]_vars
  BY StepChanges
<1>2. Spec => [][HeaderChanges]_vars
  BY <1>1, EditorInvHolds, PTL DEF Spec
<1> QED BY <1>2, PTL DEF OnlyTheHeaderChanges, HeaderChanges


--------------------------------------------------------------------------------
(* The same cells at another place. *)

\* w has at b the cells that f has at a, up to n of them.
Same(f, a, w, b, n) ==
    /\ a + n <= Len(f) /\ b + n <= Len(w)
    /\ \A i \in 1..n : w[b + i] = f[a + i]

\* Their cuts are the same.
SameCuts(f, a, w, b, n) == SubSeq(w, b + 1, b + n) = SubSeq(f, a + 1, a + n)

\* The same cells at another place have the same cut.
LEMMA CutMoved ==
    ASSUME NEW f, IsSeq(f), NEW w, IsSeq(w), NEW a \in Nat, NEW b \in Nat, NEW n \in Nat,
           Same(f, a, w, b, n)
    PROVE  SameCuts(f, a, w, b, n)
<1> DEFINE p == a + n
           q == b + n
           u == SubSeq(f, a + 1, p)
           v == SubSeq(w, b + 1, q)
<1>1. p \in Nat /\ q \in Nat /\ a <= p /\ b <= q /\ p - a = n /\ q - b = n
      /\ p <= Len(f) /\ q <= Len(w)
  BY DEF Same
<1> HIDE DEF p, q
<1>2. Slice(f, a, p, u) /\ Slice(w, b, q, v)
  BY <1>1, CutIsHeld
<1> HIDE DEF u, v
<1>3. /\ IsSeq(u) /\ IsSeq(v) /\ Len(u) = n /\ Len(v) = n
      /\ \A i \in 1..n : v[i] = u[i]
  BY <1>1, <1>2 DEF Slice, Same
<1>4. v = u
  BY <1>3, SeqsEqual
<1> QED BY <1>4 DEF SameCuts, u, v, p, q

\* Fewer of them are the same too.
LEMMA SameFewer ==
    ASSUME NEW f, IsSeq(f), NEW w, IsSeq(w), NEW a \in Nat, NEW b \in Nat, NEW n \in Nat,
           Same(f, a, w, b, n), NEW m \in Nat, NEW k \in Nat, m + k <= n
    PROVE  Same(f, a + m, w, b + m, k)
<1>1. Len(f) \in Nat /\ Len(w) \in Nat
  BY LenNat
<1>2. a + m + k <= Len(f) /\ b + m + k <= Len(w)
  BY <1>1 DEF Same
<1>3. ASSUME NEW i \in 1..k PROVE w[b + m + i] = f[a + m + i]
  <2> DEFINE j == m + i
  <2>1. j \in 1..n /\ b + m + i = b + j /\ a + m + i = a + j
    OBVIOUS
  <2> HIDE DEF j
  <2>2. w[b + j] = f[a + j]
    BY <2>1 DEF Same
  <2> QED BY <2>1, <2>2
<1> QED BY <1>2, <1>3 DEF Same

\* A header unit at another place is the same unit.
LEMMA UnitMoved ==
    ASSUME NEW f, IsSeq(f), NEW w, IsSeq(w), NEW a \in 0..Len(f), NEW b \in Nat,
           EndBlocks(f, a) # {}, Same(f, a, w, b, Len(Unit(f, a)))
    PROVE  EndBlocks(w, b) # {} /\ Unit(w, b) = Unit(f, a)
<1> DEFINE unit == Unit(f, a)
           n == Len(unit)
<1>1. UnitAt(f, a)
  BY UnitOfEnd
<1>2. IsSeq(unit) /\ \E e \in 1..n : EndsUnit(unit, e)
  BY <1>1 DEF UnitAt
<1>3. \A i \in 1..n : unit[i] = f[a + i]
  BY <1>1 DEF UnitAt
<1>4. Holds(w, b, unit)
  <2> HIDE DEF unit
  <2>1. b + n <= Len(w) /\ \A i \in 1..n : w[b + i] = f[a + i]
    BY DEF Same, unit
  <2> QED BY <2>1, <1>3 DEF Holds
<1> HIDE DEF unit
<1>5. PICK e \in 1..n : EndsUnit(unit, e)
  BY <1>2
<1>6. EndBlocks(w, b) # {} /\ Unit(w, b) = unit
  BY <1>2, <1>4, <1>5, UnitOfHeld DEF EndsUnit
<1> QED BY <1>6 DEF unit

\* new is the HDU hdu at another offset.
MovedTo(hdu, new, b) ==
    /\ new.offset = b /\ new.data = b + hdu.blocks * B /\ HduTyped(new)
    /\ new.header = hdu.header /\ new.kind = hdu.kind /\ new.blocks = hdu.blocks

\* A header at another offset reads as the same HDU there.
LEMMA ReadsMoved ==
    ASSUME NEW f, IsSeq(f), NEW w, IsSeq(w), NEW hdu, HduTyped(hdu), hdu.data <= Len(f),
           ReadsAs(f, hdu), NEW b \in Nat, (b = 0) = (hdu.offset = 0),
           Same(f, hdu.offset, w, b, hdu.blocks * B)
    PROVE  LET new == HduOf(Unit(w, b), b)
           IN  ReadsAs(w, new) /\ MovedTo(hdu, new, b)
<1> DEFINE a == hdu.offset
           n == hdu.blocks * B
           unit == Unit(f, a)
           new == HduOf(Unit(w, b), b)
<1>1. /\ a \in Nat /\ n \in Nat /\ n > 0 /\ hdu.data = a + n /\ Len(f) \in Nat
      /\ hdu.blocks \in Nat /\ hdu.kind.len \in Nat
  BY LenNat DEF HduTyped
<1>2. EndBlocks(f, a) # {} /\ hdu = HduOf(unit, a) /\ hdu.header[1] = f[a + 1]
  BY DEF ReadsAs
<1>3. a \in 0..Len(f)
  <2> HIDE DEF a, n
  <2> QED BY <1>1
<1>4. Len(unit) = n
  <2>1. hdu.data = a + Len(unit)
    BY <1>2 DEF HduOf
  <2>2. UnitAt(f, a)
    BY <1>2, <1>3, UnitOfEnd
  <2>3. Len(unit) \in Nat
    BY <2>2 DEF UnitAt
  <2> HIDE DEF unit, a, n
  <2> QED BY <2>1, <2>3, <1>1
<1>5. EndBlocks(w, b) # {} /\ Unit(w, b) = unit
  BY <1>2, <1>3, <1>4, UnitMoved
<1> HIDE DEF a, unit
<1>6. /\ hdu.header = ParseHeader(unit) /\ hdu.blocks = Len(unit) \div B
      /\ hdu.kind = KindOf(ParseHeader(unit), a = 0)
  BY <1>2 DEF HduOf
<1>7. /\ new.offset = b /\ new.header = ParseHeader(unit)
      /\ new.kind = KindOf(ParseHeader(unit), b = 0)
      /\ new.blocks = Len(unit) \div B /\ new.data = b + Len(unit)
  BY <1>5 DEF HduOf
<1>8. new.header = hdu.header /\ new.kind = hdu.kind /\ new.blocks = hdu.blocks
      /\ new.data = b + n
  <2>1. (b = 0) = (a = 0)
    BY DEF a
  <2> QED BY <2>1, <1>4, <1>6, <1>7
<1>9. new = HduOf(Unit(w, b), b)
  OBVIOUS
<1> HIDE DEF new
<1>10. HduTyped(new)
  <2> DEFINE p == PaddedLen(hdu.kind.len)
  <2>1. p \in Nat
    BY <1>1, PaddedNat
  <2>2. DataEnd(new) = (b + n) + p
    BY <1>8 DEF DataEnd
  <2> HIDE DEF p, n
  <2>3. DataEnd(new) \in Nat /\ DataEnd(new) >= b + n /\ b + n \in Nat
    BY <2>1, <2>2, <1>1
  <2> QED BY <2>3, <1>1, <1>7, <1>8 DEF HduTyped, n
<1>11. new.header[1] = w[b + 1]
  <2>1. 1 \in 1..n
    <3> HIDE DEF n
    <3> QED BY <1>1
  <2>2. w[b + 1] = f[a + 1]
    BY <2>1 DEF Same, a
  <2> QED BY <2>2, <1>2, <1>8
<1>12. ReadsAs(w, new)
  BY <1>5, <1>7, <1>9, <1>11 DEF ReadsAs
<1> QED BY <1>7, <1>8, <1>10, <1>12 DEF MovedTo, new

\* The CHECKSUM of a header unit is over it and the data, or the sum was wrong.
SumHolds(unit, header, data) ==
    \/ LET at == Tagged(unit, "checksum")
       IN  at # {} => unit[Least(at)] = Checksum([unit EXCEPT ![Least(at)] = Placeholder], data)
    \/ WrongSum(header, data)

\* That of an HDU in a file.
Sound(f, hdu) == ChecksumValid(f, hdu) \/ WrongSum(hdu.header, DataUnit(f, hdu))

\* It is a fact of the header unit and the data unit alone.
LEMMA SoundIs ==
    ASSUME NEW f, NEW hdu, NEW unit, unit = HeaderUnit(f, hdu)
    PROVE  Sound(f, hdu) = SumHolds(unit, hdu.header, DataUnit(f, hdu))
BY DEF Sound, SumHolds, ChecksumValid

\* An HDU at another offset has the sum it had.
LEMMA SoundMoved ==
    ASSUME NEW f, IsSeq(f), NEW w, IsSeq(w), NEW hdu, HduTyped(hdu), NEW b \in Nat,
           NEW new, MovedTo(hdu, new, b), Same(f, hdu.offset, w, b, DataEnd(hdu) - hdu.offset),
           Sound(f, hdu)
    PROVE  Sound(w, new)
<1> DEFINE a == hdu.offset
           n == hdu.blocks * B
           p == PaddedLen(hdu.kind.len)
           m == DataEnd(hdu) - a
<1>1. /\ a \in Nat /\ n \in Nat /\ hdu.data = a + n /\ hdu.kind.len \in Nat
  BY DEF HduTyped
<1>2. p \in Nat
  BY <1>1, PaddedNat
<1>3. DataEnd(hdu) = (a + n) + p
  BY <1>1 DEF DataEnd
<1>4. new.offset = b /\ new.data = b + n /\ new.header = hdu.header
      /\ DataEnd(new) = (b + n) + p
  BY DEF MovedTo, DataEnd
<1>5. Same(f, a, w, b, m)
  OBVIOUS
<1> HIDE DEF a, n, p
<1>6. m \in Nat /\ 0 + n <= m /\ n + p <= m /\ m = n + p
  BY <1>1, <1>2, <1>3
<1> HIDE DEF m
<1>7. SubSeq(w, b + 1, b + n) = SubSeq(f, a + 1, a + n)
  <2>1. Same(f, a + 0, w, b + 0, n)
    BY <1>1, <1>5, <1>6, SameFewer
  <2>2. Same(f, a, w, b, n)
    BY <2>1, <1>1
  <2>3. SameCuts(f, a, w, b, n)
    BY <2>2, <1>1, CutMoved
  <2> QED BY <2>3 DEF SameCuts
<1>8. SubSeq(w, (b + n) + 1, (b + n) + p) = SubSeq(f, (a + n) + 1, (a + n) + p)
  <2> DEFINE x == a + n
             y == b + n
  <2>1. Same(f, x, w, y, p)
    BY <1>1, <1>2, <1>5, <1>6, SameFewer
  <2>2. x \in Nat /\ y \in Nat
    BY <1>1
  <2> HIDE DEF x, y
  <2>3. SameCuts(f, x, w, y, p)
    BY <2>1, <2>2, <1>2, CutMoved
  <2> QED BY <2>3 DEF SameCuts, x, y
<1>9. HeaderUnit(w, new) = HeaderUnit(f, hdu)
  <2>1. HeaderUnit(f, hdu) = SubSeq(f, a + 1, a + n)
    BY <1>1 DEF HeaderUnit, a
  <2>2. HeaderUnit(w, new) = SubSeq(w, b + 1, b + n)
    BY <1>4 DEF HeaderUnit
  <2> QED BY <2>1, <2>2, <1>7
<1>10. DataUnit(w, new) = DataUnit(f, hdu)
  <2>1. DataUnit(f, hdu) = SubSeq(f, (a + n) + 1, (a + n) + p)
    BY <1>1, <1>3 DEF DataUnit
  <2>2. DataUnit(w, new) = SubSeq(w, (b + n) + 1, (b + n) + p)
    BY <1>4 DEF DataUnit
  <2> QED BY <2>1, <2>2, <1>8
<1>11. SumHolds(HeaderUnit(f, hdu), hdu.header, DataUnit(f, hdu))
  BY SoundIs
<1>12. SumHolds(HeaderUnit(w, new), new.header, DataUnit(w, new))
  BY <1>4, <1>9, <1>10, <1>11
<1> QED BY <1>12, SoundIs

\* Where the cells behind two offsets are the same, the scan finds the same.
LEMMA FoundMoved ==
    ASSUME NEW f, IsSeq(f), NEW w, IsSeq(w), NEW a \in 0..Len(f), NEW b \in 0..Len(w),
           Len(w) - b = Len(f) - a, (b = 0) = (a = 0),
           Same(f, a, w, b, Len(f) - a)
    PROVE  Found(w, b) = Found(f, a)
<1> DEFINE r == Len(f) - a
           n == r \div B
<1>1. /\ B \in Nat /\ B > 0 /\ Len(f) \in Nat /\ Len(w) \in Nat /\ a \in Nat /\ b \in Nat
      /\ r \in Nat /\ Len(w) - b = r
  <2>1. Len(f) \in Nat /\ Len(w) \in Nat
    BY LenNat
  <2> QED BY <2>1, BAssumption
<1>2. Same(f, a, w, b, r)
  OBVIOUS
<1> HIDE DEF r
<1>3. n \in Nat
  BY <1>1, Division
<1>4. ASSUME NEW k \in 1..n, NEW i \in 1..B
      PROVE  w[b + (k - 1) * B + i] = f[a + (k - 1) * B + i]
  <2>1. k \in Nat /\ k <= r \div B
    BY <1>3
  <2>2. k * B <= r
    BY <2>1, <1>1, BlocksFit
  <2>3. k * B = (k - 1) * B + B /\ (k - 1) * B \in Nat
    BY <2>1, <1>1
  <2> DEFINE p == (k - 1) * B
             j == p + i
  <2>4. p \in Nat /\ p + B <= r
    BY <2>2, <2>3
  <2> HIDE DEF p
  <2>5. j \in 1..r /\ b + p + i = b + j /\ a + p + i = a + j
    BY <2>4, <1>1
  <2> HIDE DEF j
  <2>6. w[b + j] = f[a + j]
    BY <2>5, <1>2 DEF Same
  <2>7. w[b + p + i] = f[a + p + i]
    BY <2>5, <2>6
  <2> QED BY <2>7 DEF p
<1>5. EndBlocks(w, b) = EndBlocks(f, a)
  <2>1. EndBlocks(w, b) = {k \in 1..n : \E i \in 1..B : w[b + (k - 1) * B + i] = EndRecord}
    BY <1>1 DEF EndBlocks
  <2>2. EndBlocks(f, a) = {k \in 1..n : \E i \in 1..B : f[a + (k - 1) * B + i] = EndRecord}
    BY DEF EndBlocks, r
  <2> HIDE DEF n
  <2> QED BY <2>1, <2>2, <1>4
<1>6. ASSUME r >= B PROVE SubSeq(w, b + 1, b + B) = SubSeq(f, a + 1, a + B)
  <2>1. 0 + B <= r
    BY <1>6, <1>1
  <2>2. Same(f, a + 0, w, b + 0, B)
    BY <2>1, <1>1, <1>2, SameFewer
  <2>3. Same(f, a, w, b, B)
    BY <2>2, <1>1
  <2>4. SameCuts(f, a, w, b, B)
    BY <2>3, <1>1, CutMoved
  <2> QED BY <2>4 DEF SameCuts
<1>7. Len(f) - a = r
  BY DEF r
<1> QED BY <1>1, <1>5, <1>6, <1>7 DEF Found

\* What a scan finds is listed, from the first HDU on.
LEMMA ScanIsPrefix ==
    ASSUME NEW f, NEW list, ListFacts(f, list, {})
    PROVE  \A i \in 1..Len(Scan(f)) : i \in 1..Len(list) /\ Scan(f)[i] = list[i]
<1> DEFINE scan == Scan(f)
           n == Len(scan)
           fails == {i \in 1..n : ~(i \in 1..Len(list) /\ scan[i] = list[i])}
<1>1. /\ IsFile(f) /\ IsSeq(f) /\ Chained(list, Len(f)) /\ Len(list) > 0
      /\ EndFound(f, list) /\ AllRead(f, list, {})
  BY DEF ListFacts, IsFile
<1>2. Len(list) \in Nat /\ Len(f) \in Nat
  BY <1>1, LenNat DEF Chained
<1>3. ScansAs(f, 0, scan)
  BY <1>1, ScanShape DEF ScansTo
<1> HIDE DEF scan
<1>4. n \in Nat
  BY <1>3, LenNat DEF ScansAs
<1>5. fails = {}
  <2>1. SUFFICES ASSUME fails # {} PROVE FALSE
    OBVIOUS
  <2> DEFINE m == Least(fails)
  <2>2. m \in fails /\ \A k \in fails : m <= k
    <3>1. fails \in SUBSET Nat
      BY <1>4
    <3> HIDE DEF fails
    <3> QED BY <3>1, <2>1, LeastOf
  <2> HIDE DEF m
  <2>3. m \in 1..n /\ m \in Nat
    BY <2>2, <1>4
  <2> DEFINE o == OffsetIn(scan, 0, m)
  <2>4. o \in 0..Len(f) /\ Found(f, o) /\ scan[m] = HduOf(Unit(f, o), o)
    BY <2>3, <1>3 DEF ScansAs
  <2>5. m = 1 \/ (m - 1 \in 1..Len(list) /\ scan[m - 1] = list[m - 1])
    <3>1. CASE m = 1
      BY <3>1
    <3>2. CASE m # 1
      <4>1. m - 1 \in 1..n /\ ~(m <= m - 1)
        BY <3>2, <2>3, <1>4
      <4>2. m - 1 \notin fails
        BY <4>1, <2>2
      <4> QED BY <4>1, <4>2
    <3> QED BY <3>1, <3>2
  <2>6. CASE m \in 1..Len(list)
    <3>1. o = list[m].offset
      <4>1. o = OffsetIn(list, 0, m)
        BY <2>5 DEF OffsetIn
      <4> QED BY <4>1, <2>6, <1>1 DEF Chained
    <3>2. ReadsAs(f, list[m])
      BY <2>6, <1>1 DEF AllRead
    <3>3. list[m] = HduOf(Unit(f, o), o)
      BY <3>1, <3>2 DEF ReadsAs
    <3> QED BY <3>3, <2>2, <2>4, <2>6
  <2>7. CASE m \notin 1..Len(list)
    <3>1. m - 1 = Len(list) /\ m # 1
      BY <2>3, <2>5, <2>7, <1>1, <1>2
    <3>2. o = DataEnd(list[Len(list)])
      BY <3>1, <2>5 DEF OffsetIn
    <3> QED BY <3>2, <2>4, <1>1 DEF EndFound
  <2> QED BY <2>6, <2>7
<1> HIDE DEF n
<1>6. \A i \in 1..n : i \in 1..Len(list) /\ scan[i] = list[i]
  BY <1>5
<1> QED BY <1>6 DEF scan, n


--------------------------------------------------------------------------------
(* A file with one header for another. *)

\* w is the file with a unit for the cells from o to e, cell by cell.
SplicedAt(f, unit, o, e, w) ==
    /\ IsFile(w) /\ IsSeq(w) /\ Len(w) = (o + Len(unit)) + (Len(f) - e)
    /\ Same(f, 0, w, 0, o)
    /\ Same(unit, 0, w, o, Len(unit))
    /\ Same(f, e, w, o + Len(unit), Len(f) - e)

\* The cells of a file with a unit for those between two positions.
LEMMA SpliceCells ==
    ASSUME NEW f, IsFile(f), NEW unit, IsFile(unit), NEW o \in Nat, NEW e \in Nat,
           o <= e, e <= Len(f), NEW w, w = (Cut(f, 0, o) \o unit) \o Cut(f, e, Len(f))
    PROVE  SplicedAt(f, unit, o, e, w)
<1> DEFINE head == Cut(f, 0, o)
           tail == Cut(f, e, Len(f))
           both == head \o unit
           z    == Len(f)
           m    == Len(unit)
<1>1. IsSeq(f) /\ IsSeq(unit) /\ z \in Nat /\ m \in Nat
  BY LenNat DEF IsFile
<1>2. 0 <= o /\ o <= Len(f) /\ z <= Len(f) /\ 0 \in Nat /\ z \in Nat
  BY <1>1
<1>3. IsFile(head) /\ IsFile(tail)
  <2>1. IsFile(SubSeq(f, 0 + 1, o))
    BY <1>2, CutIsFile
  <2>2. IsFile(SubSeq(f, e + 1, z))
    BY <1>2, CutIsFile
  <2> QED BY <2>1, <2>2 DEF Cut
<1>4. IsSeq(head) /\ Len(head) = o /\ \A i \in 1..o : head[i] = f[i]
  <2>1. Slice(f, 0, o, head)
    BY <1>1, <1>2, CutSlices
  <2> HIDE DEF head
  <2>2. IsSeq(head) /\ Len(head) = o - 0 /\ \A i \in 1..o - 0 : head[i] = f[0 + i]
    BY <2>1 DEF Slice
  <2>3. o - 0 = o /\ \A i \in 1..o : 0 + i = i
    OBVIOUS
  <2> QED BY <2>2, <2>3
<1>5. IsSeq(tail) /\ Len(tail) = z - e /\ \A i \in 1..z - e : tail[i] = f[e + i]
  <2>1. Slice(f, e, z, tail)
    BY <1>1, <1>2, CutSlices
  <2> HIDE DEF tail
  <2> QED BY <2>1 DEF Slice
<1>6. w = both \o tail
  OBVIOUS
<1> HIDE DEF head, tail
<1>7. Joins(head, unit, both) /\ IsFile(both)
  BY <1>1, <1>3, <1>4, ConcatIsSeq, JoinIsFile
<1> HIDE DEF both
<1>8. Joins(both, tail, w) /\ IsFile(w)
  <2>1. IsSeq(both)
    BY <1>7 DEF Joins
  <2> QED BY <2>1, <1>3, <1>5, <1>6, <1>7, ConcatIsSeq, JoinIsFile
<1>9. IsSeq(both) /\ Len(both) = o + m
  BY <1>4, <1>7 DEF Joins
<1>10. IsSeq(w) /\ Len(w) = (o + m) + (z - e)
  BY <1>5, <1>8, <1>9 DEF Joins
<1>11. \A i \in 1..o + m : w[i] = both[i]
  BY <1>8, <1>9 DEF Joins
<1>12. Same(f, 0, w, 0, o)
  <2> HIDE DEF m
  <2>1. ASSUME NEW i \in 1..o PROVE w[0 + i] = f[0 + i]
    <3>1. 0 + i = i /\ i \in 1..o + m
      BY <1>1
    <3>2. both[i] = head[i]
      BY <1>4, <1>7 DEF Joins
    <3> QED BY <3>1, <3>2, <1>4, <1>11
  <2>2. 0 + o <= Len(f) /\ 0 + o <= Len(w)
    <3> HIDE DEF z
    <3> QED BY <1>1, <1>2, <1>10 DEF z
  <2> QED BY <2>1, <2>2 DEF Same
<1>13. Same(unit, 0, w, o, m)
  <2>1. ASSUME NEW i \in 1..m PROVE w[o + i] = unit[0 + i]
    <3>1. both[o + i] = unit[i]
      BY <1>4, <1>7 DEF Joins
    <3> HIDE DEF m
    <3>2. 0 + i = i /\ o + i \in 1..o + m
      BY <1>1
    <3> QED BY <3>1, <3>2, <1>11
  <2>2. 0 + m <= Len(unit) /\ o + m <= Len(w)
    <3>1. 0 + m <= Len(unit)
      BY <1>1
    <3> HIDE DEF z, m
    <3> QED BY <3>1, <1>1, <1>2, <1>10 DEF z
  <2> HIDE DEF m
  <2> QED BY <2>1, <2>2 DEF Same
<1>14. Same(f, e, w, o + m, z - e)
  <2>1. \A i \in 1..z - e : w[(o + m) + i] = tail[i]
    BY <1>5, <1>8, <1>9 DEF Joins
  <2>2. e + (z - e) <= Len(f) /\ (o + m) + (z - e) <= Len(w)
    <3> HIDE DEF m
    <3> QED BY <1>1, <1>2, <1>10
  <2> QED BY <2>1, <2>2, <1>5 DEF Same
<1> QED BY <1>8, <1>10, <1>12, <1>13, <1>14 DEF SplicedAt

\* A splice of one header of a list whose other HDUs are sound.
Splicing(f, list, index, unit, new, spare, w) ==
    /\ IsFile(f) /\ Chained(list, Len(f)) /\ index \in 1..Len(list)
    /\ DataEnd(list[Len(list)]) <= Len(f)
    /\ EndFound(f, list)
    /\ EditedAs(unit, new, list[index], spare)
    /\ SplicedAt(f, unit, list[index].offset, list[index].data, w)
    /\ \A j \in 1..Len(list) : j # index => ReadsAs(f, list[j]) /\ Sound(f, list[j])
    /\ SumHolds(unit, new.header, DataUnit(f, list[index]))

\* Where the splice puts an HDU, and where it ends there.
PutAt(list, index, m, j) ==
    IF j <= index THEN list[j].offset
    ELSE (list[index].offset + m) + (list[j].offset - list[index].data)
PutEnd(list, index, m, j) ==
    IF j < index THEN DataEnd(list[j])
    ELSE (list[index].offset + m) + (DataEnd(list[j]) - list[index].data)

\* The HDU there reads as one and has its sum.
PutAs(h, w, at, end) ==
    /\ h.offset = at /\ HduTyped(h) /\ ReadsAs(w, h) /\ Sound(w, h)
    /\ DataEnd(h) = end /\ end <= Len(w)

\* The HDUs lie in the file.
LEMMA EndsInside ==
    ASSUME NEW list, NEW size \in Nat, Chained(list, size), Len(list) > 0,
           DataEnd(list[Len(list)]) <= size, NEW j \in 1..Len(list)
    PROVE  DataEnd(list[j]) <= size
<1> DEFINE n == Len(list)
<1>1. n \in Nat /\ n \in 1..n
  BY DEF Chained
<1>2. CASE j = n
  BY <1>2
<1>3. CASE j # n
  <2> DEFINE a == list[n].offset
             b == list[n].data
             c == DataEnd(list[n])
             d == DataEnd(list[j])
  <2>1. j < n
    BY <1>1, <1>3
  <2>2. d <= a
    BY <2>1, <1>1, Ordered
  <2>3. Extent(list[n]) /\ Extent(list[j])
    BY <1>1, HduExtent DEF Chained
  <2>4. a \in Nat /\ b \in Nat /\ c \in Nat /\ d \in Nat /\ a < b /\ b <= c /\ c <= size
    BY <2>3 DEF Extent
  <2> HIDE DEF a, b, c, d
  <2>5. d <= size
    BY <2>2, <2>4
  <2> QED BY <2>5 DEF d
<1> QED BY <1>2, <1>3

\* An HDU that the splice keeps, k cells from where its file's cells are the same.
LEMMA PutKept ==
    ASSUME NEW f, IsSeq(f), NEW w, IsSeq(w), NEW hdu, HduTyped(hdu), hdu.data <= Len(f),
           ReadsAs(f, hdu), Sound(f, hdu), NEW b \in Nat, (b = 0) = (hdu.offset = 0),
           Same(f, hdu.offset, w, b, DataEnd(hdu) - hdu.offset)
    PROVE  PutAs(HduOf(Unit(w, b), b), w, b, b + (DataEnd(hdu) - hdu.offset))
<1> DEFINE h == HduOf(Unit(w, b), b)
           a == hdu.offset
           n == hdu.blocks * B
           p == PaddedLen(hdu.kind.len)
           m == DataEnd(hdu) - a
<1>1. /\ a \in Nat /\ n \in Nat /\ hdu.data = a + n /\ hdu.kind.len \in Nat
  BY DEF HduTyped
<1>2. p \in Nat
  BY <1>1, PaddedNat
<1>3. DataEnd(hdu) = (a + n) + p
  BY <1>1 DEF DataEnd
<1>4. Same(f, a, w, b, m)
  OBVIOUS
<1>5. m \in Nat /\ m = n + p /\ 0 + n <= m
  <2> HIDE DEF a, n, p
  <2> QED BY <1>1, <1>2, <1>3
<1>6. Same(f, a, w, b, n)
  <2> HIDE DEF a, m, n
  <2>1. Same(f, a + 0, w, b + 0, n)
    BY <1>1, <1>4, <1>5, SameFewer
  <2> QED BY <2>1, <1>1
<1>7. ReadsAs(w, h) /\ MovedTo(hdu, h, b)
  BY <1>6, ReadsMoved
<1> HIDE DEF h
<1>8. Sound(w, h)
  BY <1>4, <1>7, SoundMoved
<1>9. DataEnd(h) = (b + n) + p
  BY <1>7 DEF MovedTo, DataEnd
<1>10. DataEnd(h) = b + m
  <2> HIDE DEF m, n, p
  <2> QED BY <1>1, <1>2, <1>5, <1>9
<1>11. b + m <= Len(w)
  BY <1>4 DEF Same
<1> QED BY <1>7, <1>8, <1>10, <1>11 DEF PutAs, MovedTo, h

\* The splice has the HDU j where PutAt says.
Puts(list, index, m, j, w) ==
    LET at == PutAt(list, index, m, j)
    IN  PutAs(HduOf(Unit(w, at), at), w, at, PutEnd(list, index, m, j))

\* The HDUs before the header are where they were.
LEMMA PutsBefore ==
    ASSUME NEW f, NEW list, NEW index, NEW unit, NEW new, NEW spare, NEW w,
           Splicing(f, list, index, unit, new, spare, w),
           NEW j \in 1..Len(list), j < index
    PROVE  Puts(list, index, Len(unit), j, w)
<1> DEFINE hdu == list[j]
           a == hdu.offset
           d == DataEnd(hdu)
           o == list[index].offset
           k == d - a
<1>1. /\ IsSeq(f) /\ IsSeq(w) /\ Chained(list, Len(f)) /\ index \in 1..Len(list)
      /\ HduTyped(hdu) /\ hdu.data <= Len(f) /\ ReadsAs(f, hdu) /\ Sound(f, hdu)
  <2>1. j # index
    BY DEF Splicing, Chained
  <2> QED BY <2>1 DEF Splicing, SplicedAt, IsFile, Chained
<1>2. d <= o
  BY <1>1, Ordered
<1>3. Extent(hdu) /\ Extent(list[index])
  BY <1>1, HduExtent DEF Chained
<1>4. a \in Nat /\ d \in Nat /\ o \in Nat /\ a <= d
  <2>1. a \in Nat /\ d \in Nat /\ o \in Nat /\ a < hdu.data /\ hdu.data <= d /\ hdu.data \in Nat
    BY <1>3 DEF Extent
  <2> HIDE DEF a, d, o
  <2> QED BY <2>1
<1>5. Same(f, 0, w, 0, o)
  BY DEF Splicing, SplicedAt
<1>6. Same(f, a, w, a, k)
  <2> HIDE DEF a, d, o
  <2>1. k \in Nat /\ a + k <= o /\ 0 \in Nat
    BY <1>2, <1>4
  <2> HIDE DEF k
  <2>2. Same(f, 0 + a, w, 0 + a, k)
    BY <2>1, <1>1, <1>4, <1>5, SameFewer
  <2> QED BY <2>2, <1>4
<1>7. PutAs(HduOf(Unit(w, a), a), w, a, a + k)
  BY <1>1, <1>4, <1>6, PutKept
<1>8. PutAt(list, index, Len(unit), j) = a /\ PutEnd(list, index, Len(unit), j) = d
  <2>1. j <= index
    BY <1>1 DEF Chained
  <2> QED BY <2>1 DEF PutAt, PutEnd
<1>9. a + k = d
  <2> HIDE DEF a, d
  <2> QED BY <1>4
<1> HIDE DEF a, d, k
<1> QED BY <1>7, <1>8, <1>9 DEF Puts

\* The HDUs after it are where its length takes them.
LEMMA PutsAfter ==
    ASSUME NEW f, NEW list, NEW index, NEW unit, NEW new, NEW spare, NEW w,
           Splicing(f, list, index, unit, new, spare, w),
           NEW j \in 1..Len(list), j > index
    PROVE  Puts(list, index, Len(unit), j, w)
<1> DEFINE hdu == list[j]
           a == hdu.offset
           d == DataEnd(hdu)
           o == list[index].offset
           e == list[index].data
           c == DataEnd(list[index])
           m == Len(unit)
           q == o + m
           z == Len(f)
           b == q + (a - e)
           k == d - a
<1>1. /\ IsSeq(f) /\ IsSeq(w) /\ Chained(list, Len(f)) /\ index \in 1..Len(list)
      /\ HduTyped(hdu) /\ hdu.data <= Len(f) /\ ReadsAs(f, hdu) /\ Sound(f, hdu)
  <2>1. j # index
    BY DEF Splicing, Chained
  <2> QED BY <2>1 DEF Splicing, SplicedAt, IsFile, Chained
<1>2. c <= a
  BY <1>1, Ordered
<1>3. Extent(hdu) /\ Extent(list[index])
  BY <1>1, HduExtent DEF Chained
<1>4. d <= z
  <2>1. Len(list) > 0 /\ z \in Nat /\ DataEnd(list[Len(list)]) <= z
    BY <1>1, LenNat DEF Splicing, Chained
  <2> QED BY <2>1, <1>1, EndsInside
<1>5. /\ a \in Nat /\ d \in Nat /\ o \in Nat /\ e \in Nat /\ c \in Nat /\ z \in Nat
      /\ a < d /\ e <= c /\ e > 0
  <2>1. /\ a \in Nat /\ d \in Nat /\ o \in Nat /\ e \in Nat /\ c \in Nat /\ o < e /\ e <= c
        /\ a < hdu.data /\ hdu.data <= d /\ hdu.data \in Nat /\ z \in Nat
    BY <1>1, <1>3, LenNat DEF Extent
  <2> HIDE DEF a, d, o, e, c, z
  <2> QED BY <2>1
<1>6. m \in Nat /\ m > 0
  BY DEF Splicing, EditedAs, HduTyped
<1>7. Same(f, e, w, q, z - e)
  BY DEF Splicing, SplicedAt
<1> HIDE DEF a, d, o, e, c, m, z
<1>8. /\ q \in Nat /\ b \in Nat /\ k \in Nat /\ a - e \in Nat /\ (a - e) + k <= z - e
      /\ e + (a - e) = a /\ b # 0 /\ a # 0 /\ z - e \in Nat
      /\ b + k = q + (d - e)
  BY <1>2, <1>4, <1>5, <1>6
<1>9. Same(f, a, w, b, k)
  <2> HIDE DEF q, k
  <2>1. Same(f, e + (a - e), w, q + (a - e), k)
    BY <1>1, <1>5, <1>7, <1>8, SameFewer
  <2> QED BY <2>1, <1>8
<1>10. (b = 0) = (a = 0)
  BY <1>8
<1> HIDE DEF b
<1>11. PutAs(HduOf(Unit(w, b), b), w, b, b + k)
  BY <1>1, <1>8, <1>9, <1>10, PutKept DEF a, d
<1>12. PutAt(list, index, m, j) = b /\ PutEnd(list, index, m, j) = q + (d - e)
  <2>1. ~(j <= index) /\ ~(j < index)
    BY <1>1 DEF Chained
  <2> QED BY <2>1 DEF PutAt, PutEnd, b, a, o, e, d
<1> HIDE DEF q, k
<1> QED BY <1>8, <1>11, <1>12 DEF Puts, m

\* The header is where it was, and its data behind it.
LEMMA PutsEdited ==
    ASSUME NEW f, NEW list, NEW index, NEW unit, NEW new, NEW spare, NEW w,
           Splicing(f, list, index, unit, new, spare, w)
    PROVE  Puts(list, index, Len(unit), index, w)
<1> DEFINE old == list[index]
           o == old.offset
           e == old.data
           m == Len(unit)
           q == o + m
           z == Len(f)
           p == PaddedLen(old.kind.len)
<1>1. /\ IsSeq(f) /\ IsSeq(w) /\ IsSeq(unit) /\ Chained(list, Len(f)) /\ index \in 1..Len(list)
      /\ HduTyped(old) /\ e <= z
  BY DEF Splicing, SplicedAt, EditedAs, IsFile, Chained
<1>2. EditedAs(unit, new, old, spare)
  BY DEF Splicing
<1>3. HduTyped(new) /\ new.offset = o /\ new.kind = old.kind /\ m = new.blocks * B
  BY <1>2 DEF EditedAs
<1>4. o \in Nat /\ e \in Nat /\ z \in Nat /\ m \in Nat /\ p \in Nat /\ old.kind.len \in Nat
  BY <1>1, LenNat, PaddedNat DEF HduTyped
<1>5. new.data = q
  BY <1>3 DEF HduTyped
<1>6. DataEnd(new) = q + p /\ DataEnd(old) = e + p
  BY <1>3, <1>5 DEF DataEnd
<1>7. e + p <= z
  <2>1. Len(list) > 0 /\ z \in Nat /\ DataEnd(list[Len(list)]) <= z
    BY <1>1, LenNat DEF Splicing, Chained
  <2>2. DataEnd(old) <= z
    BY <2>1, <1>1, EndsInside
  <2> QED BY <2>2, <1>6
<1>8. Same(unit, 0, w, o, m) /\ Same(f, e, w, q, z - e)
  BY DEF Splicing, SplicedAt
<1>9. \A i \in 1..m : w[o + i] = unit[i]
  <2>1. \A i \in 1..m : w[o + i] = unit[0 + i]
    BY <1>8 DEF Same
  <2> QED BY <2>1, <1>4
<1>10. q <= Len(w)
  BY <1>8 DEF Same
<1>11. ReadsAs(w, new)
  BY <1>1, <1>2, <1>5, <1>9, <1>10, EditReads
<1>12. HeaderUnit(w, new) = unit
  <2>1. Holds(w, o, unit)
    BY <1>9, <1>10 DEF Holds
  <2>2. SubSeq(w, o + 1, o + Len(unit)) = unit
    BY <2>1, <1>1, <1>4, SubSeqOfHeld
  <2> QED BY <2>2, <1>3, <1>5 DEF HeaderUnit
<1> HIDE DEF o, e, m, z, p, old
<1>13. q \in Nat /\ z - e \in Nat /\ 0 + p <= z - e /\ e + 0 = e /\ q + 0 = q /\ 0 \in Nat
  BY <1>1, <1>4, <1>7
<1>14. Same(f, e, w, q, p)
  <2> HIDE DEF q
  <2>1. Same(f, e + 0, w, q + 0, p)
    BY <1>1, <1>4, <1>8, <1>13, SameFewer
  <2> QED BY <2>1, <1>13
<1>15. DataUnit(w, new) = DataUnit(f, old)
  <2> HIDE DEF q
  <2>1. SameCuts(f, e, w, q, p)
    BY <1>1, <1>4, <1>13, <1>14, CutMoved
  <2>2. DataUnit(w, new) = SubSeq(w, q + 1, q + p)
    BY <1>5, <1>6 DEF DataUnit
  <2>3. DataUnit(f, old) = SubSeq(f, e + 1, e + p)
    BY <1>6 DEF DataUnit, e
  <2> QED BY <2>1, <2>2, <2>3 DEF SameCuts
<1>16. Sound(w, new)
  <2>1. SumHolds(unit, new.header, DataUnit(f, old))
    BY DEF Splicing, old
  <2>2. SumHolds(HeaderUnit(w, new), new.header, DataUnit(w, new))
    BY <2>1, <1>12, <1>15
  <2> QED BY <2>2, SoundIs
<1>17. q + p <= Len(w)
  BY <1>14 DEF Same
<1>18. PutAs(new, w, o, q + p)
  BY <1>3, <1>6, <1>11, <1>16, <1>17 DEF PutAs
<1>19. new = HduOf(Unit(w, o), o)
  BY <1>3, <1>11 DEF ReadsAs
<1>20. PutAt(list, index, m, index) = o /\ PutEnd(list, index, m, index) = q + p
  <2>1. PutAt(list, index, m, index) = o
    <3>1. index <= index
      BY <1>1 DEF Chained
    <3> QED BY <3>1 DEF PutAt, o, old
  <2>2. PutEnd(list, index, m, index) = q + (DataEnd(old) - e)
    <3>1. ~(index < index)
      BY <1>1 DEF Chained
    <3> QED BY <3>1 DEF PutEnd, o, old, e
  <2>3. DataEnd(old) - e = p
    BY <1>4, <1>6
  <2> QED BY <2>1, <2>2, <2>3
<1> QED BY <1>18, <1>19, <1>20 DEF Puts, m

\* Each HDU reads, and has its sum, in the splice.
LEMMA PutsEach ==
    ASSUME NEW f, NEW list, NEW index, NEW unit, NEW new, NEW spare, NEW w,
           Splicing(f, list, index, unit, new, spare, w), NEW j \in 1..Len(list)
    PROVE  Puts(list, index, Len(unit), j, w)
<1>1. index \in 1..Len(list) /\ Len(list) \in Nat
  BY DEF Splicing, Chained
<1>2. j < index \/ j = index \/ j > index
  BY <1>1
<1> QED BY <1>2, PutsBefore, PutsEdited, PutsAfter

\* The HDUs of the list where the splice puts them.
Moved(list, index, m, w) ==
    [j \in 1..Len(list) |-> HduOf(Unit(w, PutAt(list, index, m, j)), PutAt(list, index, m, j))]

MovedFacts(list, index, m, w, moved) ==
    /\ IsSeq(moved) /\ Len(moved) = Len(list)
    /\ \A j \in 1..Len(list) :
          PutAs(moved[j], w, PutAt(list, index, m, j), PutEnd(list, index, m, j))

\* Each of them is one.
LEMMA MovedShape ==
    ASSUME NEW f, NEW list, NEW index, NEW unit, NEW new, NEW spare, NEW w,
           Splicing(f, list, index, unit, new, spare, w)
    PROVE  MovedFacts(list, index, Len(unit), w, Moved(list, index, Len(unit), w))
<1> DEFINE m == Len(unit)
           moved == Moved(list, index, m, w)
           n == Len(list)
<1>1. n \in Nat
  BY DEF Splicing, Chained
<1>2. moved = [j \in 1..n |-> HduOf(Unit(w, PutAt(list, index, m, j)), PutAt(list, index, m, j))]
  BY DEF Moved
<1>3. \A j \in 1..n : Puts(list, index, m, j, w)
  BY PutsEach
<1> HIDE DEF moved, m
<1>4. \A j \in 1..n :
         moved[j] = HduOf(Unit(w, PutAt(list, index, m, j)), PutAt(list, index, m, j))
  BY <1>2
<1>5. IsSeq(moved) /\ Len(moved) = n
  <2>1. moved = [j \in 1..n |-> moved[j]]
    BY <1>2, <1>4
  <2> HIDE DEF n
  <2> QED BY <2>1, <1>1, FunIsSeq
<1>6. ASSUME NEW j \in 1..n
      PROVE  PutAs(moved[j], w, PutAt(list, index, m, j), PutEnd(list, index, m, j))
  BY <1>3, <1>4 DEF Puts
<1> QED BY <1>5, <1>6 DEF MovedFacts, moved, m

\* Each starts where the one before it ends.
LEMMA PutsInTurn ==
    ASSUME NEW list, NEW size, Chained(list, size), NEW index \in 1..Len(list), NEW m \in Nat,
           NEW j \in 1..Len(list)
    PROVE  PutAt(list, index, m, j) = IF j = 1 THEN 0 ELSE PutEnd(list, index, m, j - 1)
<1>1. list[j].offset = OffsetIn(list, 0, j) /\ Len(list) \in Nat
  BY DEF Chained
<1>2. CASE j = 1
  <2>1. j <= index
    BY <1>1, <1>2
  <2> QED BY <2>1, <1>1, <1>2 DEF PutAt, OffsetIn
<1>3. CASE j # 1
  <2>1. list[j].offset = DataEnd(list[j - 1])
    BY <1>1, <1>3 DEF OffsetIn
  <2>2. CASE j <= index
    <3>1. j - 1 < index
      BY <2>2, <1>1
    <3> QED BY <3>1, <2>1, <2>2, <1>3 DEF PutAt, PutEnd
  <2>3. CASE ~(j <= index)
    <3>1. ~(j - 1 < index)
      BY <2>3, <1>1
    <3> QED BY <3>1, <2>1, <2>3, <1>3 DEF PutAt, PutEnd
  <2> QED BY <2>2, <2>3
<1> QED BY <1>2, <1>3

\* No HDU is found behind the last of them.
LEMMA MovedEnd ==
    ASSUME NEW f, NEW list, NEW index, NEW unit, NEW new, NEW spare, NEW w,
           Splicing(f, list, index, unit, new, spare, w),
           NEW moved, MovedFacts(list, index, Len(unit), w, moved)
    PROVE  EndFound(w, moved)
<1> DEFINE n == Len(list)
           z == Len(f)
           o == list[index].offset
           e == list[index].data
           d == DataEnd(list[n])
           m == Len(unit)
           q == o + m
           b == q + (d - e)
<1>1. IsSeq(f) /\ IsSeq(w) /\ Chained(list, z) /\ index \in 1..n /\ n \in Nat
  BY DEF Splicing, SplicedAt, IsFile, Chained
<1>2. n \in 1..n
  BY <1>1
<1>3. DataEnd(moved[Len(moved)]) = b
  <2>1. DataEnd(moved[n]) = PutEnd(list, index, m, n)
    BY <1>2 DEF MovedFacts, PutAs
  <2>2. ~(n < index)
    BY <1>1
  <2> QED BY <2>1, <2>2 DEF MovedFacts, PutEnd
<1>4. Extent(list[index]) /\ Extent(list[n])
  BY <1>1, <1>2, HduExtent DEF Chained
<1>5. e <= d
  <2> DEFINE c == DataEnd(list[index])
             a == list[n].offset
             g == list[n].data
  <2>1. CASE index = n
    BY <2>1, <1>4 DEF Extent
  <2>2. CASE index # n
    <3>1. index < n
      BY <2>2, <1>1
    <3>2. c <= a
      BY <3>1, <1>1, <1>2, Ordered
    <3>3. /\ e \in Nat /\ c \in Nat /\ a \in Nat /\ d \in Nat /\ g \in Nat
          /\ e <= c /\ a < g /\ g <= d
      BY <1>4 DEF Extent
    <3> HIDE DEF e, c, a, d, g
    <3> QED BY <3>2, <3>3
  <2> QED BY <2>1, <2>2
<1>6. o \in Nat /\ e \in Nat /\ d \in Nat /\ o < e
  BY <1>4 DEF Extent
<1>7. m \in Nat /\ m > 0
  BY DEF Splicing, EditedAs, HduTyped
<1>8. d <= z /\ EndFound(f, list)
  BY DEF Splicing
<1>9. Len(w) = q + (z - e) /\ Same(f, e, w, q, z - e)
  BY DEF Splicing, SplicedAt
<1>10. z \in Nat
  BY <1>1, LenNat
<1>11. ~Found(f, d)
  <2>1. d \in 0..z
    <3> HIDE DEF d, z
    <3> QED BY <1>6, <1>8, <1>10
  <2> QED BY <2>1, <1>8 DEF EndFound
<1> HIDE DEF o, e, d, m, z
<1>12. /\ q \in Nat /\ b \in Nat /\ d - e \in Nat /\ z - d \in Nat /\ z - e \in Nat
       /\ (d - e) + (z - d) <= z - e /\ e + (d - e) = d /\ d \in 0..z
       /\ b # 0 /\ d # 0
  BY <1>5, <1>6, <1>7, <1>8, <1>10
<1>13. Len(w) - b = z - d /\ b <= Len(w)
  BY <1>5, <1>6, <1>7, <1>8, <1>9, <1>10
<1>14. Same(f, d, w, b, z - d)
  <2> HIDE DEF q
  <2>1. Same(f, e + (d - e), w, q + (d - e), z - d)
    BY <1>1, <1>6, <1>9, <1>12, SameFewer
  <2> QED BY <2>1, <1>12
<1>15. (b = 0) = (d = 0) /\ b \in 0..Len(w)
  <2>1. Len(w) \in Nat
    BY <1>1, LenNat
  <2> HIDE DEF b
  <2> QED BY <2>1, <1>12, <1>13
<1> HIDE DEF b
<1>16. Found(w, b) = Found(f, d)
  BY <1>1, <1>12, <1>13, <1>14, <1>15, FoundMoved DEF z
<1>17. ~Found(w, b)
  BY <1>11, <1>16
<1> QED BY <1>3, <1>17 DEF EndFound

\* They are the HDUs of the splice, end to end.
LEMMA MovedListed ==
    ASSUME NEW f, NEW list, NEW index, NEW unit, NEW new, NEW spare, NEW w,
           Splicing(f, list, index, unit, new, spare, w),
           NEW moved, MovedFacts(list, index, Len(unit), w, moved)
    PROVE  ListFacts(w, moved, {})
<1> DEFINE m == Len(unit)
           n == Len(list)
<1>1. /\ IsFile(w) /\ Chained(list, Len(f)) /\ index \in 1..n /\ n \in Nat /\ m \in Nat
      /\ IsSeq(moved) /\ Len(moved) = n
  BY DEF Splicing, SplicedAt, EditedAs, HduTyped, Chained, MovedFacts
<1>2. ASSUME NEW j \in 1..n
      PROVE  /\ HduTyped(moved[j]) /\ moved[j].offset = PutAt(list, index, m, j)
             /\ ReadsAs(w, moved[j]) /\ DataEnd(moved[j]) = PutEnd(list, index, m, j)
             /\ DataEnd(moved[j]) <= Len(w)
  BY DEF MovedFacts, PutAs
<1> HIDE DEF m
<1>3. ASSUME NEW j \in 1..n PROVE moved[j].offset = OffsetIn(moved, 0, j)
  <2>1. PutAt(list, index, m, j) = IF j = 1 THEN 0 ELSE PutEnd(list, index, m, j - 1)
    BY <1>1, PutsInTurn
  <2>2. j # 1 => j - 1 \in 1..n
    BY <1>1
  <2> QED BY <2>1, <2>2, <1>2 DEF OffsetIn
<1>4. ASSUME NEW j \in 1..n PROVE moved[j].data <= Len(w)
  <2> DEFINE x == moved[j].data
             y == DataEnd(moved[j])
  <2>1. x \in Nat /\ y \in Nat /\ x <= y
    BY <1>2, HduExtent DEF Extent
  <2>2. y <= Len(w) /\ Len(w) \in Nat
    BY <1>1, <1>2, LenNat DEF IsFile
  <2> HIDE DEF x, y
  <2>3. x <= Len(w)
    BY <2>1, <2>2
  <2> QED BY <2>3 DEF x
<1>5. Chained(moved, Len(w))
  BY <1>1, <1>2, <1>3, <1>4 DEF Chained
<1>6. EndFound(w, moved)
  BY MovedEnd
<1>7. AllRead(w, moved, {})
  BY <1>1, <1>2 DEF AllRead
<1>8. Len(moved) > 0
  BY <1>1
<1> QED BY <1>1, <1>5, <1>6, <1>7, <1>8 DEF ListFacts

\* What a scan finds in a splice has its sums.
LEMMA SpliceSound ==
    ASSUME NEW f, NEW list, NEW index, NEW unit, NEW new, NEW spare, NEW w,
           Splicing(f, list, index, unit, new, spare, w)
    PROVE  SumsHold(w, Scan(w), {})
<1> DEFINE moved == Moved(list, index, Len(unit), w)
           scan == Scan(w)
<1>1. MovedFacts(list, index, Len(unit), w, moved)
  BY MovedShape
<1> HIDE DEF moved
<1>2. ListFacts(w, moved, {})
  BY <1>1, MovedListed
<1>3. \A i \in 1..Len(scan) : i \in 1..Len(moved) /\ scan[i] = moved[i]
  BY <1>2, ScanIsPrefix
<1>4. \A i \in 1..Len(moved) : Sound(w, moved[i])
  BY <1>1 DEF MovedFacts, PutAs
<1> HIDE DEF scan
<1>5. SumsHold(w, scan, {})
  BY <1>3, <1>4 DEF SumsHold, Sound
<1> QED BY <1>5 DEF scan


--------------------------------------------------------------------------------
(* The sums. *)

\* What a header rendered with a signing shows of it.
SignedAs(header, signing, unit) ==
    /\ ~signing.signs => Tagged(unit, "checksum") = Tagged(header, "checksum")
    /\ signing.final =>
          LET c == Least(Tagged(unit, "checksum"))
              d == Least(Tagged(ParseHeader(unit), "datasum"))
          IN  /\ unit[c] = Checksum([unit EXCEPT ![c] = Placeholder], signing.sum)
              /\ Tagged(ParseHeader(unit), "datasum") # {}
              /\ ParseHeader(unit)[d] = Datasum(signing.sum)

\* `render_into` signs over the unit it leaves, and a parse finds the DATASUM.
LEMMA RenderSigns ==
    ASSUME NEW header, IsHeader(header), NEW signing, IsSigning(signing), NEW spare \in Nat,
           NEW unit, unit = RenderInto(header, signing, spare)
    PROVE  SignedAs(header, signing, unit)
<1> DEFINE r == RenderRecords(header, signing)
           h == ParseHeader(unit)
           c == Least(Tagged(r, "checksum"))
           d == Place(header, "datasum")
<1>1. Rendered(header, signing, spare, unit)
  BY RenderShape
<1>2. RecordsOf(header, signing, r)
  BY RecordsShape
<1>3. IsSeq(unit) /\ Len(unit) \in Nat
  BY <1>1, LenNat DEF Rendered
<1>4. ParsesTo(header, signing, spare, unit)
  <2>1. Len(unit) <= Len(unit)
    BY <1>3
  <2> QED BY <2>1, <1>3, ParseOfRender
<1>5. ~signing.signs => r = header
  BY DEF RenderRecords
<1>6. Tagged(h, "datasum") = Tagged(r, "datasum") /\ \A i \in 1..Len(h) : h[i] = unit[i]
  BY <1>4 DEF ParsesTo
<1>7. /\ Len(r) \in Nat
      /\ Len(unit) >= Len(r) + spare + 1
      /\ \A i \in 1..Len(r) : unit[i][1] = r[i][1]
      /\ \A i \in 1..Len(r) : ~signing.final \/ i # c => unit[i] = r[i]
      /\ \A i \in Len(r) + 1..Len(unit) :
            unit[i] = IF i = Len(r) + spare + 1 THEN EndRecord ELSE Blank
      /\ signing.final => unit[c] = Checksum([unit EXCEPT ![c] = Placeholder], signing.sum)
  BY <1>1 DEF Rendered
<1>8. signing.final =>
         /\ Tagged(r, "datasum") # {} /\ Least(Tagged(r, "datasum")) = d /\ d \in 1..Len(r)
         /\ r[d] = Datasum(signing.sum) /\ c # d
  BY <1>2 DEF RecordsOf, IsSigning
<1> HIDE DEF r, c, d
<1>9. Tagged(unit, "checksum") = Tagged(r, "checksum")
  <2>1. ASSUME NEW i \in 1..Len(unit), unit[i][1] = "checksum" PROVE i \in 1..Len(r)
    <3>1. SUFFICES ASSUME i \notin 1..Len(r) PROVE FALSE
      OBVIOUS
    <3>2. i \in Len(r) + 1..Len(unit)
      BY <3>1, <1>3, <1>7
    <3>3. unit[i] = EndRecord \/ unit[i] = Blank
      BY <3>2, <1>7
    <3> QED BY <3>3, <2>1 DEF EndRecord, Blank
  <2>2. \A i \in 1..Len(r) : i \in 1..Len(unit)
    BY <1>3, <1>7
  <2> QED BY <2>1, <2>2, <1>7 DEF Tagged
<1>10. ASSUME signing.final
       PROVE  /\ unit[c] = Checksum([unit EXCEPT ![c] = Placeholder], signing.sum)
              /\ Tagged(h, "datasum") # {} /\ Least(Tagged(h, "datasum")) = d
              /\ h[d] = Datasum(signing.sum)
  <2>1. Tagged(h, "datasum") # {} /\ Least(Tagged(h, "datasum")) = d
    BY <1>6, <1>8, <1>10
  <2>2. Len(h) \in Nat
    BY <1>4, LenNat DEF ParsesTo
  <2>3. d \in 1..Len(h)
    BY <2>1, <2>2, LeastTagged
  <2>4. h[d] = unit[d] /\ unit[d] = r[d]
    BY <2>3, <1>6, <1>7, <1>8, <1>10
  <2> QED BY <2>1, <2>4, <1>7, <1>8, <1>10
<1> HIDE DEF h
<1> QED BY <1>5, <1>9, <1>10 DEF SignedAs, c, h

\* The header an edit renders has its sum over the data of the HDU, or declares the
\* wrong one its caller gave.
LEMMA EditSums ==
    ASSUME NEW index, NEW header \in Headers, IsHeader(header), NEW spare \in Nat,
           NEW unit, unit = RenderInto(header, EditSigning(index, header), spare)
    PROVE  SumHolds(unit, ParseHeader(unit), DataUnit(file, hdus[index]))
<1> DEFINE signing == EditSigning(index, header)
           h == ParseHeader(unit)
           data == DataUnit(file, hdus[index])
           at == Tagged(header, "datasum")
           c == Least(Tagged(unit, "checksum"))
           d == Least(Tagged(h, "datasum"))
<1>1. SignedAs(header, signing, unit)
  BY EditSigningIs, RenderSigns
<1>2. CASE Tagged(header, "checksum") = {}
  <2>1. signing = Unsigned
    BY <1>2 DEF EditSigning
  <2>2. ~signing.signs
    BY <2>1 DEF Unsigned
  <2> HIDE DEF signing
  <2>3. Tagged(unit, "checksum") = {}
    BY <2>2, <1>1, <1>2 DEF SignedAs
  <2> QED BY <2>3 DEF SumHolds
<1>3. CASE Tagged(header, "checksum") # {}
  <2>1. /\ signing = WithDataSum(signing.sum)
        /\ signing.sum = data \/ (at # {} /\ signing.sum = header[Least(at)][2])
    BY <1>3 DEF EditSigning, MustRead, WithDataSum
  <2>2. signing.final
    BY <2>1 DEF WithDataSum
  <2> HIDE DEF signing
  <2>3. /\ unit[c] = Checksum([unit EXCEPT ![c] = Placeholder], signing.sum)
        /\ Tagged(h, "datasum") # {} /\ h[d] = Datasum(signing.sum)
    BY <2>2, <1>1 DEF SignedAs
  <2>4. CASE signing.sum = data
    BY <2>3, <2>4 DEF SumHolds
  <2>5. CASE signing.sum # data
    <3>1. at # {} /\ signing.sum = header[Least(at)][2]
      BY <2>1, <2>5
    <3>2. Least(at) \in at
      <4>1. Len(header) \in Nat
        BY HeaderIsSeq
      <4>2. at \in SUBSET Nat
        BY <4>1 DEF Tagged
      <4> HIDE DEF at
      <4> QED BY <4>2, <3>1, LeastOf
    <3>3. \E g \in Headers : \E i \in Tagged(g, "datasum") : g[i][2] = signing.sum
      BY <3>1, <3>2
    <3>4. h[d][2] = signing.sum
      BY <2>3 DEF Datasum
    <3> HIDE DEF h, data
    <3>5. WrongSum(h, data)
      BY <2>3, <2>5, <3>3, <3>4 DEF WrongSum
    <3> QED BY <3>5 DEF SumHolds, h, data
  <2> QED BY <2>4, <2>5
<1> QED BY <1>2, <1>3

\* An edit has one unit.
LEMMA UnitIsOne ==
    ASSUME NEW f, NEW old, NEW e, NEW u, NEW k, Partway(f, old, e, u, k),
           NEW v, NEW l, Partway(f, old, e, v, l)
    PROVE  u = v
<1> DEFINE m == Len(u)
<1>1. IsSeq(u) /\ IsSeq(v) /\ Len(u) = e.hdu[1].blocks * B /\ Len(v) = e.hdu[1].blocks * B
  BY DEF Partway, EditedAs, IsFile
<1>2. /\ k \in 0..m /\ l \in 0..m /\ m \in Nat /\ Len(v) = m
      /\ e.bytes = Cut(u, k, m) /\ e.bytes = Cut(v, l, m)
      /\ \A i \in 1..k : f[old.offset + i] = u[i]
      /\ \A i \in 1..l : f[old.offset + i] = v[i]
  BY <1>1, LenNat DEF Partway
<1> HIDE DEF m
<1>3. /\ m \in Nat /\ k \in Nat /\ l \in Nat /\ k <= m /\ l <= m
      /\ m <= m /\ m <= Len(u) /\ m <= Len(v)
  BY <1>2 DEF m
<1>4. Slice(u, k, m, e.bytes) /\ Slice(v, l, m, e.bytes)
  BY <1>1, <1>2, <1>3, CutSlices
<1>5. /\ Len(e.bytes) = m - k /\ Len(e.bytes) = m - l
      /\ \A i \in 1..m - k : e.bytes[i] = u[k + i]
      /\ \A i \in 1..m - l : e.bytes[i] = v[l + i]
  BY <1>4 DEF Slice
<1>6. k = l
  <2> DEFINE n == Len(e.bytes)
  <2>1. n = m - k /\ n = m - l
    BY <1>5
  <2> HIDE DEF n
  <2> QED BY <2>1, <1>3
<1>7. ASSUME NEW i \in 1..m PROVE u[i] = v[i]
  <2>1. CASE i <= k
    <3>1. i \in 1..k /\ i \in 1..l
      BY <2>1, <1>3, <1>6
    <3> QED BY <3>1, <1>2
  <2>2. CASE ~(i <= k)
    <3> DEFINE j == i - k
    <3>1. j \in 1..m - k /\ j \in 1..m - l /\ k + j = i /\ l + j = i
      BY <2>2, <1>3, <1>6
    <3> HIDE DEF j
    <3>2. e.bytes[j] = u[i] /\ e.bytes[j] = v[i]
      BY <3>1, <1>5
    <3> QED BY <3>2
  <2> QED BY <2>1, <2>2
<1> QED BY <1>1, <1>2, <1>7, SeqsEqual DEF m

\* A write within one header leaves its data, and the sums of all other HDUs.
LEMMA CutOutside ==
    ASSUME NEW f, NEW w, NEW hdu, OnlyWithin(f, w, hdu), HduTyped(hdu),
           NEW a \in Nat, NEW b \in Nat, a <= b, b <= Len(f), b <= hdu.offset \/ hdu.data <= a
    PROVE  SubSeq(w, a + 1, b) = SubSeq(f, a + 1, b)
<1> DEFINE o == hdu.offset
           d == hdu.data
           z == Len(f)
<1>1. /\ IsSeq(f) /\ IsSeq(w) /\ Len(w) = z /\ o \in Nat /\ d \in Nat /\ z \in Nat
      /\ \A i \in 1..z : i \notin o + 1..d => w[i] = f[i]
  BY LenNat DEF OnlyWithin, HduTyped
<1>2. \A i \in a + 1..b : w[i] = f[i]
  <2>1. TAKE i \in a + 1..b
  <2> HIDE DEF o, d
  <2>2. b <= o \/ d <= a
    BY DEF o, d
  <2>3. b <= z
    OBVIOUS
  <2> HIDE DEF z
  <2>4. i \in 1..z /\ i \notin o + 1..d
    BY <1>1, <2>2, <2>3
  <2> QED BY <2>4, <1>1
<1> QED BY <1>1, <1>2, SameCut

\* The data unit of the HDU is as it was.
LEMMA DataKept ==
    ASSUME NEW f, NEW w, NEW hdu, OnlyWithin(f, w, hdu), HduTyped(hdu), DataEnd(hdu) <= Len(f)
    PROVE  DataUnit(w, hdu) = DataUnit(f, hdu)
<1>1. hdu.data \in Nat /\ DataEnd(hdu) \in Nat /\ hdu.data <= DataEnd(hdu)
  BY HduExtent DEF Extent
<1>2. hdu.data <= hdu.data
  BY <1>1
<1> QED BY <1>1, <1>2, CutOutside DEF DataUnit

\* Every other HDU has its sum still.
LEMMA OthersSound ==
    ASSUME NEW list, NEW f, NEW w, Chained(list, Len(f)),
           NEW index \in 1..Len(list), OnlyWithin(f, w, list[index]),
           NEW j \in 1..Len(list), j # index, DataEnd(list[j]) <= Len(f), Sound(f, list[j])
    PROVE  Sound(w, list[j])
<1> DEFINE hdu == list[j]
           old == list[index]
           a == hdu.offset
           d == hdu.data
           c == DataEnd(hdu)
           o == old.offset
           e == old.data
           z == Len(f)
<1>1. HduTyped(old) /\ Extent(hdu) /\ Extent(old) /\ Len(list) \in Nat
  BY HduExtent DEF Chained
<1>2. c <= o \/ DataEnd(old) <= a
  <2>1. j < index \/ index < j
    BY <1>1
  <2> QED BY <2>1, Ordered
<1>3. /\ a \in Nat /\ d \in Nat /\ c \in Nat /\ o \in Nat /\ e \in Nat /\ DataEnd(old) \in Nat
      /\ a < d /\ d <= c /\ e <= DataEnd(old)
  BY <1>1 DEF Extent
<1>4. z \in Nat /\ c <= z
  BY LenNat DEF OnlyWithin
<1>5. /\ a <= d /\ d <= z /\ (d <= o \/ e <= a)
      /\ d <= c /\ c <= z /\ (c <= o \/ e <= d)
  <2> DEFINE x == DataEnd(old)
  <2>1. x \in Nat /\ e <= x /\ (c <= o \/ x <= a)
    BY <1>2, <1>3
  <2> HIDE DEF x, a, d, c, o, e, z
  <2> QED BY <2>1, <1>3, <1>4
<1>6. SubSeq(w, a + 1, d) = SubSeq(f, a + 1, d)
  <2>1. OnlyWithin(f, w, old) /\ HduTyped(old) /\ d <= Len(f)
    BY <1>1, <1>5
  <2>2. d <= old.offset \/ old.data <= a
    BY <1>5
  <2> HIDE DEF old, a, d
  <2> QED BY <2>1, <2>2, <1>3, <1>5, CutOutside
<1>7. SubSeq(w, d + 1, c) = SubSeq(f, d + 1, c)
  <2>1. OnlyWithin(f, w, old) /\ HduTyped(old) /\ c <= Len(f)
    BY <1>1, <1>4
  <2>2. c <= old.offset \/ old.data <= d
    BY <1>5
  <2> HIDE DEF old, d, c
  <2> QED BY <2>1, <2>2, <1>3, <1>5, CutOutside
<1>8. HeaderUnit(w, hdu) = HeaderUnit(f, hdu) /\ DataUnit(w, hdu) = DataUnit(f, hdu)
  BY <1>6, <1>7 DEF HeaderUnit, DataUnit
<1>9. SumHolds(HeaderUnit(f, hdu), hdu.header, DataUnit(f, hdu))
  BY SoundIs
<1>10. SumHolds(HeaderUnit(w, hdu), hdu.header, DataUnit(w, hdu))
  BY <1>8, <1>9
<1> QED BY <1>10, SoundIs

\* The unit of the edit under way has its sum over the data of the HDU.
UnitSums(f, old, e) ==
    \A unit : \A k \in 0..Len(unit) :
        Partway(f, old, e, unit, k) /\ DataEnd(old) <= Len(f) =>
            SumHolds(unit, e.hdu[1].header, DataUnit(f, old))

\* What keeps the sums: those of the list hold, and of what an edit puts in it.
SumInv ==
    /\ SumsHold(file, hdus, torn)
    /\ phase = "writing" => UnitSums(file, hdus[edit.index], edit)
    /\ phase = "written" /\ torn \subseteq {hdus[edit.index].offset} =>
          SumsHold(out, Scan(out), {})

\* `replace_header` renders a header with its sum.
LEMMA ReplaceHeaderSums ==
    ASSUME EditorInv, SumInv, NEW index, NEW header \in Headers, ReplaceHeader(index, header)
    PROVE  SumInv'
<1> DEFINE unit == FitRender(index, header)
           old == hdus[index]
<1>1. phase' = "writing" /\ file' = file /\ hdus' = hdus /\ torn' = torn
  BY DEF ReplaceHeader
<1>2. /\ Partway(file, old, edit', unit, 0) /\ edit'.index = index
      /\ edit'.hdu[1].header = ParseHeader(unit) /\ IsHeader(header)
      /\ \E n \in Nat : unit = RenderInto(header, EditSigning(index, header), n)
  BY ReplaceStarts
<1> HIDE DEF unit
<1>3. SumHolds(unit, ParseHeader(unit), DataUnit(file, old))
  <2>1. PICK n \in Nat : unit = RenderInto(header, EditSigning(index, header), n)
    BY <1>2
  <2> QED BY <2>1, <1>2, EditSums
<1>4. UnitSums(file, old, edit')
  <2>1. ASSUME NEW u, NEW k \in 0..Len(u), Partway(file, old, edit', u, k)
        PROVE  SumHolds(u, edit'.hdu[1].header, DataUnit(file, old))
    <3>1. u = unit
      BY <2>1, <1>2, UnitIsOne
    <3> QED BY <3>1, <1>2, <1>3
  <2> QED BY <2>1 DEF UnitSums
<1> QED BY <1>1, <1>2, <1>4 DEF SumInv

\* A write, wherever it stops, keeps the sums of all other headers.
LEMMA EditWritesSums ==
    ASSUME EditorInv, SumInv, NEW n \in 1..Len(edit.bytes), EditWrites(n)
    PROVE  SumInv'
<1> DEFINE old == hdus[edit.index]
<1>1. /\ phase = "writing" /\ phase' = phase /\ hdus' = hdus
      /\ torn' = torn \union {edit.hdu[1].offset}
  BY DEF EditWrites
<1>2. EditShaped(hdus, edit) /\ Chained(hdus, Len(file))
  BY <1>1 DEF EditorInv, ListFacts
<1>3. PICK unit : \E k \in 0..Len(unit) : WriteOf(unit, k, n)
  BY WriteIs
<1>4. PICK k \in 0..Len(unit) : WriteOf(unit, k, n)
  BY <1>3
<1>5. /\ Partway(file, old, edit, unit, k) /\ edit.index \in 1..Len(hdus)
      /\ OnlyWithin(file, file', old) /\ Len(file') = Len(file)
      /\ edit' = [edit EXCEPT !.bytes = Cut(unit, k + n, Len(unit))]
  BY <1>4 DEF WriteOf, OnlyWithin
<1>6. edit'.index = edit.index /\ edit'.hdu = edit.hdu
  BY <1>2, <1>5 DEF EditShaped
<1>7. Partway(file', old, edit', unit, k + n)
  BY <1>2, <1>4, WriteAdvances
<1>8. edit.hdu[1].offset = old.offset
  BY <1>5 DEF Partway, EditedAs
<1>9. SumsHold(file', hdus, torn')
  <2>1. ASSUME NEW j \in 1..Len(hdus), hdus[j].offset \notin torn',
               DataEnd(hdus[j]) <= Len(file')
        PROVE  Sound(file', hdus[j])
    <3>1. j # edit.index /\ hdus[j].offset \notin torn
      BY <1>1, <1>8, <2>1
    <3>2. Sound(file, hdus[j])
      BY <2>1, <3>1, <1>5 DEF SumInv, SumsHold, Sound
    <3> QED BY <2>1, <3>1, <3>2, <1>2, <1>5, OthersSound
  <2> QED BY <2>1 DEF SumsHold, Sound
<1>10. UnitSums(file', old, edit')
  <2>1. ASSUME NEW u, NEW l \in 0..Len(u), Partway(file', old, edit', u, l),
               DataEnd(old) <= Len(file')
        PROVE  SumHolds(u, edit'.hdu[1].header, DataUnit(file', old))
    <3>1. u = unit
      BY <2>1, <1>7, UnitIsOne
    <3>2. SumHolds(unit, edit.hdu[1].header, DataUnit(file, old))
      BY <2>1, <1>1, <1>4, <1>5 DEF SumInv, UnitSums
    <3>3. HduTyped(old)
      BY <1>2, <1>5 DEF Chained
    <3>4. DataUnit(file', old) = DataUnit(file, old)
      BY <2>1, <3>3, <1>5, DataKept
    <3> QED BY <3>1, <3>2, <3>4, <1>6
  <2> QED BY <2>1 DEF UnitSums
<1> QED BY <1>1, <1>6, <1>9, <1>10 DEF SumInv

\* The end of `replace_header` puts a header with its sum in the list.
LEMMA EditDoneSums ==
    ASSUME EditorInv, SumInv, EditDone
    PROVE  SumInv'
<1> DEFINE index == edit.index
           old == hdus[edit.index]
           new == edit.hdu[1]
           o   == old.offset
           list == [hdus EXCEPT ![index] = new]
<1>1. /\ phase = "writing" /\ edit.bytes = <<>> /\ phase' = "open"
      /\ hdus' = list /\ file' = file /\ torn' = torn \ {new.offset}
  BY DEF EditDone
<1>2. /\ EditShaped(hdus, edit) /\ Chained(hdus, Len(file)) /\ IsFile(file)
      /\ index \in 1..Len(hdus)
  BY <1>1 DEF EditorInv, ListFacts, EditShaped
<1>3. PICK unit : \E k \in 0..Len(unit) : Partway(file, old, edit, unit, k)
  BY <1>1 DEF EditorInv
<1>4. PICK k \in 0..Len(unit) : Partway(file, old, edit, unit, k)
  BY <1>3
<1>5. /\ EditedAs(unit, new, old, 0) /\ new.blocks = old.blocks
      /\ \A i \in 1..k : file[o + i] = unit[i]
  BY <1>4 DEF Partway
<1>6. /\ IsSeq(unit) /\ HduTyped(new) /\ new.offset = o /\ new.kind = old.kind
      /\ Len(unit) = new.blocks * B
  BY <1>5 DEF EditedAs, IsFile
<1>7. k = Len(unit)
  BY <1>1, <1>4, AllWritten
<1>8. HduTyped(old) /\ old.data <= Len(file)
  BY <1>2 DEF Chained
<1>9. new.data = o + Len(unit) /\ new.data = old.data /\ o \in Nat
  BY <1>5, <1>6, <1>8 DEF HduTyped
<1>10. DataEnd(new) = DataEnd(old)
  BY <1>6, <1>9 DEF DataEnd
<1>11. HeaderUnit(file, new) = unit
  <2>1. Holds(file, o, unit)
    BY <1>5, <1>7, <1>8, <1>9 DEF Holds
  <2>2. IsSeq(file)
    BY <1>2 DEF IsFile
  <2>3. SubSeq(file, o + 1, o + Len(unit)) = unit
    BY <2>1, <2>2, <1>6, <1>9, SubSeqOfHeld
  <2> QED BY <2>3, <1>6, <1>9 DEF HeaderUnit
<1>12. DataUnit(file, new) = DataUnit(file, old)
  BY <1>9, <1>10 DEF DataUnit
<1>13. ASSUME DataEnd(old) <= Len(file) PROVE Sound(file, new)
  <2>1. SumHolds(unit, new.header, DataUnit(file, old))
    BY <1>1, <1>4, <1>13 DEF SumInv, UnitSums
  <2>2. SumHolds(HeaderUnit(file, new), new.header, DataUnit(file, new))
    BY <2>1, <1>11, <1>12
  <2> QED BY <2>2, SoundIs
<1>14. /\ Len(list) = Len(hdus) /\ list[index] = new
       /\ \A i \in 1..Len(hdus) : i # index => list[i] = hdus[i]
  <2>1. Replaced(hdus, Len(file), index, new, list)
    BY <1>2, <1>5, <1>6, ReplacedChained
  <2> HIDE DEF index, new, list
  <2> QED BY <2>1 DEF Replaced
<1> HIDE DEF list
<1>15. SumsHold(file, list, torn')
  <2>1. ASSUME NEW j \in 1..Len(list), list[j].offset \notin torn',
               DataEnd(list[j]) <= Len(file)
        PROVE  Sound(file, list[j])
    <3>1. CASE j = index
      BY <3>1, <2>1, <1>10, <1>13, <1>14
    <3>2. CASE j # index
      <4>1. j \in 1..Len(hdus) /\ list[j] = hdus[j]
        BY <3>2, <1>14
      <4>2. hdus[j].offset # o
        BY <3>2, <4>1, <1>2, OffsetsDiffer
      <4>3. hdus[j].offset \notin torn
        BY <4>1, <4>2, <2>1, <1>1, <1>6
      <4> QED BY <4>1, <4>3, <2>1 DEF SumInv, SumsHold, Sound
    <3> QED BY <3>1, <3>2
  <2> QED BY <2>1 DEF SumsHold, Sound
<1> QED BY <1>1, <1>15 DEF SumInv

\* `replace_header_into` writes a splice whose HDUs all have their sums, when the header
\* it replaces is the only torn one.
LEMMA IntoSums ==
    ASSUME EditorInv, SumInv, NEW index, NEW header \in Headers,
           ReplaceHeaderInto(index, header)
    PROVE  SumInv'
<1> DEFINE old == hdus[index]
           unit == SpareRender(index, header)
           new == HduOf(unit, old.offset)
           spare == FreeRecords(old)
<1>1. /\ phase' = "written" /\ file' = file /\ hdus' = hdus /\ torn' = torn
      /\ DataEnd(hdus[Len(hdus)]) <= Len(file)
  BY DEF ReplaceHeaderInto
<1>2. /\ index \in 1..Len(hdus) /\ HduTyped(old) /\ IsHeader(header)
      /\ old.offset \in Nat /\ old.data \in Nat
      /\ old.offset <= old.data /\ old.data <= Len(file)
      /\ EditedAs(unit, new, old, spare)
      /\ out' = (Cut(file, 0, old.offset) \o unit) \o Cut(file, old.data, Len(file))
      /\ edit'.index = index
  BY IntoIs
<1>3. /\ IsFile(file) /\ Chained(hdus, Len(file)) /\ Len(hdus) > 0 /\ EndFound(file, hdus)
      /\ AllRead(file, hdus, torn)
  BY DEF EditorInv, ListFacts
<1>4. SumHolds(unit, new.header, DataUnit(file, old))
  <2>1. unit = RenderInto(header, EditSigning(index, header), spare)
    BY DEF SpareRender
  <2>2. spare \in Nat
    BY <1>2, FreeRecordsNat
  <2>3. new.header = ParseHeader(unit)
    BY DEF HduOf
  <2> HIDE DEF unit, spare, new
  <2>4. SumHolds(unit, ParseHeader(unit), DataUnit(file, old))
    BY <2>1, <2>2, <1>2, EditSums
  <2> QED BY <2>3, <2>4
<1> HIDE DEF unit, new
<1>5. IsFile(unit)
  BY <1>2 DEF EditedAs
<1>6. SplicedAt(file, unit, old.offset, old.data, out')
  BY <1>2, <1>3, <1>5, SpliceCells
<1>7. ASSUME torn \subseteq {old.offset} PROVE SumsHold(out', Scan(out'), {})
  <2>1. ASSUME NEW j \in 1..Len(hdus), j # index
        PROVE  ReadsAs(file, hdus[j]) /\ Sound(file, hdus[j])
    <3>1. hdus[j].offset # old.offset
      BY <2>1, <1>2, <1>3, OffsetsDiffer
    <3>2. hdus[j].offset \notin torn
      BY <3>1, <1>7
    <3>3. DataEnd(hdus[j]) <= Len(file)
      <4>1. Len(file) \in Nat
        BY <1>3, LenNat DEF IsFile
      <4> QED BY <4>1, <1>1, <1>3, EndsInside
    <3> QED BY <3>2, <3>3, <1>3 DEF AllRead, SumInv, SumsHold, Sound
  <2>2. Splicing(file, hdus, index, unit, new, spare, out')
    BY <2>1, <1>1, <1>2, <1>3, <1>4, <1>6 DEF Splicing
  <2> QED BY <2>2, SpliceSound
<1> QED BY <1>1, <1>2, <1>7 DEF SumInv

\* A new scan of a file with no torn header finds the HDUs of the list, and their sums.
LEMMA RescanSums ==
    ASSUME EditorInv, SumInv, torn = {}
    PROVE  SumsHold(file, Scan(file), {})
<1> DEFINE scan == Scan(file)
<1>1. ListFacts(file, hdus, {})
  BY DEF EditorInv
<1>2. \A i \in 1..Len(scan) : i \in 1..Len(hdus) /\ scan[i] = hdus[i]
  BY <1>1, ScanIsPrefix
<1> HIDE DEF scan
<1>3. SumsHold(file, scan, {})
  BY <1>2 DEF SumInv, SumsHold
<1> QED BY <1>3 DEF scan

\* Every step that rescans no torn file keeps the sums.
LEMMA NextSums ==
    ASSUME EditorInv, SumInv, [Next]_vars, [Reopen \/ Rename => torn' = {}]_vars
    PROVE  SumInv'
<1>1. ASSUME NEW index \in 1..Len(hdus), NEW header \in Headers, ReplaceHeader(index, header)
      PROVE  SumInv'
  BY <1>1, ReplaceHeaderSums
<1>2. ASSUME NEW n \in 1..Len(edit.bytes), EditWrites(n) PROVE SumInv'
  BY <1>2, EditWritesSums
<1>3. CASE EditFails
  BY <1>3 DEF EditFails, SumInv
<1>4. CASE EditDone
  BY <1>4, EditDoneSums
<1>5. ASSUME NEW index \in 1..Len(hdus), NEW header \in Headers, ReplaceHeaderInto(index, header)
      PROVE  SumInv'
  BY <1>5, IntoSums
<1>6. CASE Discard
  BY <1>6 DEF Discard, SumInv
<1>7. CASE AppendHdus
  BY <1>7 DEF AppendHdus, SumInv
<1>8. CASE UNCHANGED vars
  BY <1>8 DEF vars, SumInv
<1>9. CASE Rename
  <2>1. /\ phase = "written" /\ file' = out /\ hdus' = Scan(out) /\ phase' = "open"
    BY <1>9 DEF Rename
  <2>2. torn \subseteq {hdus[edit.index].offset}
    <3> DEFINE at == hdus[edit.index]
               by == edit.hdu[1].data - at.data
    <3>1. torn' = {IF o > at.offset THEN o + by ELSE o : o \in torn \ {at.offset}}
      BY <1>9 DEF Rename
    <3>2. torn' = {} \/ UNCHANGED vars
      BY <1>9
    <3>3. CASE torn' = {}
      <4>1. ASSUME NEW o \in torn \ {at.offset} PROVE FALSE
        <5>1. (IF o > at.offset THEN o + by ELSE o) \in torn'
          BY <3>1
        <5> QED BY <5>1, <3>3
      <4> QED BY <4>1
    <3>4. CASE UNCHANGED vars
      BY <3>4, <2>1 DEF vars
    <3> QED BY <3>2, <3>3, <3>4
  <2>3. torn' = {} \/ UNCHANGED vars
    BY <1>9
  <2>4. CASE torn' = {}
    BY <2>1, <2>2, <2>4 DEF SumInv
  <2> QED BY <2>3, <2>4, <1>8
<1>10. CASE Reopen
  <2>1. file' = file /\ hdus' = Scan(file) /\ phase' = "open" /\ torn' = torn
    BY <1>10 DEF Reopen
  <2>2. torn' = {} \/ UNCHANGED vars
    BY <1>10
  <2>3. CASE torn' = {}
    <3>1. SumsHold(file, Scan(file), {})
      BY <2>1, <2>3, RescanSums
    <3> QED BY <2>1, <2>3, <3>1 DEF SumInv
  <2> QED BY <2>2, <2>3, <1>8
<1> QED BY <1>1, <1>2, <1>3, <1>4, <1>5, <1>6, <1>7, <1>8, <1>9, <1>10 DEF Next

\* A CHECKSUM the editor leaves is right, for every block size, file, header and bound,
\* after any sequence of edits in place, into a second file and failed writes: it is that
\* of the header and the data, or the header came with a wrong DATASUM.  The files it
\* opens have their sums, and no editor is opened on one with a torn header.
THEOREM SumsStay == FilesSound /\ Spec /\ RescansWhole => []ChecksumStaysValid
<1>1. FilesSound /\ Init => SumInv
  <2> SUFFICES ASSUME FilesSound, Init PROVE SumInv
    OBVIOUS
  <2>1. file \in Files /\ hdus = Scan(file) /\ torn = {} /\ phase = "open"
    BY DEF Init
  <2>2. SumsHold(file, Scan(file), {})
    BY <2>1 DEF FilesSound
  <2> QED BY <2>1, <2>2 DEF SumInv
<1>2. EditorInv /\ SumInv /\ [Next]_vars /\ [Reopen \/ Rename => torn' = {}]_vars => SumInv'
  BY NextSums
<1>3. SumInv => ChecksumStaysValid
  BY DEF SumInv, ChecksumStaysValid
<1> QED BY <1>1, <1>2, <1>3, EditorInvHolds, PTL DEF Spec, RescansWhole
================================================================================
