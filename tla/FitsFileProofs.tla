---------------------------- MODULE FitsFileProofs -----------------------------
(***************************************************************************)
(* What the definitions of FitsFile give: the cells of a rendered header,  *)
(* what a parse of it finds, and what a scan and a reader of the sums find *)
(* where a file holds an HDU.                                              *)
(*                                                                         *)
(* IsSeq is the notion of a sequence the lemmas share: the cells of a file *)
(* are of no one set.                                                      *)
(***************************************************************************)
EXTENDS FitsFile, SequenceTheorems, WellFoundedInduction, TLAPS

(* Sequences. *)

IsSeq(s) == Len(s) \in Nat /\ s = [i \in 1..Len(s) |-> s[i]]

Cells(s) == {s[i] : i \in 1..Len(s)}

\* A sequence whose cells are all of a set is one over the set.
LEMMA SeqOfCells ==
    ASSUME NEW s, IsSeq(s), NEW S, \A i \in 1..Len(s) : s[i] \in S
    PROVE  s \in Seq(S)
BY SeqDef DEF IsSeq

\* A sequence over any set is one.
LEMMA SeqIsSeq ==
    ASSUME NEW S, NEW s \in Seq(S)
    PROVE  IsSeq(s)
BY LenProperties DEF IsSeq

\* A function on 1..n is a sequence of n cells.
LEMMA FunIsSeq ==
    ASSUME NEW n \in Nat, NEW s, s = [i \in 1..n |-> s[i]]
    PROVE  IsSeq(s) /\ Len(s) = n
<1>1. s \in [1..n -> {s[i] : i \in 1..n}]
  OBVIOUS
<1>2. s \in Seq({s[i] : i \in 1..n})
  BY <1>1, SeqDef
<1>3. Len(s) = n
  BY <1>1, <1>2, LenProperties
<1> QED BY <1>3 DEF IsSeq

\* u is s and t after it.
Joins(s, t, u) ==
    /\ IsSeq(u)
    /\ Len(u) = Len(s) + Len(t)
    /\ \A i \in 1..Len(s) : u[i] = s[i]
    /\ \A i \in 1..Len(t) : u[Len(s) + i] = t[i]

\* The cells of a concatenation.
LEMMA ConcatIsSeq ==
    ASSUME NEW s, NEW t, IsSeq(s), IsSeq(t)
    PROVE  Joins(s, t, s \o t)
<1> DEFINE S == Cells(s) \cup Cells(t)
<1>1. s \in Seq(S) /\ t \in Seq(S)
  BY SeqOfCells DEF Cells
<1> HIDE DEF S
<1>2. s \o t \in Seq(S)
  BY <1>1, ConcatProperties
<1>3. IsSeq(s \o t)
  BY <1>2, SeqIsSeq
<1>4. Len(s) \in Nat /\ Len(t) \in Nat
  BY DEF IsSeq
<1>5. /\ Len(s \o t) = Len(s) + Len(t)
      /\ \A i \in 1..Len(s) + Len(t) :
            (s \o t)[i] = IF i <= Len(s) THEN s[i] ELSE t[i - Len(s)]
  BY <1>1, ConcatProperties
<1> QED BY <1>3, <1>4, <1>5 DEF Joins

\* u is the cells of s from m to n.
Cuts(s, m, n, u) ==
    /\ IsSeq(u)
    /\ Len(u) = n - m + 1
    /\ \A i \in 1..n - m + 1 : u[i] = s[m + i - 1]

\* The cells of a cut.
LEMMA SubSeqIsSeq ==
    ASSUME NEW s, IsSeq(s), NEW m \in 1..Len(s) + 1, NEW n \in m - 1..Len(s)
    PROVE  Cuts(s, m, n, SubSeq(s, m, n))
<1>1. s \in Seq(Cells(s))
  BY SeqOfCells DEF Cells
<1>2. Len(s) \in Nat
  BY DEF IsSeq
<1>3. /\ SubSeq(s, m, n) \in Seq(Cells(s))
      /\ Len(SubSeq(s, m, n)) = n - m + 1
      /\ \A i \in 1..n - m + 1 : SubSeq(s, m, n)[i] = s[m + i - 1]
  BY <1>1, <1>2, SubSeqProperties
<1> QED BY <1>3, SeqIsSeq DEF Cuts

\* Sequences of the same cells are the same.
LEMMA SeqsEqual ==
    ASSUME NEW s, NEW t, IsSeq(s), IsSeq(t), Len(s) = Len(t),
           \A i \in 1..Len(s) : s[i] = t[i]
    PROVE  s = t
BY DEF IsSeq

\* u is s with e at k.
Updates(s, k, e, u) ==
    /\ IsSeq(u)
    /\ Len(u) = Len(s)
    /\ u[k] = e
    /\ \A i \in 1..Len(s) : i # k => u[i] = s[i]

\* The cells of a sequence with one replaced.
LEMMA ExceptIsSeq ==
    ASSUME NEW s, IsSeq(s), NEW k \in 1..Len(s), NEW e
    PROVE  Updates(s, k, e, [s EXCEPT ![k] = e])
<1> DEFINE S == Cells(s) \cup {e}
<1>1. s \in Seq(S) /\ e \in S
  BY SeqOfCells DEF Cells
<1> HIDE DEF S
<1>2. /\ [s EXCEPT ![k] = e] \in Seq(S)
      /\ Len([s EXCEPT ![k] = e]) = Len(s)
      /\ \A j \in 1..Len(s) : [s EXCEPT ![k] = e][j] = IF j = k THEN e ELSE s[j]
  BY <1>1, ExceptSeq
<1> QED BY <1>2, SeqIsSeq DEF Updates

\* The cells of an append.
LEMMA AppendIsSeq ==
    ASSUME NEW s, IsSeq(s), NEW e
    PROVE  /\ IsSeq(Append(s, e))
           /\ Len(Append(s, e)) = Len(s) + 1
           /\ Append(s, e)[Len(s) + 1] = e
           /\ \A i \in 1..Len(s) : Append(s, e)[i] = s[i]
<1> DEFINE S == Cells(s) \cup {e}
<1>1. s \in Seq(S) /\ e \in S
  BY SeqOfCells DEF Cells
<1> HIDE DEF S
<1>2. /\ Append(s, e) \in Seq(S)
      /\ Len(Append(s, e)) = Len(s) + 1
      /\ Append(s, e)[Len(s) + 1] = e
      /\ \A i \in 1..Len(s) : Append(s, e)[i] = s[i]
  BY <1>1, AppendProperties
<1> QED BY <1>2, SeqIsSeq

\* The cells of a fill.
LEMMA FillIsSeq ==
    ASSUME NEW n \in Nat, NEW cell
    PROVE  /\ IsSeq(Fill(cell, n))
           /\ Len(Fill(cell, n)) = n
           /\ \A i \in 1..n : Fill(cell, n)[i] = cell
BY FunIsSeq DEF Fill

\* The cells of the data of a write.
LEMMA DataIsSeq ==
    ASSUME NEW n \in Nat
    PROVE  /\ IsSeq(Data(n))
           /\ Len(Data(n)) = n
           /\ \A i \in 1..n : Data(n)[i] = <<"data", i>>
BY FunIsSeq DEF Data

\* A sequence of one cell.
LEMMA SingletonIsSeq ==
    ASSUME NEW e
    PROVE  IsSeq(<<e>>) /\ Len(<<e>>) = 1 /\ <<e>>[1] = e
<1>1. <<e>> \in Seq({e})
  OBVIOUS
<1> QED BY <1>1, SeqIsSeq

\* A set of naturals that is not empty has a least member.
LEMMA LeastOf ==
    ASSUME NEW S \in SUBSET Nat, S # {}
    PROVE  Least(S) \in S /\ \A j \in S : Least(S) <= j
<1> DEFINE R == {ss \in Nat \X Nat : ss[1] < ss[2]}
<1>1. IsWellFoundedOn(R, Nat)
  BY NatLessThanWellFounded, Zenon DEF OpToRel
<1>2. \E m \in S : \A k \in S : ~(<<k, m>> \in R)
  BY <1>1, WFMin
<1>3. \A k, m \in S : ~(<<k, m>> \in R) => m <= k
  OBVIOUS
<1> QED BY <1>2, <1>3 DEF Least

\* A member that no other is below is the least.
LEMMA LeastIs ==
    ASSUME NEW S \in SUBSET Nat, NEW m \in S, \A j \in S : m <= j
    PROVE  Least(S) = m
<1>1. Least(S) \in S /\ Least(S) <= m
  BY LeastOf
<1>2. m <= Least(S) /\ m \in Nat /\ Least(S) \in Nat
  BY <1>1
<1> QED BY <1>1, <1>2

\* Division by the block size, in the terms the provers can use.
LEMMA Division ==
    ASSUME NEW n \in Nat
    PROVE  /\ n \div B \in Nat
           /\ n % B \in 0..B - 1
           /\ n = (n \div B) * B + (n % B)
BY BAssumption

\* A quotient and a remainder are those of the division.
LEMMA Quotient ==
    ASSUME NEW n \in Nat, NEW q \in Nat, NEW r \in 0..B - 1, n = q * B + r
    PROVE  n \div B = q /\ n % B = r
BY BAssumption

\* `block::padding` fills up to the block boundary, and `block::padded_len` is
\* where that is.
LEMMA Grid ==
    ASSUME NEW n \in Nat
    PROVE  /\ Padding(n) \in 0..B - 1
           /\ PaddedLen(n) = n + Padding(n)
           /\ PaddedLen(n) \div B \in Nat
           /\ PaddedLen(n) = (PaddedLen(n) \div B) * B
<1> DEFINE q == n \div B
           r == n % B
<1>1. B \in Nat /\ B > 0
  BY BAssumption
<1>2. q \in Nat /\ r \in 0..B - 1 /\ n = q * B + r
  BY Division
<1> HIDE DEF q, r
<1>3. CASE r = 0
  <2>1. Padding(n) = 0
    <3>1. B = 1 * B + 0
      BY <1>1
    <3>2. B % B = 0
      BY <3>1, <1>1, Quotient
    <3> QED BY <1>3, <3>2, <1>1 DEF Padding, r
  <2>2. (n + B - 1) \div B = q
    <3>1. n + B - 1 = q * B + (B - 1)
      BY <1>1, <1>2, <1>3
    <3> QED BY <3>1, <1>1, <1>2, Quotient
  <2>3. PaddedLen(n) = q * B
    BY <2>2 DEF PaddedLen
  <2>4. q * B = q * B + 0 /\ q * B \in Nat
    BY <1>1, <1>2
  <2>5. (q * B) \div B = q
    BY <2>4, <1>1, <1>2, Quotient
  <2> QED BY <2>1, <2>3, <2>4, <2>5, <1>1, <1>2, <1>3
<1>4. CASE r # 0
  <2>1. Padding(n) = B - r
    <3>1. B - r = 0 * B + (B - r) /\ B - r \in 0..B - 1
      BY <1>1, <1>2, <1>4
    <3>2. (B - r) % B = B - r
      BY <3>1, Quotient
    <3> QED BY <3>2 DEF Padding, r
  <2>2. q + 1 \in Nat /\ (q + 1) * B = q * B + B
    BY <1>1, <1>2
  <2>3. (n + B - 1) \div B = q + 1
    <3>1. n + B - 1 = (q + 1) * B + (r - 1) /\ r - 1 \in 0..B - 1
      BY <1>1, <1>2, <1>4, <2>2
    <3>2. n + B - 1 \in Nat
      BY <1>1
    <3> QED BY <3>1, <3>2, <2>2, Quotient
  <2>4. PaddedLen(n) = (q + 1) * B
    BY <2>3 DEF PaddedLen
  <2>5. (q + 1) * B = (q + 1) * B + 0 /\ (q + 1) * B \in Nat
    BY <1>1, <2>2
  <2>6. ((q + 1) * B) \div B = q + 1
    BY <2>5, <1>1, <2>2, Quotient
  <2> QED BY <2>1, <2>2, <2>4, <2>6, <1>1, <1>2, <1>4
<1> QED BY <1>3, <1>4, <1>2

\* The only multiple of B in reach.
LEMMA GridUnique ==
    ASSUME NEW n \in Nat, NEW k \in Nat, n <= k * B, k * B < n + B
    PROVE  PaddedLen(n) = k * B
<1>1. PaddedLen(n) \in n..n + B - 1
  BY Grid, BAssumption
<1> DEFINE p == PaddedLen(n) \div B
<1>2. p \in Nat /\ PaddedLen(n) = p * B
  BY Grid
<1> HIDE DEF p
<1>3. CASE p = k
  BY <1>2, <1>3
<1>4. CASE p < k
  <2>1. (p + 1) * B <= k * B /\ (p + 1) * B = p * B + B
    BY <1>4, <1>2, BAssumption
  <2> QED BY <2>1, <1>1, <1>2, BAssumption
<1>5. CASE p > k
  <2>1. (k + 1) * B <= p * B /\ (k + 1) * B = k * B + B
    BY <1>5, <1>2, BAssumption
  <2> QED BY <2>1, <1>1, <1>2, BAssumption
<1> QED BY <1>2, <1>3, <1>4, <1>5

\* The length of a sequence.
LEMMA LenNat == ASSUME NEW s, IsSeq(s) PROVE Len(s) \in Nat
BY DEF IsSeq

\* The empty sequence.
LEMMA EmptyIsSeq == IsSeq(<<>>) /\ Len(<<>>) = 0
BY DEF IsSeq

\* Two files with the same cells have the same cuts.
LEMMA SameCut ==
    ASSUME NEW s, IsSeq(s), NEW t, IsSeq(t), NEW m \in Nat, NEW n \in Nat, m <= n,
           n <= Len(s), n <= Len(t), \A i \in m + 1..n : s[i] = t[i]
    PROVE  SubSeq(s, m + 1, n) = SubSeq(t, m + 1, n)
<1> DEFINE u == SubSeq(s, m + 1, n)
           v == SubSeq(t, m + 1, n)
<1>1. Len(s) \in Nat /\ Len(t) \in Nat
  BY LenNat
<1>2. Cuts(s, m + 1, n, u) /\ Cuts(t, m + 1, n, v)
  BY <1>1, SubSeqIsSeq
<1> HIDE DEF u, v
<1>3. IsSeq(u) /\ IsSeq(v) /\ Len(u) = n - m /\ Len(v) = n - m
  BY <1>2 DEF Cuts
<1>4. \A i \in 1..n - m : u[i] = s[m + i] /\ v[i] = t[m + i] /\ m + i \in m + 1..n
  BY <1>2 DEF Cuts
<1>5. u = v
  BY <1>3, <1>4, SeqsEqual
<1> QED BY <1>5 DEF u, v

\* An append as a join.
LEMMA AppendJoins ==
    ASSUME NEW s, IsSeq(s), NEW e
    PROVE  Append(s, e) = s \o <<e>>
<1> DEFINE a == Append(s, e)
           one == <<e>>
           t == s \o one
<1>1. IsSeq(one) /\ Len(one) = 1 /\ one[1] = e /\ Len(s) \in Nat
  BY SingletonIsSeq, LenNat
<1>2. /\ IsSeq(a) /\ Len(a) = Len(s) + 1 /\ a[Len(s) + 1] = e
      /\ \A i \in 1..Len(s) : a[i] = s[i]
  BY AppendIsSeq
<1> HIDE DEF one
<1>3. Joins(s, one, t)
  BY <1>1, ConcatIsSeq
<1> HIDE DEF a, t
<1>4. /\ IsSeq(t) /\ Len(t) = Len(s) + 1 /\ t[Len(s) + 1] = e
      /\ \A i \in 1..Len(s) : t[i] = s[i]
  BY <1>1, <1>3 DEF Joins
<1>5. \A i \in 1..Len(a) : a[i] = t[i]
  BY <1>1, <1>2, <1>4
<1>6. a = t
  BY <1>2, <1>4, <1>5, SeqsEqual
<1> QED BY <1>6 DEF a, t, one


--------------------------------------------------------------------------------
(* Records. *)

\* The place SetRecord gives a record of a tag.
Place(header, tag) ==
    IF Tagged(header, tag) = {} THEN Len(header) + 1 ELSE Least(Tagged(header, tag))

\* The first cell with a tag, where there is one.
LEMMA LeastTagged ==
    ASSUME NEW cells, Len(cells) \in Nat, NEW tag, Tagged(cells, tag) # {}
    PROVE  /\ Least(Tagged(cells, tag)) \in 1..Len(cells)
           /\ cells[Least(Tagged(cells, tag))][1] = tag
           /\ \A i \in 1..Len(cells) : cells[i][1] = tag => Least(Tagged(cells, tag)) <= i
<1>1. Tagged(cells, tag) \in SUBSET Nat
  BY DEF Tagged
<1>2. /\ Least(Tagged(cells, tag)) \in Tagged(cells, tag)
      /\ \A j \in Tagged(cells, tag) : Least(Tagged(cells, tag)) <= j
  BY <1>1, LeastOf
<1> QED BY <1>2 DEF Tagged

\* A header is a sequence.
LEMMA HeaderIsSeq ==
    ASSUME NEW header, IsHeader(header)
    PROVE  IsSeq(header) /\ Len(header) \in Nat
BY DEF IsHeader, IsSeq

\* r is the header with the cell at the place of its tag.
SetsRecord(header, tag, cell, r) ==
    LET p == Place(header, tag)
    IN  /\ IsHeader(r)
        /\ p \in 1..Len(r)
        /\ Len(r) = IF Tagged(header, tag) = {} THEN Len(header) + 1 ELSE Len(header)
        /\ r[p] = cell
        /\ \A i \in 1..Len(r) : i # p => i \in 1..Len(header) /\ r[i] = header[i]
        /\ Tagged(r, tag) # {}
        /\ Least(Tagged(r, tag)) = p
        /\ \A i \in 1..Len(header) : r[i][1] = header[i][1]

\* A record set is at its place, and the others stay where they are.
LEMMA SetRecordShape ==
    ASSUME NEW header, IsHeader(header), NEW cell,
           NEW tag \in {"datasum", "checksum"}, cell[1] = tag
    PROVE  SetsRecord(header, tag, cell, SetRecord(header, cell))
<1> DEFINE r == SetRecord(header, cell)
           p == Place(header, tag)
<1>1. IsSeq(header) /\ Len(header) \in Nat
  BY HeaderIsSeq
<1>2. cell[1] = tag
  OBVIOUS
<1>3. /\ p \in 1..Len(r)
      /\ Len(r) = IF Tagged(header, tag) = {} THEN Len(header) + 1 ELSE Len(header)
      /\ r[p] = cell
      /\ \A i \in 1..Len(r) : i # p => i \in 1..Len(header) /\ r[i] = header[i]
      /\ IsSeq(r)
  <2>1. CASE Tagged(header, tag) = {}
    <3>1. r = Append(header, cell) /\ p = Len(header) + 1
      BY <2>1, <1>2 DEF SetRecord, Place
    <3> HIDE DEF r, p
    <3> QED BY <3>1, <2>1, <1>1, AppendIsSeq
  <2>2. CASE Tagged(header, tag) # {}
    <3>1. r = [header EXCEPT ![p] = cell] /\ p = Least(Tagged(header, tag))
      BY <2>2, <1>2 DEF SetRecord, Place
    <3>2. p \in 1..Len(header)
      BY <2>2, <3>1, <1>1, LeastTagged
    <3> HIDE DEF r, p
    <3>3. Updates(header, p, cell, r)
      BY <3>1, <3>2, <1>1, ExceptIsSeq
    <3> QED BY <3>2, <3>3, <2>2, <1>1 DEF Updates
  <2> QED BY <2>1, <2>2
<1> HIDE DEF r, p
<1>4. \A i \in 1..Len(header) : r[i][1] = header[i][1] /\ i \in 1..Len(r)
  <2>1. ASSUME NEW i \in 1..Len(header), i = p PROVE header[i][1] = tag
    BY <2>1, <1>1, LeastTagged DEF p, Place
  <2> QED BY <2>1, <1>2, <1>3, <1>1
<1>5. IsHeader(r)
  <2>1. ASSUME NEW i \in 1..Len(r), i # p
        PROVE  \/ /\ r[i][1] = "open"
                  /\ r[i][2] \in [ext : BOOLEAN, ascii : BOOLEAN, len : Nat]
               \/ r[i][1] \in {"card", "datasum", "checksum"}
               \/ r[i] = Blank
    BY <2>1, <1>3 DEF IsHeader
  <2>2. r[p][1] \in {"card", "datasum", "checksum"}
    BY <1>2, <1>3
  <2>3. Len(r) \in Nat /\ r = [i \in 1..Len(r) |-> r[i]]
    BY <1>3 DEF IsSeq
  <2> QED BY <2>1, <2>2, <2>3 DEF IsHeader
<1>6. p \in Tagged(r, tag)
  BY <1>2, <1>3 DEF Tagged
<1>7. \A i \in Tagged(r, tag) : p <= i
  <2>1. SUFFICES ASSUME NEW i \in 1..Len(r), r[i][1] = tag, i # p PROVE p <= i
    BY <1>3, <1>1 DEF Tagged
  <2>2. i \in 1..Len(header) /\ header[i][1] = tag
    BY <2>1, <1>3
  <2>3. Tagged(header, tag) # {}
    BY <2>2 DEF Tagged
  <2> QED BY <2>2, <2>3, <1>1, LeastTagged DEF p, Place
<1>8. Tagged(r, tag) \in SUBSET Nat
  BY <1>3 DEF Tagged
<1>9. Least(Tagged(r, tag)) = p
  BY <1>6, <1>7, <1>8, LeastIs
<1>10. SetsRecord(header, tag, cell, r)
  BY <1>3, <1>4, <1>5, <1>6, <1>9 DEF SetsRecord, p
<1> QED BY <1>10 DEF r

\* r is the records of the header as they are rendered.
RecordsOf(header, signing, r) ==
    LET d == Place(header, "datasum")
        c == Least(Tagged(r, "checksum"))
    IN  /\ IsHeader(r)
        /\ Len(r) >= Len(header)
        /\ \A i \in 1..Len(header) :
              /\ r[i][1] = header[i][1]
              /\ header[i][1] \notin {"datasum", "checksum"} => r[i] = header[i]
        /\ \A i \in Len(header) + 1..Len(r) : r[i][1] \in {"datasum", "checksum"}
        /\ signing.signs =>
              /\ Tagged(r, "datasum") # {}
              /\ Least(Tagged(r, "datasum")) = d
              /\ d \in 1..Len(r)
              /\ r[d] = Datasum(signing.sum)
              /\ Tagged(r, "checksum") # {}
              /\ c \in 1..Len(r)
              /\ c # d
              /\ r[c] = Placeholder

\* `render_records` keeps every record of the header and signs at most two.
LEMMA RecordsShape ==
    ASSUME NEW header, IsHeader(header), NEW signing
    PROVE  RecordsOf(header, signing, RenderRecords(header, signing))
<1> DEFINE r == RenderRecords(header, signing)
           d == Place(header, "datasum")
           c == Least(Tagged(r, "checksum"))
<1>1. Datasum(signing.sum)[1] = "datasum" /\ Placeholder[1] = "checksum"
  BY DEF Datasum, Placeholder
<1>2. CASE ~signing.signs
  <2>1. r = header
    BY <1>2 DEF RenderRecords
  <2> QED BY <2>1, <1>2, HeaderIsSeq DEF RecordsOf
<1>3. CASE signing.signs
  <2> DEFINE s == SetRecord(header, Datasum(signing.sum))
             q == Place(s, "checksum")
  <2>1. /\ IsHeader(s)
        /\ d \in 1..Len(s)
        /\ Len(s) = IF Tagged(header, "datasum") = {} THEN Len(header) + 1 ELSE Len(header)
        /\ s[d] = Datasum(signing.sum)
        /\ \A i \in 1..Len(s) : i # d => i \in 1..Len(header) /\ s[i] = header[i]
        /\ Tagged(s, "datasum") # {}
        /\ Least(Tagged(s, "datasum")) = d
        /\ \A i \in 1..Len(header) : s[i][1] = header[i][1]
    <3>1. SetsRecord(header, "datasum", Datasum(signing.sum), s)
      BY <1>1, SetRecordShape
    <3> QED BY <3>1 DEF SetsRecord
  <2>2. r = SetRecord(s, Placeholder)
    BY <1>3 DEF RenderRecords
  <2> HIDE DEF s
  <2>3. /\ IsHeader(r)
        /\ q \in 1..Len(r)
        /\ Len(r) = IF Tagged(s, "checksum") = {} THEN Len(s) + 1 ELSE Len(s)
        /\ r[q] = Placeholder
        /\ \A i \in 1..Len(r) : i # q => i \in 1..Len(s) /\ r[i] = s[i]
        /\ Tagged(r, "checksum") # {}
        /\ Least(Tagged(r, "checksum")) = q
        /\ \A i \in 1..Len(s) : r[i][1] = s[i][1]
    <3>1. SetsRecord(s, "checksum", Placeholder, r)
      BY <1>1, <2>1, <2>2, SetRecordShape
    <3> QED BY <3>1 DEF SetsRecord
  <2>4. /\ Len(header) \in Nat /\ Len(s) \in Nat /\ Len(r) \in Nat
        /\ Len(r) >= Len(s) /\ Len(s) >= Len(header)
    BY <2>1, <2>3, HeaderIsSeq
  <2> HIDE DEF r, d, q
  <2>5. s[d][1] = "datasum" /\ r[q][1] = "checksum"
    BY <2>1, <2>3 DEF Datasum, Placeholder
  <2>6. r[d][1] = "datasum" /\ d # q /\ d \in 1..Len(r)
    BY <2>1, <2>3, <2>4, <2>5
  <2>7. r[d] = Datasum(signing.sum)
    BY <2>1, <2>3, <2>6
  <2>8. d \in Tagged(r, "datasum")
    BY <2>6 DEF Tagged
  <2>9. Tagged(r, "datasum") \in SUBSET Nat
    BY <2>4 DEF Tagged
  <2>10. \A i \in Tagged(r, "datasum") : d <= i
    <3>1. SUFFICES ASSUME NEW i \in 1..Len(r), r[i][1] = "datasum" PROVE d <= i
      BY DEF Tagged
    <3>2. i \in 1..Len(s) /\ s[i][1] = "datasum"
      BY <3>1, <2>3, <2>5
    <3> QED BY <3>2, <2>1, <2>4, LeastTagged
  <2>11. Least(Tagged(r, "datasum")) = d
    BY <2>8, <2>9, <2>10, LeastIs
  <2>12. \A i \in 1..Len(header) :
            /\ i \in 1..Len(s) /\ i \in 1..Len(r)
            /\ r[i][1] = header[i][1]
            /\ header[i][1] \notin {"datasum", "checksum"} => r[i] = header[i]
    <3>1. TAKE i \in 1..Len(header)
    <3>2. i \in 1..Len(s) /\ i \in 1..Len(r)
      BY <2>4
    <3>3. s[i][1] = header[i][1] /\ r[i][1] = s[i][1]
      BY <3>2, <2>1, <2>3
    <3>4. ASSUME header[i][1] \notin {"datasum", "checksum"} PROVE r[i] = header[i]
      <4>1. i # d /\ i # q
        BY <3>3, <3>4, <2>5, <2>6
      <4> QED BY <4>1, <3>2, <2>1, <2>3
    <3> QED BY <3>2, <3>3, <3>4
  <2>13. \A i \in Len(header) + 1..Len(r) : r[i][1] \in {"datasum", "checksum"}
    <3>1. TAKE i \in Len(header) + 1..Len(r)
    <3>2. CASE i = q
      BY <3>2, <2>5
    <3>3. CASE i # q
      <4>1. i \in 1..Len(r)
        BY <2>4
      <4>2. i \in 1..Len(s) /\ r[i] = s[i]
        BY <3>3, <4>1, <2>3
      <4>3. i = d
        BY <4>2, <2>1, <2>4
      <4> QED BY <4>3, <2>6
    <3> QED BY <3>2, <3>3
  <2>14. c = q
    BY <2>3 DEF c
  <2> HIDE DEF c
  <2>15. /\ IsHeader(r)
         /\ Len(r) >= Len(header)
         /\ \A i \in 1..Len(header) :
               /\ r[i][1] = header[i][1]
               /\ header[i][1] \notin {"datasum", "checksum"} => r[i] = header[i]
         /\ \A i \in Len(header) + 1..Len(r) : r[i][1] \in {"datasum", "checksum"}
    BY <2>3, <2>4, <2>12, <2>13
  <2>16. /\ Tagged(r, "datasum") # {}
         /\ Least(Tagged(r, "datasum")) = d
         /\ d \in 1..Len(r)
         /\ r[d] = Datasum(signing.sum)
         /\ Tagged(r, "checksum") # {}
         /\ c \in 1..Len(r)
         /\ c # d
         /\ r[c] = Placeholder
    BY <2>3, <2>6, <2>7, <2>8, <2>11, <2>14
  <2>17. RecordsOf(header, signing, r)
    BY <2>15, <2>16 DEF RecordsOf, d, c
  <2> QED BY <2>17 DEF r
<1> QED BY <1>2, <1>3

\* What a record is set to does not matter to its place, nor to any other record.
LEMMA SetRecordDiffer ==
    ASSUME NEW header, IsHeader(header), NEW a, NEW b,
           NEW tag \in {"datasum", "checksum"}, a[1] = tag, b[1] = tag
    PROVE  /\ Len(SetRecord(header, a)) = Len(SetRecord(header, b))
           /\ \A i \in 1..Len(SetRecord(header, a)) :
                 /\ i # Place(header, tag) => SetRecord(header, a)[i] = SetRecord(header, b)[i]
                 /\ SetRecord(header, a)[i][1] = SetRecord(header, b)[i][1]
<1>1. SetsRecord(header, tag, a, SetRecord(header, a))
  BY SetRecordShape
<1>2. SetsRecord(header, tag, b, SetRecord(header, b))
  BY SetRecordShape
<1> QED BY <1>1, <1>2 DEF SetsRecord

\* Two signed renderings of one header differ at the DATASUM record alone.
LEMMA RecordsDiffer ==
    ASSUME NEW header, IsHeader(header), NEW a, NEW b, a.signs, b.signs
    PROVE  LET ra == RenderRecords(header, a)
               rb == RenderRecords(header, b)
           IN  /\ Len(ra) = Len(rb)
               /\ Least(Tagged(ra, "checksum")) = Least(Tagged(rb, "checksum"))
               /\ \A i \in 1..Len(ra) : i # Place(header, "datasum") => ra[i] = rb[i]
<1> DEFINE sa == SetRecord(header, Datasum(a.sum))
           sb == SetRecord(header, Datasum(b.sum))
           d  == Place(header, "datasum")
           q  == Place(sa, "checksum")
           ra == RenderRecords(header, a)
           rb == RenderRecords(header, b)
<1>1. /\ Datasum(a.sum)[1] = "datasum" /\ Datasum(b.sum)[1] = "datasum"
      /\ Placeholder[1] = "checksum"
  BY DEF Datasum, Placeholder
<1>2. /\ Len(sa) = Len(sb)
      /\ \A i \in 1..Len(sa) : (i # d => sa[i] = sb[i]) /\ sa[i][1] = sb[i][1]
  BY <1>1, SetRecordDiffer
<1>3. IsHeader(sa) /\ IsHeader(sb)
  <2>1. SetsRecord(header, "datasum", Datasum(a.sum), sa)
    BY <1>1, SetRecordShape
  <2>2. SetsRecord(header, "datasum", Datasum(b.sum), sb)
    BY <1>1, SetRecordShape
  <2> QED BY <2>1, <2>2 DEF SetsRecord
<1>4. ra = SetRecord(sa, Placeholder) /\ rb = SetRecord(sb, Placeholder)
  BY DEF RenderRecords
<1> HIDE DEF sa, sb, d, ra, rb
<1>5. Tagged(sa, "checksum") = Tagged(sb, "checksum")
  BY <1>2 DEF Tagged
<1>6. Place(sb, "checksum") = q
  BY <1>2, <1>5 DEF Place
<1> HIDE DEF q
<1>7. SetsRecord(sa, "checksum", Placeholder, ra)
  BY <1>1, <1>3, <1>4, SetRecordShape
<1>8. SetsRecord(sb, "checksum", Placeholder, rb)
  BY <1>1, <1>3, <1>4, SetRecordShape
<1>9. Len(ra) = Len(rb)
  BY <1>2, <1>5, <1>7, <1>8 DEF SetsRecord
<1>10. \A i \in 1..Len(ra) : i # d => ra[i] = rb[i]
  BY <1>2, <1>6, <1>7, <1>8, <1>9 DEF SetsRecord, q
<1>11. Least(Tagged(ra, "checksum")) = Least(Tagged(rb, "checksum"))
  BY <1>6, <1>7, <1>8 DEF SetsRecord, q
<1> QED BY <1>9, <1>10, <1>11 DEF ra, rb, d


--------------------------------------------------------------------------------
(* A header rendered. *)

IsSigning(signing) ==
    /\ signing.signs \in BOOLEAN
    /\ signing.final \in BOOLEAN
    /\ signing.final => signing.signs

\* out is a header unit: the records, the spare ones, END and the block fill.
Rendered(header, signing, spare, out) ==
    LET r == RenderRecords(header, signing)
        c == Least(Tagged(r, "checksum"))
    IN  /\ IsSeq(out)
        /\ Len(r) \in Nat
        /\ Len(out) = PaddedLen(Len(r) + spare + 1)
        /\ Len(out) >= Len(r) + spare + 1
        /\ \A i \in 1..Len(r) : out[i][1] = r[i][1]
        /\ \A i \in 1..Len(r) : ~signing.final \/ i # c => out[i] = r[i]
        /\ \A i \in Len(r) + 1..Len(out) :
              out[i] = IF i = Len(r) + spare + 1 THEN EndRecord ELSE Blank
        /\ signing.final => out[c] = Checksum([out EXCEPT ![c] = Placeholder], signing.sum)

\* `render_into`: where each record is, that END is the first after the spare
\* ones, and what CHECKSUM is computed over.
LEMMA RenderShape ==
    ASSUME NEW header, IsHeader(header), NEW signing, IsSigning(signing), NEW spare \in Nat
    PROVE  Rendered(header, signing, spare, RenderInto(header, signing, spare))
<1> DEFINE r    == RenderRecords(header, signing)
           c    == Least(Tagged(r, "checksum"))
           unit == r \o Fill(Blank, spare) \o <<EndRecord>>
           pad  == Padding(Len(unit))
           base == unit \o Fill(Blank, pad)
           out  == RenderInto(header, signing, spare)
<1>1. RecordsOf(header, signing, r)
  BY RecordsShape
<1>2. IsSeq(r) /\ Len(r) \in Nat
  BY <1>1, HeaderIsSeq DEF RecordsOf
<1>3. out = IF signing.final THEN [base EXCEPT ![c] = Checksum(base, signing.sum)] ELSE base
  BY DEF RenderInto
<1> HIDE DEF r, out
<1> DEFINE fill == Fill(Blank, spare)
           s    == r \o fill
           one  == <<EndRecord>>
<1>4. /\ IsSeq(fill) /\ Len(fill) = spare
      /\ \A i \in 1..spare : fill[i] = Blank
  BY FillIsSeq
<1> HIDE DEF fill
<1>5. Joins(r, fill, s)
  BY <1>2, <1>4, ConcatIsSeq
<1> HIDE DEF s
<1>6. IsSeq(one) /\ Len(one) = 1 /\ one[1] = EndRecord
  BY SingletonIsSeq
<1> HIDE DEF one
<1>7. unit = s \o one
  BY DEF s, fill, one
<1> HIDE DEF unit
<1>8. IsSeq(s)
  BY <1>5 DEF Joins
<1>9. Joins(s, one, unit)
  BY <1>8, <1>6, <1>7, ConcatIsSeq
<1>10. /\ IsSeq(unit) /\ Len(s) = Len(r) + spare /\ Len(unit) = Len(s) + 1
       /\ \A i \in 1..Len(s) : unit[i] = s[i]
       /\ unit[Len(s) + 1] = EndRecord
  <2>1. Len(s) = Len(r) + spare
    BY <1>5, <1>4 DEF Joins
  <2>2. 1 \in 1..Len(one)
    BY <1>6
  <2> QED BY <2>1, <2>2, <1>6, <1>9 DEF Joins
<1>11. /\ \A i \in 1..Len(r) : s[i] = r[i]
       /\ \A i \in 1..spare : s[Len(r) + i] = Blank
  BY <1>4, <1>5 DEF Joins
<1>12. /\ IsSeq(unit) /\ Len(unit) = Len(r) + spare + 1
       /\ Len(s) = Len(r) + spare
       /\ \A i \in 1..Len(r) : unit[i] = r[i]
       /\ \A i \in 1..spare : unit[Len(r) + i] = Blank
       /\ unit[Len(r) + spare + 1] = EndRecord
  <2>1. \A i \in 1..Len(r) : i \in 1..Len(s) /\ unit[i] = r[i]
    BY <1>2, <1>10, <1>11
  <2>2. ASSUME NEW i \in 1..spare PROVE unit[Len(r) + i] = Blank
    <3>1. Len(r) + i \in 1..Len(s)
      BY <1>2, <1>10
    <3> QED BY <3>1, <1>10, <1>11
  <2>3. Len(s) + 1 = Len(r) + spare + 1
    BY <1>10
  <2> QED BY <2>1, <2>2, <2>3, <1>10
<1>13. pad \in Nat /\ Len(unit) + pad = PaddedLen(Len(unit))
  BY <1>2, <1>12, Grid, BAssumption
<1> HIDE DEF pad
<1> DEFINE rest == Fill(Blank, pad)
<1>14. /\ IsSeq(rest) /\ Len(rest) = pad
       /\ \A i \in 1..pad : rest[i] = Blank
  BY <1>13, FillIsSeq
<1>15. base = unit \o rest
  OBVIOUS
<1> HIDE DEF rest, base
<1>16. Joins(unit, rest, base)
  BY <1>12, <1>14, <1>15, ConcatIsSeq
<1>17. /\ IsSeq(base) /\ Len(base) = Len(unit) + pad
       /\ \A i \in 1..Len(unit) : base[i] = unit[i]
       /\ \A i \in 1..pad : base[Len(unit) + i] = Blank
  BY <1>14, <1>16 DEF Joins
<1>18. \A i \in 1..Len(r) : base[i] = r[i]
  BY <1>2, <1>12, <1>17
<1>19. \A i \in Len(r) + 1..Len(base) :
          base[i] = IF i = Len(r) + spare + 1 THEN EndRecord ELSE Blank
  <2>1. TAKE i \in Len(r) + 1..Len(base)
  <2>2. CASE i <= Len(r) + spare
    <3>1. i - Len(r) \in 1..spare /\ i = Len(r) + (i - Len(r)) /\ i \in 1..Len(unit)
      BY <2>2, <1>2, <1>12
    <3>2. unit[Len(r) + (i - Len(r))] = Blank
      BY <3>1, <1>12
    <3>3. base[i] = Blank
      BY <3>1, <3>2, <1>17
    <3>4. i # Len(r) + spare + 1
      BY <2>2, <1>2
    <3> QED BY <3>3, <3>4
  <2>3. CASE i = Len(r) + spare + 1
    <3>1. i \in 1..Len(unit) /\ unit[i] = EndRecord
      BY <2>3, <1>2, <1>12
    <3> QED BY <3>1, <2>3, <1>17
  <2>4. CASE i > Len(r) + spare + 1
    <3>1. i - Len(unit) \in 1..pad /\ i = Len(unit) + (i - Len(unit))
      BY <2>4, <1>2, <1>12, <1>13, <1>17
    <3>2. base[Len(unit) + (i - Len(unit))] = Blank
      BY <3>1, <1>17
    <3>3. i # Len(r) + spare + 1
      BY <2>4, <1>2
    <3> QED BY <3>1, <3>2, <3>3
  <2> QED BY <2>2, <2>3, <2>4, <1>2
<1>20. Len(base) = PaddedLen(Len(r) + spare + 1) /\ Len(base) >= Len(r) + spare + 1
  BY <1>2, <1>12, <1>13, <1>17
<1>21. CASE ~signing.final
  <2>1. out = base
    BY <1>3, <1>21
  <2>2. Rendered(header, signing, spare, base)
    BY <1>2, <1>17, <1>18, <1>19, <1>20, <1>21 DEF Rendered, r
  <2> QED BY <2>1, <2>2 DEF out
<1>22. CASE signing.final
  <2>1. c \in 1..Len(r) /\ r[c] = Placeholder
    BY <1>1, <1>22 DEF RecordsOf, IsSigning
  <2>2. c \in 1..Len(base)
    BY <2>1, <1>2, <1>20
  <2> HIDE DEF c
  <2> DEFINE sum == Checksum(base, signing.sum)
             new == [base EXCEPT ![c] = sum]
             old == [new EXCEPT ![c] = Placeholder]
  <2>3. out = new
    BY <1>3, <1>22
  <2> HIDE DEF sum
  <2>4. Updates(base, c, sum, new)
    BY <2>2, <1>17, ExceptIsSeq
  <2> HIDE DEF new
  <2>5. Updates(new, c, Placeholder, old)
    <3>1. IsSeq(new) /\ c \in 1..Len(new)
      BY <2>2, <2>4 DEF Updates
    <3> QED BY <3>1, ExceptIsSeq
  <2> HIDE DEF old
  <2>6. \A i \in 1..Len(old) : old[i] = base[i]
    <3>1. /\ Len(old) = Len(new) /\ old[c] = Placeholder
          /\ \A i \in 1..Len(new) : i # c => old[i] = new[i]
      BY <2>5 DEF Updates
    <3>2. /\ Len(new) = Len(base)
          /\ \A i \in 1..Len(base) : i # c => new[i] = base[i]
      BY <2>4 DEF Updates
    <3>3. base[c] = Placeholder
      BY <2>1, <1>18
    <3> QED BY <3>1, <3>2, <3>3
  <2>7. old = base
    BY <2>4, <2>5, <2>6, <1>17, SeqsEqual DEF Updates
  <2>8. new[c] = Checksum([new EXCEPT ![c] = Placeholder], signing.sum)
    BY <2>4, <2>7 DEF old, sum, Updates
  <2>9. sum[1] = "checksum" /\ r[c][1] = "checksum"
    BY <2>1 DEF sum, Checksum, Placeholder
  <2>10. \A i \in 1..Len(r) : i \in 1..Len(base)
    BY <1>2, <1>20
  <2>11. /\ \A i \in 1..Len(r) : new[i][1] = r[i][1]
         /\ \A i \in 1..Len(r) : i # c => new[i] = r[i]
    BY <2>4, <2>9, <2>10, <1>18 DEF Updates
  <2>12. \A i \in Len(r) + 1..Len(new) :
            new[i] = IF i = Len(r) + spare + 1 THEN EndRecord ELSE Blank
    <3>1. TAKE i \in Len(r) + 1..Len(new)
    <3>2. i # c /\ i \in 1..Len(base)
      BY <2>1, <2>4, <1>2 DEF Updates
    <3> QED BY <3>2, <2>4, <1>19 DEF Updates
  <2>13. Rendered(header, signing, spare, new)
    BY <2>4, <2>8, <2>11, <2>12, <1>2, <1>20, <1>22 DEF Rendered, Updates, r, c
  <2> QED BY <2>3, <2>13 DEF out
<1> QED BY <1>21, <1>22 DEF IsSigning


--------------------------------------------------------------------------------
(* A header read back. *)

\* What a parse keeps of a unit whose END is its cell e.
Parsed(unit, e, h) ==
    /\ IsSeq(h)
    /\ Len(h) \in 0..e - 1
    /\ \A i \in 1..Len(h) : h[i] = unit[i]
    /\ \A i \in Len(h) + 1..e - 1 : unit[i] = Blank
    /\ \A k \in 0..e - 1 : (\A i \in k + 1..e - 1 : unit[i] = Blank) => Len(h) <= k

\* `Header::parse` keeps the records before END but for the blank ones at the
\* end.
LEMMA ParseShape ==
    ASSUME NEW unit, IsSeq(unit), NEW e \in 1..Len(unit), unit[e][1] = "end",
           \A i \in 1..e - 1 : unit[i][1] # "end"
    PROVE  /\ Tagged(unit, "end") # {}
           /\ Least(Tagged(unit, "end")) = e
           /\ Parsed(unit, e, ParseHeader(unit))
<1> DEFINE kept == {n \in 0..e - 1 : \A i \in n + 1..e - 1 : unit[i] = Blank}
           k    == Least(kept)
<1>1. Len(unit) \in Nat
  BY DEF IsSeq
<1>2. e \in Tagged(unit, "end") /\ Tagged(unit, "end") \in SUBSET Nat
  BY <1>1 DEF Tagged
<1>3. \A j \in Tagged(unit, "end") : e <= j
  BY <1>1 DEF Tagged
<1>4. Least(Tagged(unit, "end")) = e
  BY <1>2, <1>3, LeastIs
<1>5. e - 1 \in kept /\ kept \in SUBSET Nat
  BY <1>1
<1> HIDE DEF kept
<1>6. k \in kept /\ \A j \in kept : k <= j
  BY <1>5, LeastOf
<1>7. k \in 0..e - 1 /\ \A i \in k + 1..e - 1 : unit[i] = Blank
  BY <1>6 DEF kept
<1>8. \A j \in 0..e - 1 : (\A i \in j + 1..e - 1 : unit[i] = Blank) => k <= j
  BY <1>6 DEF kept
<1>9. ParseHeader(unit) = SubSeq(unit, 1, k)
  BY <1>4 DEF ParseHeader, kept
<1> HIDE DEF k
<1>10. Cuts(unit, 1, k, ParseHeader(unit))
  BY <1>1, <1>7, <1>9, SubSeqIsSeq
<1>11. Parsed(unit, e, ParseHeader(unit))
  BY <1>7, <1>8, <1>10 DEF Cuts, Parsed
<1> QED BY <1>2, <1>4, <1>11

\* Two headers with the same open records have the same roles and kinds.
LEMMA SameRoles ==
    ASSUME NEW g, NEW h, Tagged(g, "open") = Tagged(h, "open"),
           \A i \in Tagged(h, "open") : g[i] = h[i], NEW primary
    PROVE  /\ Roles(g, primary) = Roles(h, primary)
           /\ HasRole(g, primary) <=> HasRole(h, primary)
           /\ IsHeader(h) /\ HasRole(h, primary) => KindOf(g, primary) = KindOf(h, primary)
<1>1. Roles(g, primary) = Roles(h, primary)
  BY DEF Roles
<1>2. ASSUME IsHeader(h), HasRole(h, primary) PROVE KindOf(g, primary) = KindOf(h, primary)
  <2>1. Roles(h, primary) \in SUBSET Nat /\ Roles(h, primary) # {}
    BY <1>2 DEF Roles, Tagged, HasRole, IsHeader
  <2>2. Least(Roles(h, primary)) \in Tagged(h, "open")
    BY <2>1, LeastOf DEF Roles
  <2> QED BY <1>1, <2>2 DEF KindOf
<1> QED BY <1>1, <1>2 DEF HasRole

\* The kind of a header.
LEMMA KindShape ==
    ASSUME NEW h, IsHeader(h), NEW primary \in BOOLEAN, HasRole(h, primary)
    PROVE  /\ KindOf(h, primary) \in [ext : BOOLEAN, ascii : BOOLEAN, len : Nat]
           /\ KindOf(h, primary).ext = ~primary
<1> DEFINE i == Least(Roles(h, primary))
<1>1. Roles(h, primary) \in SUBSET Nat /\ Roles(h, primary) # {}
  BY DEF Roles, Tagged, HasRole, IsHeader
<1>2. i \in Roles(h, primary)
  BY <1>1, LeastOf
<1>3. i \in 1..Len(h) /\ h[i][1] = "open" /\ h[i][2].ext = ~primary
  BY <1>2 DEF Roles, Tagged
<1>4. h[i][2] \in [ext : BOOLEAN, ascii : BOOLEAN, len : Nat]
  BY <1>3 DEF IsHeader, Blank
<1> QED BY <1>3, <1>4 DEF KindOf

\* What a parse of a unit that starts with a rendered header finds.
ParsesTo(header, signing, spare, unit) ==
    LET r == RenderRecords(header, signing)
        h == ParseHeader(unit)
    IN  /\ Tagged(unit, "end") # {}
        /\ Least(Tagged(unit, "end")) = Len(r) + spare + 1
        /\ IsSeq(h)
        /\ Len(h) <= Len(r)
        /\ \A i \in 1..Len(h) : h[i] = RenderInto(header, signing, spare)[i]
        /\ \A t \in {"open", "datasum", "checksum"} : Tagged(h, t) = Tagged(r, t)
        /\ \A primary \in BOOLEAN :
              /\ HasRole(h, primary) <=> HasRole(header, primary)
              /\ HasRole(header, primary) => KindOf(h, primary) = KindOf(header, primary)

\* `Header::parse` gives back what `render_into` wrote: the same records in the
\* same places, and so the same role and kind.
LEMMA ParseOfRender ==
    ASSUME NEW header, IsHeader(header), NEW signing, IsSigning(signing), NEW spare \in Nat,
           NEW unit, IsSeq(unit), Len(RenderInto(header, signing, spare)) <= Len(unit),
           \A i \in 1..Len(RenderInto(header, signing, spare)) :
              unit[i] = RenderInto(header, signing, spare)[i]
    PROVE  ParsesTo(header, signing, spare, unit)
<1> DEFINE r   == RenderRecords(header, signing)
           out == RenderInto(header, signing, spare)
           e   == Len(r) + spare + 1
           h   == ParseHeader(unit)
           c   == Least(Tagged(r, "checksum"))
<1>1. RecordsOf(header, signing, r)
  BY RecordsShape
<1>2. Rendered(header, signing, spare, out)
  BY RenderShape
<1>3. Len(unit) \in Nat /\ Len(out) \in Nat /\ Len(r) \in Nat /\ Len(header) \in Nat
  BY <1>2, HeaderIsSeq DEF IsSeq, Rendered
<1> HIDE DEF r, out
<1>4. \A i \in 1..Len(r) : r[i][1] \in {"open", "card", "datasum", "checksum", "blank"}
  BY <1>1 DEF RecordsOf, IsHeader, Blank
<1>5. /\ Len(out) >= e
      /\ \A i \in 1..Len(r) : out[i][1] = r[i][1]
      /\ \A i \in Len(r) + 1..Len(out) : out[i] = IF i = e THEN EndRecord ELSE Blank
      /\ \A i \in 1..Len(r) : ~signing.final \/ i # c => out[i] = r[i]
  BY <1>2 DEF Rendered, r
<1>6. e \in 1..Len(out) /\ unit[e][1] = "end"
  BY <1>3, <1>5 DEF EndRecord, out
<1>7. \A i \in 1..e - 1 : unit[i] = out[i] /\ unit[i][1] # "end"
  <2>1. TAKE i \in 1..e - 1
  <2>2. i \in 1..Len(out) /\ unit[i] = out[i]
    BY <1>3, <1>5 DEF out
  <2>3. CASE i <= Len(r)
    <3>1. i \in 1..Len(r)
      BY <2>3, <1>3
    <3>2. r[i][1] # "end"
      BY <3>1, <1>4
    <3> QED BY <3>1, <3>2, <2>2, <1>5
  <2>4. CASE i > Len(r)
    <3>1. i \in Len(r) + 1..Len(out) /\ i # e
      BY <2>2, <2>4, <1>3
    <3>2. out[i] = Blank
      BY <3>1, <1>5
    <3> QED BY <3>2, <2>2 DEF Blank
  <2> QED BY <2>2, <2>3, <2>4, <1>3
<1>8. e \in 1..Len(unit)
  BY <1>3, <1>6 DEF out
<1>9. /\ Tagged(unit, "end") # {} /\ Least(Tagged(unit, "end")) = e
      /\ Parsed(unit, e, h)
  BY <1>6, <1>7, <1>8, ParseShape
<1> HIDE DEF h
<1>10. Len(h) \in 0..e - 1 /\ \A i \in 1..Len(h) : i \in 1..e - 1 /\ h[i] = out[i]
  BY <1>3, <1>7, <1>9 DEF Parsed
<1>11. \A i \in Len(h) + 1..e - 1 : out[i] = Blank
  <2>1. TAKE i \in Len(h) + 1..e - 1
  <2>2. i \in 1..e - 1
    BY <1>3, <1>10
  <2> QED BY <2>2, <1>7, <1>9 DEF Parsed
<1>12. Len(h) <= Len(r)
  <2>1. ASSUME NEW i \in Len(r) + 1..e - 1 PROVE unit[i] = Blank
    <3>1. i \in 1..e - 1 /\ i \in Len(r) + 1..Len(out) /\ i # e
      BY <1>3, <1>5
    <3> QED BY <3>1, <1>5, <1>7
  <2>2. Len(r) \in 0..e - 1
    BY <1>3
  <2> QED BY <2>1, <2>2, <1>9 DEF Parsed
<1>13. \A t \in {"open", "datasum", "checksum"} : Tagged(h, t) = Tagged(r, t)
  <2>1. TAKE t \in {"open", "datasum", "checksum"}
  <2>2. ASSUME NEW i \in 1..Len(h), h[i][1] = t PROVE i \in 1..Len(r) /\ r[i][1] = t
    <3>1. i \in 1..Len(r) /\ h[i] = out[i]
      BY <2>2, <1>3, <1>10, <1>12
    <3>2. \A j \in 1..Len(r) : out[j][1] = r[j][1]
      BY <1>5
    <3>3. out[i][1] = r[i][1]
      BY <3>1, <3>2
    <3> QED BY <2>2, <3>1, <3>3
  <2>3. ASSUME NEW i \in 1..Len(r), r[i][1] = t PROVE i \in 1..Len(h) /\ h[i][1] = t
    <3>1. i \in 1..e - 1 /\ out[i][1] = t
      BY <2>3, <1>3, <1>5
    <3>2. i \notin Len(h) + 1..e - 1
      BY <3>1, <1>11 DEF Blank
    <3>3. i \in 1..Len(h)
      BY <3>1, <3>2, <1>10
    <3> QED BY <3>1, <3>3, <1>10
  <2> QED BY <2>2, <2>3 DEF Tagged
<1>14. Tagged(r, "open") = Tagged(header, "open")
  <2>1. ASSUME NEW i \in 1..Len(r), r[i][1] = "open" PROVE i \in 1..Len(header)
    BY <2>1, <1>1, <1>3 DEF RecordsOf
  <2>2. \A i \in 1..Len(header) : i \in 1..Len(r) /\ r[i][1] = header[i][1]
    BY <1>1, <1>3 DEF RecordsOf
  <2> QED BY <2>1, <2>2 DEF Tagged
<1>15. \A i \in Tagged(header, "open") : h[i] = header[i]
  <2>1. TAKE i \in Tagged(header, "open")
  <2>2. i \in Tagged(h, "open") /\ i \in Tagged(r, "open")
    BY <1>13, <1>14
  <2>3. i \in 1..Len(h) /\ i \in 1..Len(r) /\ i \in 1..Len(header) /\ header[i][1] = "open"
    BY <2>2 DEF Tagged
  <2>4. r[i] = header[i]
    BY <2>3, <1>1 DEF RecordsOf
  <2>5. ~signing.final \/ i # c
    <3>1. SUFFICES ASSUME signing.final, i = c PROVE FALSE
      BY DEF IsSigning
    <3>2. r[i] = Placeholder
      BY <3>1, <1>1 DEF RecordsOf, IsSigning
    <3> QED BY <3>2, <2>3, <2>4 DEF Placeholder
  <2>6. out[i] = r[i]
    BY <2>3, <2>5, <1>5
  <2> QED BY <2>3, <2>4, <2>6, <1>10
<1>16. \A primary \in BOOLEAN :
          /\ HasRole(h, primary) <=> HasRole(header, primary)
          /\ HasRole(header, primary) => KindOf(h, primary) = KindOf(header, primary)
  BY <1>13, <1>14, <1>15, SameRoles
<1>17. IsSeq(h)
  BY <1>9 DEF Parsed
<1> QED BY <1>9, <1>10, <1>12, <1>13, <1>16, <1>17 DEF ParsesTo, r, out, h


--------------------------------------------------------------------------------
(* An HDU in a file. *)

\* The data unit written after a header of a kind.
UnitOf(kind) == Data(kind.len) \o DataFill(kind)

SigningOf(signs, sum) == IF signs THEN WithDataSum(sum) ELSE Unsigned

\* The header unit a writer gives an HDU, and all of the HDU.
HeaderCells(header, signs, spare, primary) ==
    RenderInto(header, SigningOf(signs, UnitOf(KindOf(header, primary))), spare)
HduCells(header, signs, spare, primary) ==
    HeaderCells(header, signs, spare, primary) \o UnitOf(KindOf(header, primary))

\* A file has the cells from an offset on.
Holds(file, at, cells) ==
    /\ at + Len(cells) <= Len(file)
    /\ \A i \in 1..Len(cells) : file[at + i] = cells[i]

\* The signing of an HDU whose data is known is one of a header.
LEMMA SigningOfIsSigning ==
    ASSUME NEW signs \in BOOLEAN, NEW sum
    PROVE  /\ IsSigning(SigningOf(signs, sum))
           /\ SigningOf(signs, sum).signs = signs
           /\ SigningOf(signs, sum).final = signs
           /\ signs => SigningOf(signs, sum).sum = sum
BY DEF IsSigning, SigningOf, WithDataSum, Unsigned

\* A data unit and its fill end at the block boundary.
LEMMA UnitShape ==
    ASSUME NEW kind, kind.len \in Nat
    PROVE  /\ IsSeq(UnitOf(kind))
           /\ Len(UnitOf(kind)) = PaddedLen(kind.len)
           /\ PaddedLen(kind.len) \in Nat
<1> DEFINE cell == IF kind.ascii THEN Blank ELSE Zero
           fill == Fill(cell, Padding(kind.len))
           data == Data(kind.len)
<1>1. Padding(kind.len) \in Nat /\ kind.len + Padding(kind.len) = PaddedLen(kind.len)
  BY Grid, BAssumption
<1>2. IsSeq(fill) /\ Len(fill) = Padding(kind.len)
  BY <1>1, FillIsSeq
<1>3. IsSeq(data) /\ Len(data) = kind.len
  BY DataIsSeq
<1>4. UnitOf(kind) = data \o fill
  BY DEF UnitOf, DataFill
<1> HIDE DEF fill, data
<1>5. Joins(data, fill, UnitOf(kind))
  BY <1>2, <1>3, <1>4, ConcatIsSeq
<1> QED BY <1>1, <1>2, <1>3, <1>5 DEF Joins

\* The cells a file holds are those it has there.
LEMMA SubSeqOfHeld ==
    ASSUME NEW file, IsSeq(file), NEW at \in Nat, NEW cells, IsSeq(cells),
           Holds(file, at, cells)
    PROVE  SubSeq(file, at + 1, at + Len(cells)) = cells
<1> DEFINE s == SubSeq(file, at + 1, at + Len(cells))
<1>1. Len(file) \in Nat /\ Len(cells) \in Nat /\ at + Len(cells) <= Len(file)
  BY DEF IsSeq, Holds
<1>2. Cuts(file, at + 1, at + Len(cells), s)
  BY <1>1, SubSeqIsSeq
<1> HIDE DEF s
<1>3. Len(s) = Len(cells) /\ IsSeq(s)
  BY <1>1, <1>2 DEF Cuts
<1>4. \A i \in 1..Len(s) : s[i] = cells[i]
  BY <1>1, <1>2, <1>3 DEF Cuts, Holds
<1>5. s = cells
  BY <1>3, <1>4, SeqsEqual
<1> QED BY <1>5 DEF s

\* A file holds two sequences one after the other when it holds them joined.
LEMMA HoldsJoin ==
    ASSUME NEW file, IsSeq(file), NEW at \in Nat, NEW s, IsSeq(s), NEW t, IsSeq(t)
    PROVE  Holds(file, at, s \o t) <=> Holds(file, at, s) /\ Holds(file, at + Len(s), t)
<1> DEFINE u == s \o t
<1>1. Joins(s, t, u)
  BY ConcatIsSeq
<1> HIDE DEF u
<1>2. Len(file) \in Nat /\ Len(s) \in Nat /\ Len(t) \in Nat
  BY DEF IsSeq
<1>3. ASSUME Holds(file, at, u) PROVE Holds(file, at, s) /\ Holds(file, at + Len(s), t)
  <2>1. Holds(file, at, s)
    BY <1>1, <1>2, <1>3 DEF Holds, Joins
  <2>2. ASSUME NEW i \in 1..Len(t) PROVE file[at + Len(s) + i] = t[i]
    <3>1. Len(s) + i \in 1..Len(u) /\ u[Len(s) + i] = t[i]
      BY <1>1, <1>2 DEF Joins
    <3>2. file[at + (Len(s) + i)] = t[i]
      BY <3>1, <1>3 DEF Holds
    <3> QED BY <3>2, <1>2
  <2> QED BY <2>1, <2>2, <1>1, <1>2, <1>3 DEF Holds, Joins
<1>4. ASSUME Holds(file, at, s), Holds(file, at + Len(s), t) PROVE Holds(file, at, u)
  <2>1. ASSUME NEW i \in 1..Len(u) PROVE file[at + i] = u[i]
    <3>1. CASE i <= Len(s)
      BY <3>1, <1>1, <1>2, <1>4 DEF Holds, Joins
    <3>2. CASE i > Len(s)
      <4>1. i - Len(s) \in 1..Len(t) /\ i = Len(s) + (i - Len(s))
        BY <3>2, <1>1, <1>2 DEF Joins
      <4>2. u[i] = t[i - Len(s)]
        BY <4>1, <1>1 DEF Joins
      <4>3. file[at + Len(s) + (i - Len(s))] = t[i - Len(s)]
        BY <4>1, <1>4 DEF Holds
      <4> QED BY <4>1, <4>2, <4>3, <1>2
    <3> QED BY <3>1, <3>2, <1>1, <1>2 DEF Joins
  <2> QED BY <2>1, <1>1, <1>2, <1>4 DEF Holds, Joins
<1> QED BY <1>3, <1>4 DEF u

\* Whole blocks that fit.
LEMMA BlocksFit ==
    ASSUME NEW n \in Nat, NEW k \in Nat
    PROVE  k <= n \div B <=> k * B <= n
<1> DEFINE q == n \div B
<1>1. B \in Nat /\ B > 0
  BY BAssumption
<1>2. q \in Nat /\ q * B <= n /\ n < q * B + B
  BY Division, <1>1
<1> HIDE DEF q
<1>3. CASE k <= q
  <2>1. k * B <= q * B
    BY <1>3, <1>2, <1>1
  <2>2. k * B \in Nat /\ q * B \in Nat
    BY <1>1, <1>2
  <2> QED BY <2>1, <2>2, <1>2, <1>3 DEF q
<1>4. CASE k > q
  <2>1. (q + 1) * B <= k * B /\ (q + 1) * B = q * B + B
    BY <1>4, <1>2, <1>1
  <2>2. k * B \in Nat /\ q * B \in Nat
    BY <1>1, <1>2
  <2> QED BY <2>1, <2>2, <1>1, <1>2, <1>4 DEF q
<1> QED BY <1>2, <1>3, <1>4

\* The blocks read up to the one with END are those of the unit that ends there.
LEMMA UnitOfHeld ==
    ASSUME NEW file, IsSeq(file), NEW at \in Nat, NEW out, IsSeq(out), Holds(file, at, out),
           NEW e \in 1..Len(out), Len(out) = PaddedLen(e), out[e] = EndRecord,
           \A i \in 1..e - 1 : out[i] # EndRecord
    PROVE  /\ EndBlocks(file, at) # {}
           /\ Unit(file, at) = out
           /\ Len(file) - at >= B
<1> DEFINE k == PaddedLen(e) \div B
           S == EndBlocks(file, at)
<1>1. /\ B \in Nat /\ B > 0
      /\ Len(file) \in Nat /\ Len(out) \in Nat /\ at + Len(out) <= Len(file)
  BY BAssumption DEF IsSeq, Holds
<1>2. k \in Nat /\ Len(out) = k * B /\ e <= k * B /\ k * B < e + B
  <2>1. /\ e \in Nat
        /\ Padding(e) \in 0..B - 1
        /\ PaddedLen(e) = e + Padding(e)
        /\ k \in Nat
        /\ PaddedLen(e) = k * B
    BY <1>1, Grid
  <2> HIDE DEF k
  <2>2. k * B = Len(out)
    BY <2>1
  <2> QED BY <2>1, <2>2, <1>1
<1> HIDE DEF k
<1>3. k > 0
  <2>1. CASE k = 0
    BY <2>1, <1>1, <1>2
  <2> QED BY <2>1, <1>2
<1>4. k <= (Len(file) - at) \div B
  <2>1. Len(file) - at \in Nat /\ k * B <= Len(file) - at
    BY <1>1, <1>2
  <2> QED BY <2>1, <1>2, BlocksFit
<1>5. (Len(file) - at) \div B \in Nat
  BY <1>1, Division
<1>6. /\ (k - 1) * B = k * B - B
      /\ k * B - B \in Nat
      /\ k * B >= B
  <2>1. (k - 1) * B = k * B - B
    BY <1>1, <1>2
  <2>2. 1 * B <= k * B
    BY <1>1, <1>2, <1>3
  <2> QED BY <2>1, <2>2, <1>1, <1>2
<1>7. k \in S
  <2> DEFINE i == e - (k * B - B)
  <2>1. i \in 1..B /\ at + (k - 1) * B + i = at + e
    BY <1>1, <1>2, <1>6
  <2>2. file[at + e] = EndRecord
    BY DEF Holds
  <2>3. file[at + (k - 1) * B + i] = EndRecord
    BY <2>1, <2>2
  <2>4. k \in 1..(Len(file) - at) \div B
    BY <1>2, <1>3, <1>4, <1>5
  <2> QED BY <2>1, <2>3, <2>4 DEF EndBlocks
<1>8. S \in SUBSET Nat
  BY <1>5 DEF EndBlocks
<1>9. \A n \in S : k <= n
  <2>1. SUFFICES ASSUME NEW n \in S, n < k PROVE FALSE
    BY <1>2, <1>8
  <2>2. PICK i \in 1..B : file[at + (n - 1) * B + i] = EndRecord
    BY DEF EndBlocks
  <2>3. n \in Nat /\ n >= 1
    BY <1>5 DEF EndBlocks
  <2>4. n * B <= (k - 1) * B /\ (n - 1) * B = n * B - B
    BY <2>1, <2>3, <1>1, <1>2
  <2>5. (n - 1) * B \in Nat
    BY <2>3, <1>1
  <2> DEFINE j == (n - 1) * B + i
  <2> DEFINE p == (n - 1) * B
  <2>6. p \in Nat /\ p <= k * B - B - B
    <3> DEFINE x == n * B
               y == (k - 1) * B
               z == k * B
    <3>1. x \in Nat /\ z \in Nat /\ p \in Nat
      BY <2>3, <2>5, <1>1, <1>2
    <3>2. x <= y /\ p = x - B /\ y = z - B
      BY <2>4, <1>6
    <3> HIDE DEF x, y, z, p
    <3>3. p <= z - B - B
      BY <3>1, <3>2, <1>1
    <3> QED BY <3>1, <3>3 DEF z
  <2> HIDE DEF p
  <2>7. j = p + i
    BY DEF p
  <2>8. j \in 1..e - 1
    BY <2>6, <2>7, <1>1, <1>2
  <2>9. at + (n - 1) * B + i = at + j
    BY <2>6, <1>1 DEF p
  <2>10. j \in 1..e - 1 /\ at + (n - 1) * B + i = at + j
    BY <2>8, <2>9
  <2>11. j \in 1..Len(out)
    BY <2>10, <1>1
  <2> HIDE DEF j
  <2>12. file[at + j] = EndRecord /\ file[at + j] = out[j]
    BY <2>2, <2>10, <2>11 DEF Holds
  <2> QED BY <2>10, <2>12
<1>10. Least(S) = k
  BY <1>7, <1>8, <1>9, LeastIs
<1>11. Unit(file, at) = SubSeq(file, at + 1, at + Len(out))
  BY <1>2, <1>10 DEF Unit
<1>12. Unit(file, at) = out
  BY <1>11, SubSeqOfHeld
<1>13. Len(file) - at >= B
  BY <1>1, <1>2, <1>6
<1> QED BY <1>7, <1>12, <1>13

\* A file that keeps some cells holds them.
LEMMA HoldsKept ==
    ASSUME NEW s, IsSeq(s), NEW w, IsSeq(w), Len(w) >= Len(s), NEW at \in Nat, NEW cells,
           IsSeq(cells), Holds(s, at, cells),
           \A i \in 1..Len(cells) : w[at + i] = s[at + i]
    PROVE  Holds(w, at, cells)
<1>1. Len(w) \in Nat /\ Len(s) \in Nat /\ Len(cells) \in Nat
  BY LenNat
<1> QED BY <1>1 DEF Holds

\* The cells are those of the file between two positions.
Slice(file, m, n, cells) ==
    /\ IsSeq(cells)
    /\ Len(cells) = n - m
    /\ Holds(file, m, cells)
    /\ \A i \in 1..n - m : cells[i] = file[m + i]

\* What the file has between two positions it holds.
LEMMA CutIsHeld ==
    ASSUME NEW file, IsSeq(file), NEW m \in Nat, NEW n \in Nat, m <= n, n <= Len(file),
           NEW cells, cells = SubSeq(file, m + 1, n)
    PROVE  Slice(file, m, n, cells)
<1>1. Len(file) \in Nat
  BY LenNat
<1>2. Cuts(file, m + 1, n, cells)
  BY <1>1, SubSeqIsSeq
<1>3. IsSeq(cells) /\ Len(cells) = n - m /\ \A i \in 1..n - m : cells[i] = file[m + i]
  BY <1>1, <1>2 DEF Cuts
<1> QED BY <1>1, <1>3 DEF Holds, Slice

\* The cells of an HDU are its header unit and its data unit.
HduParts(header, signs, spare, primary) ==
    LET hc == HeaderCells(header, signs, spare, primary)
        unit == UnitOf(KindOf(header, primary))
    IN  /\ IsSeq(hc) /\ Len(hc) \in Nat /\ Len(hc) > 0
        /\ IsSeq(unit) /\ Len(unit) \in Nat
        /\ Len(unit) = PaddedLen(KindOf(header, primary).len)
        /\ KindOf(header, primary).len \in Nat
        /\ Joins(hc, unit, HduCells(header, signs, spare, primary))

\* The header unit and the data unit of an HDU as the writer renders it.
LEMMA HduShape ==
    ASSUME NEW header, IsHeader(header), NEW primary \in BOOLEAN, HasRole(header, primary),
           NEW signs \in BOOLEAN, NEW spare \in Nat
    PROVE  HduParts(header, signs, spare, primary)
<1> DEFINE kind == KindOf(header, primary)
           unit == UnitOf(kind)
           signing == SigningOf(signs, unit)
           hc == HeaderCells(header, signs, spare, primary)
<1>1. kind.len \in Nat
  BY KindShape
<1> HIDE DEF kind
<1>2. IsSeq(unit) /\ Len(unit) = PaddedLen(kind.len) /\ Len(unit) \in Nat
  BY <1>1, UnitShape
<1> HIDE DEF unit
<1>3. IsSigning(signing)
  BY SigningOfIsSigning
<1> HIDE DEF signing
<1>4. hc = RenderInto(header, signing, spare)
  BY DEF HeaderCells, signing, unit, kind
<1>5. Rendered(header, signing, spare, hc)
  BY <1>3, <1>4, RenderShape
<1> HIDE DEF hc
<1>6. IsSeq(hc) /\ Len(hc) \in Nat /\ Len(hc) > 0
  BY <1>5 DEF Rendered, IsSeq
<1>7. HduCells(header, signs, spare, primary) = hc \o unit
  BY DEF HduCells, hc, unit, kind
<1>8. Joins(hc, unit, HduCells(header, signs, spare, primary))
  BY <1>2, <1>6, <1>7, ConcatIsSeq
<1> QED BY <1>1, <1>2, <1>6, <1>8 DEF HduParts, hc, unit, kind

\* What the scan, and a reader of the sums, find at the offset of an HDU.
Reads(file, at, header, signs, spare, primary) ==
    LET hc   == HeaderCells(header, signs, spare, primary)
        unit == UnitOf(KindOf(header, primary))
        hdu  == HduOf(Unit(file, at), at)
    IN  /\ EndBlocks(file, at) # {}
        /\ Unit(file, at) = hc
        /\ Len(file) - at >= B
        /\ hdu.offset = at
        /\ hdu.data = at + Len(hc)
        /\ hdu.kind = KindOf(header, primary)
        /\ DataEnd(hdu) = at + Len(hc) + Len(unit)
        /\ HeaderUnit(file, hdu) = hc
        /\ DataUnit(file, hdu) = unit
        /\ signs => DatasumValid(file, hdu) /\ ChecksumValid(file, hdu)

\* Where a file holds an HDU as the writer renders it, the scan finds the header
\* unit, `Hdu::parse` gives its kind and its end, and both sums hold.
LEMMA HduReads ==
    ASSUME NEW header, IsHeader(header), NEW primary \in BOOLEAN, HasRole(header, primary),
           NEW signs \in BOOLEAN, NEW spare \in Nat,
           NEW file, IsSeq(file), NEW at \in Nat, (at = 0) = primary,
           Holds(file, at, HduCells(header, signs, spare, primary))
    PROVE  Reads(file, at, header, signs, spare, primary)
<1> DEFINE kind == KindOf(header, primary)
           unit == UnitOf(kind)
           signing == SigningOf(signs, unit)
           hc == HeaderCells(header, signs, spare, primary)
           hdu == HduOf(Unit(file, at), at)
           h == ParseHeader(hc)
           r == RenderRecords(header, signing)
           c == Least(Tagged(r, "checksum"))
           d == Place(header, "datasum")
           e == Len(r) + spare + 1
<1>1. HduParts(header, signs, spare, primary)
  BY HduShape
<1>2. /\ IsSeq(hc) /\ Len(hc) \in Nat /\ Len(hc) > 0
      /\ IsSeq(unit) /\ Len(unit) \in Nat /\ Len(unit) = PaddedLen(kind.len)
      /\ HduCells(header, signs, spare, primary) = hc \o unit
  BY <1>1 DEF HduParts, HduCells
<1>3. /\ IsSigning(signing)
      /\ signing.signs = signs /\ signing.final = signs /\ (signs => signing.sum = unit)
  BY SigningOfIsSigning
<1>4. hc = RenderInto(header, signing, spare)
  BY DEF HeaderCells
<1> HIDE DEF signing
<1>5. Rendered(header, signing, spare, hc)
  BY <1>3, <1>4, RenderShape
<1>6. RecordsOf(header, signing, r)
  BY RecordsShape
<1> HIDE DEF kind, unit, hc, r
<1>7. Holds(file, at, hc) /\ Holds(file, at + Len(hc), unit)
  BY <1>2, HoldsJoin
<1>8. ParsesTo(header, signing, spare, hc)
  BY <1>2, <1>3, <1>4, ParseOfRender
<1>9. /\ Len(r) \in Nat /\ Len(hc) = PaddedLen(e) /\ Len(hc) >= e
      /\ \A i \in 1..Len(r) : hc[i][1] = r[i][1]
      /\ \A i \in 1..Len(r) : ~signing.final \/ i # c => hc[i] = r[i]
      /\ \A i \in Len(r) + 1..Len(hc) : hc[i] = IF i = e THEN EndRecord ELSE Blank
      /\ signing.final => hc[c] = Checksum([hc EXCEPT ![c] = Placeholder], signing.sum)
  BY <1>5 DEF Rendered, r
<1>10. \A i \in 1..Len(r) : hc[i][1] # "end"
  <2>1. \A i \in 1..Len(r) : r[i][1] # "end"
    BY <1>6 DEF RecordsOf, IsHeader, Blank
  <2> QED BY <2>1, <1>9
<1>11. e \in 1..Len(hc) /\ hc[e] = EndRecord
  BY <1>2, <1>9
<1>12. \A i \in 1..e - 1 : hc[i] # EndRecord
  <2>1. TAKE i \in 1..e - 1
  <2>2. CASE i <= Len(r)
    BY <2>2, <1>9, <1>10 DEF EndRecord
  <2>3. CASE i > Len(r)
    BY <2>3, <1>9 DEF EndRecord, Blank
  <2> QED BY <2>2, <2>3, <1>9
<1>13. EndBlocks(file, at) # {} /\ Unit(file, at) = hc /\ Len(file) - at >= B
  BY <1>2, <1>7, <1>9, <1>11, <1>12, UnitOfHeld
<1>14. hdu = [offset |-> at, header |-> h, kind |-> KindOf(h, at = 0),
              blocks |-> Len(hc) \div B, data |-> at + Len(hc)]
  BY <1>13 DEF HduOf
<1> HIDE DEF hdu
<1>15. KindOf(h, at = 0) = kind
  BY <1>8 DEF ParsesTo, kind
<1>16. /\ hdu.offset = at /\ hdu.header = h /\ hdu.kind = kind /\ hdu.data = at + Len(hc)
       /\ DataEnd(hdu) = at + Len(hc) + Len(unit)
  BY <1>2, <1>14, <1>15 DEF DataEnd
<1>17. HeaderUnit(file, hdu) = hc
  <2>1. SubSeq(file, at + 1, at + Len(hc)) = hc
    BY <1>2, <1>7, SubSeqOfHeld
  <2> QED BY <2>1, <1>16 DEF HeaderUnit
<1>18. DataUnit(file, hdu) = unit
  <2>1. at + Len(hc) \in Nat
    BY <1>2
  <2>2. SubSeq(file, at + Len(hc) + 1, at + Len(hc) + Len(unit)) = unit
    BY <2>1, <1>2, <1>7, SubSeqOfHeld
  <2> QED BY <2>2, <1>16 DEF DataUnit
<1>19. ASSUME signs PROVE DatasumValid(file, hdu)
  <2>1. /\ Tagged(r, "datasum") # {} /\ Least(Tagged(r, "datasum")) = d
        /\ d \in 1..Len(r) /\ r[d] = Datasum(unit) /\ c # d
    BY <1>3, <1>6, <1>19 DEF RecordsOf
  <2>2. Tagged(h, "datasum") = Tagged(r, "datasum")
    BY <1>8 DEF ParsesTo, r
  <2>3. hc[d] = r[d]
    BY <2>1, <1>9
  <2>4. r[d][1] = "datasum" /\ r[d][2] = unit
    BY <2>1 DEF Datasum
  <2>5. d \in Tagged(h, "datasum")
    BY <2>1, <2>2, <2>4 DEF Tagged
  <2>6. h[d] = hc[d]
    BY <2>5, <1>4, <1>8 DEF ParsesTo, Tagged
  <2> QED BY <2>1, <2>2, <2>3, <2>4, <2>6, <1>16, <1>18 DEF DatasumValid
<1>20. ASSUME signs PROVE ChecksumValid(file, hdu)
  <2>1. c \in 1..Len(r) /\ r[c] = Placeholder
    BY <1>3, <1>6, <1>20 DEF RecordsOf
  <2>2. r[c][1] = "checksum"
    BY <2>1 DEF Placeholder
  <2>3. c \in Tagged(hc, "checksum") /\ Tagged(hc, "checksum") \in SUBSET Nat
    BY <2>1, <2>2, <1>2, <1>9 DEF Tagged
  <2>4. \A i \in Tagged(hc, "checksum") : c <= i
    <3>1. SUFFICES ASSUME NEW i \in 1..Len(hc), hc[i][1] = "checksum" PROVE c <= i
      BY DEF Tagged
    <3>2. i \in 1..Len(r)
      <4>1. SUFFICES ASSUME i \in Len(r) + 1..Len(hc) PROVE FALSE
        BY <1>2, <1>9
      <4> QED BY <4>1, <3>1, <1>9 DEF EndRecord, Blank
    <3>3. r[i][1] = "checksum"
      BY <3>1, <3>2, <1>9
    <3>4. Tagged(r, "checksum") # {}
      BY <3>2, <3>3 DEF Tagged
    <3> QED BY <3>2, <3>3, <3>4, <1>9, LeastTagged
  <2>5. Least(Tagged(hc, "checksum")) = c
    BY <2>3, <2>4, LeastIs
  <2>6. hc[c] = Checksum([hc EXCEPT ![c] = Placeholder], unit)
    BY <1>3, <1>9, <1>20
  <2> QED BY <2>5, <2>6, <1>17, <1>18 DEF ChecksumValid
<1>21. /\ EndBlocks(file, at) # {}
       /\ Unit(file, at) = hc
       /\ Len(file) - at >= B
       /\ hdu.offset = at
       /\ hdu.data = at + Len(hc)
       /\ hdu.kind = kind
       /\ DataEnd(hdu) = at + Len(hc) + Len(unit)
       /\ HeaderUnit(file, hdu) = hc
       /\ DataUnit(file, hdu) = unit
       /\ signs => DatasumValid(file, hdu) /\ ChecksumValid(file, hdu)
  BY <1>13, <1>16, <1>17, <1>18, <1>19, <1>20
<1> QED BY <1>21 DEF Reads, hc, unit, hdu, kind

\* The bytes are all of an HDU of a role: a header, the data it declares and
\* the fill.
IsWhole(u, primary) ==
    LET kind == KindOf(ParseHeader(u), primary)
    IN  /\ Tagged(u, "end") # {}
        /\ HasRole(ParseHeader(u), primary)
        /\ SubSeq(u, PaddedLen(Least(Tagged(u, "end"))) + 1, Len(u))
              = Data(kind.len) \o DataFill(kind)

\* The cells of an HDU are all of one: a header of its role, the data it
\* declares, and the fill.
LEMMA HduIsWhole ==
    ASSUME NEW header, IsHeader(header), NEW primary \in BOOLEAN, HasRole(header, primary),
           NEW signs \in BOOLEAN, NEW spare \in Nat
    PROVE  IsWhole(HduCells(header, signs, spare, primary), primary)
<1> DEFINE kind == KindOf(header, primary)
           unit == UnitOf(kind)
           signing == SigningOf(signs, unit)
           hc == HeaderCells(header, signs, spare, primary)
           u == HduCells(header, signs, spare, primary)
           r == RenderRecords(header, signing)
<1>1. HduParts(header, signs, spare, primary)
  BY HduShape
<1>2. /\ IsSeq(hc) /\ Len(hc) \in Nat
      /\ IsSeq(unit) /\ Len(unit) \in Nat
      /\ Joins(hc, unit, u)
  BY <1>1 DEF HduParts
<1>3. IsSigning(signing)
  BY SigningOfIsSigning
<1>4. hc = RenderInto(header, signing, spare)
  BY DEF HeaderCells
<1> HIDE DEF signing
<1>5. Rendered(header, signing, spare, hc)
  BY <1>3, <1>4, RenderShape
<1>6. IsSeq(u) /\ Len(u) = Len(hc) + Len(unit) /\ \A i \in 1..Len(hc) : u[i] = hc[i]
  BY <1>2 DEF Joins
<1> HIDE DEF kind, unit, hc, r, u
<1>7. ParsesTo(header, signing, spare, u)
  <2>1. Len(hc) <= Len(u)
    BY <1>2, <1>6
  <2> QED BY <2>1, <1>3, <1>4, <1>6, ParseOfRender
<1>8. PaddedLen(Least(Tagged(u, "end"))) = Len(hc)
  BY <1>5, <1>7 DEF Rendered, ParsesTo
<1>9. HasRole(ParseHeader(u), primary) /\ KindOf(ParseHeader(u), primary) = kind
  BY <1>7 DEF ParsesTo, kind
<1>10. Holds(u, Len(hc), unit)
  BY <1>2, <1>6 DEF Holds, Joins
<1>11. SubSeq(u, Len(hc) + 1, Len(u)) = unit
  BY <1>2, <1>6, <1>10, SubSeqOfHeld
<1>12. unit = Data(kind.len) \o DataFill(kind)
  BY DEF unit, UnitOf
<1> QED BY <1>7, <1>8, <1>9, <1>11, <1>12 DEF ParsesTo, IsWhole, u


--------------------------------------------------------------------------------
(* A header of one record, and one signed later. *)

\* A rendered header is a sequence with at least one cell.
LEMMA RenderIsSeq ==
    ASSUME NEW header, IsHeader(header), NEW signing, IsSigning(signing), NEW spare \in Nat
    PROVE  LET out == RenderInto(header, signing, spare)
           IN  IsSeq(out) /\ Len(out) \in Nat /\ Len(out) > 0
<1> DEFINE out == RenderInto(header, signing, spare)
<1>1. Rendered(header, signing, spare, out)
  BY RenderShape
<1> HIDE DEF out
<1>2. IsSeq(out) /\ Len(out) \in Nat /\ Len(out) > 0
  BY <1>1 DEF Rendered, IsSeq
<1> QED BY <1>2 DEF out

\* b is a with its placeholder sums filled in.
SignsOver(a, b) ==
    /\ IsSeq(a) /\ IsSeq(b) /\ Len(a) = Len(b)
    /\ \A i \in 1..Len(a) : a[i] # b[i] =>
          a[i] \in {Placeholder, Datasum(<<>>)} /\ b[i][1] = a[i][1]

\* Going back to sign a header changes its two placeholder sums and no other
\* record.
LEMMA SignedOverUnfinished ==
    ASSUME NEW header, IsHeader(header), NEW sum, NEW spare \in Nat
    PROVE  SignsOver(RenderInto(header, Unfinished, spare),
                     RenderInto(header, WithDataSum(sum), spare))
<1> DEFINE sa == Unfinished
           sb == WithDataSum(sum)
           a  == RenderInto(header, sa, spare)
           b  == RenderInto(header, sb, spare)
           ra == RenderRecords(header, sa)
           rb == RenderRecords(header, sb)
           d  == Place(header, "datasum")
           c  == Least(Tagged(ra, "checksum"))
<1>1. /\ sa.signs /\ ~sa.final /\ sa.sum = <<>> /\ IsSigning(sa)
      /\ sb.signs /\ sb.final /\ IsSigning(sb)
  BY DEF Unfinished, WithDataSum, IsSigning
<1> HIDE DEF sa, sb
<1>2. Rendered(header, sa, spare, a) /\ Rendered(header, sb, spare, b)
  BY <1>1, RenderShape
<1>3. RecordsOf(header, sa, ra) /\ RecordsOf(header, sb, rb)
  BY RecordsShape
<1>4. /\ Len(ra) = Len(rb)
      /\ c = Least(Tagged(rb, "checksum"))
      /\ \A i \in 1..Len(ra) : i # d => ra[i] = rb[i]
  BY <1>1, RecordsDiffer
<1> HIDE DEF a, b
<1>5. IsSeq(a) /\ IsSeq(b) /\ Len(a) = Len(b) /\ Len(ra) \in Nat /\ Len(a) \in Nat
  BY <1>2, <1>4 DEF Rendered, IsSeq
<1>6. /\ \A i \in 1..Len(ra) : a[i] = ra[i]
      /\ \A i \in 1..Len(ra) : b[i][1] = rb[i][1]
      /\ \A i \in 1..Len(ra) : i # c => b[i] = rb[i]
      /\ \A i \in Len(ra) + 1..Len(a) : a[i] = b[i]
  BY <1>1, <1>2, <1>4, <1>5 DEF Rendered
<1>7. ra[d] = Datasum(<<>>) /\ rb[d][1] = "datasum" /\ ra[c] = Placeholder /\ rb[c] = Placeholder
  BY <1>1, <1>3, <1>4 DEF RecordsOf, Datasum
<1> HIDE DEF ra, rb, c, d
<1>8. ASSUME NEW i \in 1..Len(a), a[i] # b[i]
      PROVE  a[i] \in {Placeholder, Datasum(<<>>)} /\ b[i][1] = a[i][1]
  <2>1. i \in 1..Len(ra)
    BY <1>5, <1>6, <1>8
  <2>2. CASE i = d
    <3>1. a[i] = Datasum(<<>>) /\ b[i][1] = "datasum"
      BY <2>1, <2>2, <1>6, <1>7
    <3>2. Datasum(<<>>)[1] = "datasum"
      BY DEF Datasum
    <3> QED BY <3>1, <3>2
  <2>3. CASE i = c
    BY <2>1, <2>3, <1>6, <1>7 DEF Placeholder
  <2>4. CASE i # c /\ i # d
    BY <2>1, <2>4, <1>4, <1>6, <1>8
  <2> QED BY <2>2, <2>3, <2>4
<1>9. SignsOver(a, b)
  BY <1>5, <1>8 DEF SignsOver
<1> QED BY <1>9 DEF a, b, sa, sb

\* An empty data unit has no cells at all.
LEMMA EmptyUnit ==
    ASSUME NEW kind, kind.len = 0
    PROVE  UnitOf(kind) = <<>>
<1>1. PaddedLen(0) = 0
  <2>1. 0 <= 0 * B /\ 0 * B < 0 + B
    BY BAssumption
  <2>2. PaddedLen(0) = 0 * B
    BY <2>1, GridUnique
  <2> QED BY <2>2, BAssumption
<1>2. IsSeq(UnitOf(kind)) /\ Len(UnitOf(kind)) = 0
  BY <1>1, UnitShape
<1>3. IsSeq(<<>>) /\ Len(<<>>) = 0
  BY DEF IsSeq
<1> QED BY <1>2, <1>3, SeqsEqual

\* A sequence joined to an empty one.
LEMMA ConcatEmpty ==
    ASSUME NEW s, IsSeq(s)
    PROVE  s \o <<>> = s /\ <<>> \o s = s
<1>1. s \in Seq(Cells(s))
  BY SeqOfCells DEF Cells
<1> QED BY <1>1, ConcatEmptySeq

\* A header of one open record.
LEMMA OneOpenShape ==
    ASSUME NEW ext \in BOOLEAN, NEW ascii \in BOOLEAN, NEW len \in Nat,
           NEW primary \in BOOLEAN
    PROVE  LET h == <<Open(ext, ascii, len)>>
           IN  /\ IsHeader(h)
               /\ HasRole(h, primary) <=> ext = ~primary
               /\ ext = ~primary =>
                     KindOf(h, primary) = [ext |-> ext, ascii |-> ascii, len |-> len]
<1> DEFINE cell == Open(ext, ascii, len)
           h == <<cell>>
<1>1. cell[1] = "open" /\ cell[2] = [ext |-> ext, ascii |-> ascii, len |-> len]
  BY DEF Open
<1> HIDE DEF cell
<1>2. IsSeq(h) /\ Len(h) = 1 /\ h[1] = cell
  BY SingletonIsSeq
<1> HIDE DEF h
<1>3. IsHeader(h)
  BY <1>1, <1>2 DEF IsHeader, IsSeq
<1>4. Tagged(h, "open") = {1}
  BY <1>1, <1>2 DEF Tagged
<1>5. Roles(h, primary) = IF ext = ~primary THEN {1} ELSE {}
  BY <1>1, <1>2, <1>4 DEF Roles
<1>6. Least({1}) = 1
  BY LeastIs
<1>7. HasRole(h, primary) <=> ext = ~primary
  BY <1>5 DEF HasRole
<1>8. ASSUME ext = ~primary
      PROVE  KindOf(h, primary) = [ext |-> ext, ascii |-> ascii, len |-> len]
  <2>1. Least(Roles(h, primary)) = 1
    BY <1>5, <1>6, <1>8
  <2> QED BY <2>1, <1>1, <1>2 DEF KindOf
<1> QED BY <1>3, <1>7, <1>8 DEF h, cell

\* The header of a table is one.
LEMMA OpenAndCardIsHeader ==
    ASSUME NEW ext \in BOOLEAN, NEW ascii \in BOOLEAN, NEW len \in Nat
    PROVE  IsHeader(<<Open(ext, ascii, len), Card(1)>>)
<1> DEFINE cell == Open(ext, ascii, len)
           card == Card(1)
           h == <<cell, card>>
<1>1. cell[1] = "open" /\ cell[2] \in [ext : BOOLEAN, ascii : BOOLEAN, len : Nat]
  BY DEF Open
<1>2. card[1] = "card"
  BY DEF Card
<1> HIDE DEF cell, card
<1>3. h \in Seq({cell, card}) /\ Len(h) = 2 /\ h[1] = cell /\ h[2] = card
  OBVIOUS
<1>4. IsSeq(h)
  BY <1>3, SeqIsSeq
<1> HIDE DEF h
<1>5. IsHeader(h)
  BY <1>1, <1>2, <1>3, <1>4 DEF IsHeader, IsSeq
<1> QED BY <1>5 DEF h, cell, card


--------------------------------------------------------------------------------
(* The scan. *)

\* The cells of a file: one that opens a header gives its kind and a length.
IsCell(cell) ==
    cell[1] = "open" => cell[2] \in [ext : BOOLEAN, ascii : BOOLEAN, len : Nat]

IsFile(file) ==
    /\ IsSeq(file)
    /\ \A i \in 1..Len(file) : IsCell(file[i])

\* What the scan finds from an offset, when f has what it finds from a later one.
ScanBody(file, f, offset) ==
    IF ~Found(file, offset) THEN <<>>
    ELSE LET hdu  == HduOf(Unit(file, offset), offset)
             next == DataEnd(hdu)
         IN  <<hdu>> \o (IF next <= Len(file) THEN f[next] ELSE <<>>)

ScanFrom(file) == CHOOSE f : f = [offset \in 0..Len(file) |-> ScanBody(file, f, offset)]

\* The scan is the recursion from the start of the file.
LEMMA ScanIsFrom ==
    ASSUME NEW file
    PROVE  Scan(file) = ScanFrom(file)[0]
BY DEF Scan, ScanFrom, ScanBody

\* e is the END of a unit.
EndsUnit(unit, e) ==
    /\ Len(unit) = PaddedLen(e)
    /\ unit[e] = EndRecord
    /\ \A i \in 1..e - 1 : unit[i] # EndRecord

\* The header unit at an offset is whole blocks of the file, up to its END.
UnitAt(file, at) ==
    LET k    == Least(EndBlocks(file, at))
        unit == Unit(file, at)
    IN  /\ k \in Nat /\ k > 0 /\ k * B \in Nat /\ k * B > 0 /\ at + k * B <= Len(file)
        /\ IsSeq(unit) /\ Len(unit) = k * B
        /\ \A i \in 1..k * B : unit[i] = file[at + i]
        /\ \E e \in 1..Len(unit) : EndsUnit(unit, e)

\* A unit that `next_header` finds ends at its END.
LEMMA UnitOfEnd ==
    ASSUME NEW file, IsSeq(file), NEW at \in 0..Len(file), EndBlocks(file, at) # {}
    PROVE  UnitAt(file, at)
<1> DEFINE ends == EndBlocks(file, at)
           k    == Least(ends)
           unit == Unit(file, at)
           n    == (Len(file) - at) \div B
<1>1. /\ B \in Nat /\ B > 0 /\ Len(file) \in Nat /\ at \in Nat
      /\ Len(file) - at \in Nat /\ n \in Nat
  <2>1. B \in Nat /\ B > 0 /\ Len(file) \in Nat
    BY BAssumption, LenNat
  <2>2. at \in Nat /\ Len(file) - at \in Nat
    BY <2>1
  <2> QED BY <2>1, <2>2, Division
<1>2. ends # {} /\ ends \in SUBSET Nat
  <2>1. ends \in SUBSET 1..n
    BY DEF EndBlocks
  <2> HIDE DEF n
  <2> QED BY <2>1, <1>1
<1>3. k \in ends /\ \A i \in ends : k <= i
  BY <1>2, LeastOf
<1>4. /\ k \in 1..n
      /\ \E i \in 1..B : file[at + (k - 1) * B + i] = EndRecord
  BY <1>3 DEF EndBlocks
<1>5. unit = SubSeq(file, at + 1, at + k * B)
  BY DEF Unit
<1> HIDE DEF k, unit, n
<1>6. k \in Nat /\ k > 0 /\ k * B \in Nat /\ k * B = (k - 1) * B + B /\ (k - 1) * B \in Nat
  <2>1. k \in Nat /\ k - 1 \in Nat /\ k > 0
    BY <1>1, <1>4
  <2> QED BY <2>1, <1>1
<1>7. k * B <= Len(file) - at
  <2>1. k <= n
    BY <1>1, <1>4
  <2> QED BY <2>1, <1>1, <1>6, BlocksFit DEF n
<1> DEFINE m == k * B
<1>8. m \in Nat /\ m > 0 /\ at + m <= Len(file) /\ m = (k - 1) * B + B
  BY <1>1, <1>6, <1>7
<1>9. unit = SubSeq(file, at + 1, at + m)
  BY <1>5
<1>10. PICK j \in 1..B : file[at + (k - 1) * B + j] = EndRecord
  BY <1>4
<1> DEFINE x == (k - 1) * B + j
<1>11. x \in 1..m /\ file[at + x] = EndRecord
  BY <1>1, <1>6, <1>8, <1>10
<1> HIDE DEF m, x
<1>12. IsSeq(unit) /\ Len(unit) = m /\ \A i \in 1..m : unit[i] = file[at + i]
  <2> DEFINE q == at + m
  <2>1. q \in Nat /\ at <= q /\ q <= Len(file) /\ q - at = m /\ unit = SubSeq(file, at + 1, q)
    BY <1>1, <1>8, <1>9
  <2> HIDE DEF q
  <2>2. Slice(file, at, q, unit)
    BY <2>1, <1>1, CutIsHeld
  <2> QED BY <2>1, <2>2 DEF Slice
<1> DEFINE all == {i \in 1..Len(unit) : unit[i] = EndRecord}
           e   == Least(all)
<1>13. e \in all /\ \A i \in all : e <= i
  <2>1. x \in all
    BY <1>11, <1>12
  <2>2. all \in SUBSET Nat
    BY <1>8, <1>12
  <2> HIDE DEF all
  <2> QED BY <2>1, <2>2, LeastOf
<1> HIDE DEF e
<1>14. e \in 1..m /\ unit[e] = EndRecord /\ \A i \in 1..e - 1 : unit[i] # EndRecord
  <2>1. e \in 1..m /\ unit[e] = EndRecord
    BY <1>12, <1>13
  <2>2. ASSUME NEW i \in 1..e - 1 PROVE unit[i] # EndRecord
    <3>1. i \in 1..m /\ i < e /\ i \in Nat /\ e \in Nat
      BY <2>1, <1>8
    <3>2. i \notin all
      <4> HIDE DEF all
      <4> QED BY <3>1, <1>13
    <3> QED BY <3>1, <3>2, <1>12
  <2> QED BY <2>1, <2>2
<1>15. e > (k - 1) * B
  <2>1. SUFFICES ASSUME e <= (k - 1) * B PROVE FALSE
    BY <1>6, <1>8, <1>14
  <2> DEFINE q == (e - 1) \div B
             r == (e - 1) % B
  <2>2. e - 1 \in Nat
    BY <1>14, <1>8
  <2>3. q \in Nat /\ r \in 0..B - 1 /\ e - 1 = q * B + r
    BY <2>2, Division
  <2> HIDE DEF q, r
  <2>4. q + 1 < k
    <3>1. SUFFICES ASSUME k - 1 <= q PROVE FALSE
      BY <2>3, <1>6
    <3>2. (k - 1) * B <= q * B
      BY <3>1, <2>3, <1>1, <1>6
    <3>3. q * B \in Nat
      BY <2>3, <1>1
    <3> QED BY <3>2, <3>3, <2>1, <2>3, <1>1, <1>6, <1>8, <1>14
  <2>5. q + 1 \in ends
    <3>1. q + 1 \in 1..n
      BY <2>3, <2>4, <1>1, <1>4, <1>6
    <3>2. r + 1 \in 1..B
      BY <2>3, <1>1
    <3>3. file[at + e] = EndRecord
      BY <1>12, <1>14
    <3>4. at + ((q + 1) - 1) * B + (r + 1) = at + e
      <4>1. (q + 1) - 1 = q
        BY <2>3
      <4>2. q * B \in Nat
        BY <2>3, <1>1
      <4>3. q * B + (r + 1) = e
        BY <4>2, <2>2, <2>3, <1>1, <1>8, <1>14
      <4> QED BY <4>1, <4>2, <4>3, <2>3, <1>1, <1>8, <1>14
    <3>5. \E i \in 1..B : file[at + ((q + 1) - 1) * B + i] = EndRecord
      BY <3>2, <3>3, <3>4
    <3> QED BY <3>1, <3>5 DEF EndBlocks, n
  <2> QED BY <2>3, <2>4, <2>5, <1>3, <1>6
<1>16. EndsUnit(unit, e)
  <2>1. e \in Nat /\ e <= k * B /\ k * B < e + B
    BY <1>1, <1>6, <1>8, <1>14, <1>15 DEF m
  <2>2. PaddedLen(e) = k * B
    BY <2>1, <1>6, GridUnique
  <2> QED BY <2>2, <1>12, <1>14 DEF EndsUnit, m
<1>17. /\ k \in Nat /\ k > 0 /\ k * B \in Nat /\ k * B > 0 /\ at + k * B <= Len(file)
       /\ IsSeq(unit) /\ Len(unit) = k * B
       /\ \A i \in 1..k * B : unit[i] = file[at + i]
  BY <1>6, <1>8, <1>12 DEF m
<1>18. e \in 1..Len(unit)
  BY <1>12, <1>14
<1> QED BY <1>16, <1>17, <1>18 DEF UnitAt, k, unit

\* `Header::parse` of a unit that holds END keeps its first record, one that opens
\* the header at least.
ParsesFirst(unit, h) ==
    /\ IsSeq(h)
    /\ Len(h) > 0 => h[1] = unit[1]
    /\ unit[1][1] = "open" => Len(h) > 0

\* What `Header::parse` keeps of a unit starts with its first record.
LEMMA HeaderOfUnit ==
    ASSUME NEW unit, IsSeq(unit), NEW x \in 1..Len(unit), unit[x] = EndRecord
    PROVE  ParsesFirst(unit, ParseHeader(unit))
<1> DEFINE e == Least(Tagged(unit, "end"))
           h == ParseHeader(unit)
<1>1. Len(unit) \in Nat
  BY LenNat
<1>2. Tagged(unit, "end") # {}
  BY DEF Tagged, EndRecord
<1>3. /\ e \in 1..Len(unit) /\ unit[e][1] = "end"
      /\ \A i \in 1..Len(unit) : unit[i][1] = "end" => e <= i
  BY <1>1, <1>2, LeastTagged
<1> HIDE DEF e
<1>4. \A i \in 1..e - 1 : unit[i][1] # "end"
  BY <1>1, <1>3
<1>5. Parsed(unit, e, h)
  BY <1>3, <1>4, ParseShape
<1> HIDE DEF h
<1>6. Len(h) \in Nat /\ IsSeq(h)
  BY <1>5, LenNat DEF Parsed
<1>7. ASSUME Len(h) > 0 PROVE h[1] = unit[1]
  <2>1. 1 \in 1..Len(h)
    BY <1>6, <1>7
  <2> QED BY <2>1, <1>5 DEF Parsed
<1>8. ASSUME unit[1][1] = "open" PROVE Len(h) > 0
  <2>1. 1 \in 1..e - 1
    BY <1>1, <1>3, <1>8
  <2>2. unit[1] # Blank
    BY <1>8 DEF Blank
  <2>3. ASSUME Len(h) = 0 PROVE FALSE
    <3>1. \A i \in Len(h) + 1..e - 1 : unit[i] = Blank
      BY <1>5 DEF Parsed
    <3> QED BY <3>1, <2>1, <2>2, <2>3
  <2> QED BY <2>3, <1>6
<1>9. ParsesFirst(unit, h)
  BY <1>6, <1>7, <1>8 DEF ParsesFirst
<1> QED BY <1>9 DEF h

\* An HDU the scan finds at an offset: its header unit is whole blocks of the
\* file, and its kind is that of the first record.
FoundHdu(file, at) ==
    LET k    == Least(EndBlocks(file, at))
        unit == Unit(file, at)
        hdu  == HduOf(unit, at)
    IN  /\ k \in Nat /\ k > 0 /\ k * B \in Nat /\ k * B > 0 /\ at + k * B <= Len(file)
        /\ IsSeq(unit) /\ Len(unit) = k * B
        /\ \A i \in 1..k * B : unit[i] = file[at + i]
        /\ hdu.offset = at /\ hdu.data = at + k * B /\ hdu.blocks = k
        /\ hdu.kind = file[at + 1][2]
        /\ IsSeq(hdu.header) /\ Len(hdu.header) > 0 /\ hdu.header[1] = file[at + 1]
        /\ hdu.kind.len \in Nat
        /\ DataEnd(hdu) \in Nat /\ DataEnd(hdu) > at

\* What `next_header` and `Hdu::parse` find at an offset.
LEMMA FoundShape ==
    ASSUME NEW file, IsFile(file), NEW at \in 0..Len(file), Found(file, at)
    PROVE  FoundHdu(file, at)
<1> DEFINE k    == Least(EndBlocks(file, at))
           unit == Unit(file, at)
           hdu  == HduOf(unit, at)
           primary == at = 0
           h    == ParseHeader(unit)
<1>1. /\ B \in Nat /\ B > 0 /\ IsSeq(file) /\ Len(file) \in Nat /\ at \in Nat
  BY BAssumption, LenNat DEF IsFile
<1>2. UnitAt(file, at)
  BY <1>1, UnitOfEnd DEF Found
<1> HIDE DEF k, unit
<1> DEFINE m == k * B
<1>3. k \in Nat /\ k > 0
  BY <1>2 DEF UnitAt, k
<1>4. m \in Nat /\ m > 0 /\ at + m <= Len(file)
  BY <1>2 DEF UnitAt, k
<1>5. IsSeq(unit) /\ Len(unit) = m /\ \A i \in 1..m : unit[i] = file[at + i]
  BY <1>2 DEF UnitAt, k, unit
<1>6. PICK x \in 1..Len(unit) : unit[x] = EndRecord
  BY <1>2 DEF UnitAt, unit, EndsUnit
<1> HIDE DEF m
<1>7. unit[1] = file[at + 1] /\ unit[1][1] = "open" /\ unit[1][2].ext = ~primary
  <2> DEFINE first == SubSeq(file, at + 1, at + B)
  <2>1. Len(file) - at >= B /\ OpensFirst(first, at = 0)
    BY DEF Found
  <2> DEFINE q == at + B
  <2>2. q \in Nat /\ at <= q /\ q <= Len(file) /\ 1 \in 1..q - at
        /\ first = SubSeq(file, at + 1, q)
    BY <1>1, <2>1
  <2> HIDE DEF q, first
  <2>3. Slice(file, at, q, first)
    BY <2>2, <1>1, CutIsHeld
  <2>4. first[1] = file[at + 1]
    BY <2>2, <2>3 DEF Slice
  <2>5. unit[1] = file[at + 1]
    BY <1>4, <1>5
  <2> QED BY <2>1, <2>4, <2>5 DEF OpensFirst
<1>8. file[at + 1][2] \in [ext : BOOLEAN, ascii : BOOLEAN, len : Nat]
  <2>1. at + 1 \in 1..Len(file)
    BY <1>1, <1>4
  <2> QED BY <2>1, <1>7 DEF IsFile, IsCell
<1>9. ParsesFirst(unit, h)
  BY <1>6, <1>5, HeaderOfUnit
<1> HIDE DEF h
<1>10. IsSeq(h) /\ Len(h) > 0 /\ 1 \in 1..Len(h) /\ h[1] = unit[1]
  <2>1. IsSeq(h) /\ Len(h) > 0 /\ h[1] = unit[1]
    BY <1>7, <1>9 DEF ParsesFirst
  <2> QED BY <2>1, LenNat
<1>11. 1 \in Roles(h, primary) /\ Roles(h, primary) \in SUBSET Nat
       /\ \A i \in Roles(h, primary) : 1 <= i
  BY <1>7, <1>10 DEF Roles, Tagged
<1>12. KindOf(h, primary) = file[at + 1][2]
  <2>1. Least(Roles(h, primary)) = 1
    BY <1>11, LeastIs
  <2> QED BY <2>1, <1>7, <1>10 DEF KindOf
<1>13. m \div B = k
  <2>1. m = k * B + 0 /\ 0 \in 0..B - 1
    BY <1>1, <1>3 DEF m
  <2> QED BY <2>1, <1>3, <1>4, Quotient
<1>14. /\ hdu.offset = at /\ hdu.data = at + m /\ hdu.blocks = k
       /\ hdu.kind = file[at + 1][2] /\ hdu.header = h
  BY <1>5, <1>12, <1>13 DEF HduOf, h
<1>15. hdu.kind.len \in Nat
  BY <1>8, <1>14
<1> HIDE DEF hdu
<1>16. DataEnd(hdu) \in Nat /\ DataEnd(hdu) > at
  <2>1. PaddedLen(hdu.kind.len) = hdu.kind.len + Padding(hdu.kind.len)
        /\ Padding(hdu.kind.len) \in 0..B - 1
    BY <1>15, Grid
  <2>2. B - 1 \in Nat /\ \A i \in 0..B - 1 : i \in Nat
    BY <1>1
  <2>3. PaddedLen(hdu.kind.len) \in Nat
    BY <2>1, <2>2, <1>15
  <2>4. DataEnd(hdu) = at + m + PaddedLen(hdu.kind.len)
    BY <1>14 DEF DataEnd
  <2> QED BY <2>3, <2>4, <1>1, <1>4
<1>17. IsSeq(hdu.header) /\ Len(hdu.header) > 0 /\ hdu.header[1] = file[at + 1]
  BY <1>7, <1>10, <1>14
<1> QED BY <1>3, <1>4, <1>5, <1>14, <1>15, <1>16, <1>17 DEF FoundHdu, m, k, unit, hdu

\* The scan from an offset depends on the scans from later ones alone.
LEMMA BodyAgrees ==
    ASSUME NEW file, IsFile(file), NEW at \in 0..Len(file), NEW f, NEW g,
           \A o \in 0..Len(file) : o > at => f[o] = g[o]
    PROVE  ScanBody(file, f, at) = ScanBody(file, g, at)
<1> DEFINE hdu  == HduOf(Unit(file, at), at)
           next == DataEnd(hdu)
<1>1. CASE ~Found(file, at)
  BY <1>1 DEF ScanBody
<1>2. CASE Found(file, at)
  <2>1. next \in Nat /\ next > at
    BY <1>2, FoundShape DEF FoundHdu
  <2>2. Len(file) \in Nat
    BY LenNat DEF IsFile
  <2>3. next <= Len(file) => f[next] = g[next]
    BY <2>1, <2>2
  <2>4. ScanBody(file, f, at) = <<hdu>> \o (IF next <= Len(file) THEN f[next] ELSE <<>>)
    BY <1>2 DEF ScanBody
  <2>5. ScanBody(file, g, at) = <<hdu>> \o (IF next <= Len(file) THEN g[next] ELSE <<>>)
    BY <1>2 DEF ScanBody
  <2> HIDE DEF hdu, next
  <2> QED BY <2>3, <2>4, <2>5
<1> QED BY <1>1, <1>2

\* f has what the scan finds from each of the last k offsets of the file.
ScansLast(file, k, f) ==
    /\ f = [o \in 0..Len(file) |-> f[o]]
    /\ \A o \in 0..Len(file) : o + k > Len(file) => f[o] = ScanBody(file, f, o)

\* So the recursion has a value at one more offset.
LEMMA ScansOneMore ==
    ASSUME NEW file, IsFile(file), NEW k \in 0..Len(file), NEW f, ScansLast(file, k, f)
    PROVE  \E g : ScansLast(file, k + 1, g)
<1> DEFINE n  == Len(file)
           at == n - k
           e  == ScanBody(file, f, at)
           g  == [f EXCEPT ![at] = e]
<1>1. n \in Nat /\ k \in Nat /\ at \in 0..n
  BY LenNat DEF IsFile
<1>2. f = [o \in 0..n |-> f[o]] /\ \A o \in 0..n : o + k > n => f[o] = ScanBody(file, f, o)
  BY DEF ScansLast
<1> HIDE DEF e
<1>3. g = [o \in 0..n |-> g[o]] /\ g[at] = e /\ \A o \in 0..n : o # at => g[o] = f[o]
  BY <1>1, <1>2
<1> HIDE DEF g
<1>4. ASSUME NEW o \in 0..n, o + (k + 1) > n PROVE g[o] = ScanBody(file, g, o)
  <2>1. o >= at
    BY <1>1, <1>4
  <2>2. \A p \in 0..n : p > o => f[p] = g[p]
    BY <2>1, <1>1, <1>3
  <2>3. ScanBody(file, f, o) = ScanBody(file, g, o)
    BY <2>2, BodyAgrees
  <2>4. CASE o = at
    BY <2>3, <2>4, <1>3 DEF e
  <2>5. CASE o # at
    <3>1. o + k > n
      BY <2>1, <2>5, <1>1
    <3> QED BY <3>1, <2>3, <2>5, <1>2, <1>3
  <2> QED BY <2>4, <2>5
<1>5. ScansLast(file, k + 1, g)
  BY <1>3, <1>4 DEF ScansLast
<1> QED BY <1>5

\* The recursion of `Hdus::scan` ends: each HDU is after the one before it.
LEMMA ScanEnds ==
    ASSUME NEW file, IsFile(file)
    PROVE  LET f == ScanFrom(file)
           IN  f = [o \in 0..Len(file) |-> ScanBody(file, f, o)]
<1> DEFINE n    == Len(file)
           fails == {k \in 0..n + 1 : ~\E f : ScansLast(file, k, f)}
<1>1. n \in Nat
  BY LenNat DEF IsFile
<1>2. fails = {}
  <2>1. SUFFICES ASSUME fails # {} PROVE FALSE
    OBVIOUS
  <2> DEFINE m == Least(fails)
  <2>2. m \in fails /\ \A k \in fails : m <= k
    <3>1. fails \in SUBSET Nat
      BY <1>1
    <3> HIDE DEF fails
    <3> QED BY <3>1, <2>1, LeastOf
  <2> HIDE DEF m
  <2>3. m # 0
    <3> DEFINE f == [o \in 0..n |-> 0]
    <3>1. f = [o \in 0..n |-> f[o]]
      OBVIOUS
    <3>2. \A o \in 0..n : ~(o + 0 > n)
      BY <1>1
    <3>3. ScansLast(file, 0, f)
      BY <3>1, <3>2 DEF ScansLast
    <3> QED BY <3>3, <2>2
  <2>4. m - 1 \in 0..n /\ m - 1 \notin fails /\ (m - 1) + 1 = m
    BY <2>2, <2>3, <1>1
  <2>5. m - 1 \in 0..n + 1
    BY <2>4, <1>1
  <2>6. PICK f : ScansLast(file, m - 1, f)
    BY <2>4, <2>5
  <2>7. \E g : ScansLast(file, (m - 1) + 1, g)
    BY <2>4, <2>6, ScansOneMore
  <2> QED BY <2>2, <2>4, <2>7
<1>3. PICK f : ScansLast(file, n + 1, f)
  <2>1. n + 1 \in 0..n + 1 /\ n + 1 \notin fails
    <3> HIDE DEF fails
    <3> QED BY <1>1, <1>2
  <2>2. ~~\E f : ScansLast(file, n + 1, f)
    BY <2>1
  <2> QED BY <2>2
<1>4. \A o \in 0..n : o + (n + 1) > n
  BY <1>1
<1>5. \A o \in 0..n : f[o] = ScanBody(file, f, o)
  BY <1>3, <1>4 DEF ScansLast
<1>6. f = [o \in 0..n |-> f[o]]
  BY <1>3 DEF ScansLast
<1>7. f = [o \in 0..n |-> ScanBody(file, f, o)]
  BY <1>5, <1>6
<1>8. \E h : h = [o \in 0..n |-> ScanBody(file, h, o)]
  BY <1>7
<1> QED BY <1>8 DEF ScanFrom

\* Where the HDU of an index is, in a list that starts at an offset.
OffsetIn(list, at, i) == IF i = 1 THEN at ELSE DataEnd(list[i - 1])

\* The HDUs a scan finds in the file one after the other, from an offset.
ScansAs(file, at, list) ==
    /\ IsSeq(list)
    /\ \A i \in 1..Len(list) :
          /\ OffsetIn(list, at, i) \in 0..Len(file)
          /\ Found(file, OffsetIn(list, at, i))
          /\ list[i] = HduOf(Unit(file, OffsetIn(list, at, i)), OffsetIn(list, at, i))

\* All of them: no other is found behind the last.
ScansTo(file, at, list) ==
    /\ ScansAs(file, at, list)
    /\ LET end == OffsetIn(list, at, Len(list) + 1)
       IN  end \notin 0..Len(file) \/ ~Found(file, end)

\* A scan that finds an HDU goes on behind it.
LEMMA ScansOn ==
    ASSUME NEW file, NEW at \in 0..Len(file), Found(file, at),
           NEW hdu, hdu = HduOf(Unit(file, at), at),
           NEW rest, ScansTo(file, DataEnd(hdu), rest)
    PROVE  ScansTo(file, at, <<hdu>> \o rest)
<1> DEFINE one  == <<hdu>>
           list == one \o rest
           from == DataEnd(hdu)
           n    == Len(rest)
<1>1. IsSeq(one) /\ Len(one) = 1 /\ one[1] = hdu
  BY SingletonIsSeq
<1>2. IsSeq(rest) /\ n \in Nat
  BY LenNat DEF ScansTo, ScansAs
<1> HIDE DEF one
<1>3. Joins(one, rest, list)
  BY <1>1, <1>2, ConcatIsSeq
<1> HIDE DEF list
<1>4. IsSeq(list) /\ Len(list) = n + 1 /\ list[1] = hdu /\ \A i \in 1..n : list[1 + i] = rest[i]
  <2>1. 1 \in 1..Len(one)
    BY <1>1
  <2> QED BY <2>1, <1>1, <1>2, <1>3 DEF Joins
<1>5. \A i \in 2..n + 2 : OffsetIn(list, at, i) = OffsetIn(rest, from, i - 1)
  <2>1. TAKE i \in 2..n + 2
  <2>2. CASE i = 2
    BY <2>2, <1>4 DEF OffsetIn
  <2>3. CASE i # 2
    <3>1. i - 2 \in 1..n /\ 1 + (i - 2) = i - 1 /\ (i - 1) - 1 = i - 2 /\ i - 1 # 1 /\ i # 1
      BY <2>3, <1>2
    <3>2. list[i - 1] = rest[(i - 1) - 1]
      BY <3>1, <1>4
    <3> QED BY <3>1, <3>2 DEF OffsetIn
  <2> QED BY <2>2, <2>3
<1>6. OffsetIn(list, at, 1) = at
  BY DEF OffsetIn
<1>7. ASSUME NEW i \in 1..n + 1
      PROVE  LET o == OffsetIn(list, at, i)
             IN  o \in 0..Len(file) /\ Found(file, o) /\ list[i] = HduOf(Unit(file, o), o)
  <2>1. CASE i = 1
    BY <2>1, <1>4, <1>6
  <2>2. CASE i # 1
    <3>1. i - 1 \in 1..n /\ i \in 2..n + 2 /\ 1 + (i - 1) = i
      BY <2>2, <1>2
    <3>2. OffsetIn(list, at, i) = OffsetIn(rest, from, i - 1) /\ list[i] = rest[i - 1]
      BY <3>1, <1>4, <1>5
    <3> QED BY <3>1, <3>2 DEF ScansTo, ScansAs
  <2> QED BY <2>1, <2>2
<1>8. ScansAs(file, at, list)
  BY <1>4, <1>7 DEF ScansAs
<1>9. OffsetIn(list, at, Len(list) + 1) = OffsetIn(rest, from, n + 1)
  <2>1. Len(list) + 1 \in 2..n + 2 /\ (Len(list) + 1) - 1 = n + 1
    BY <1>2, <1>4
  <2> QED BY <2>1, <1>5
<1>10. ScansTo(file, at, list)
  BY <1>8, <1>9 DEF ScansTo
<1> QED BY <1>10 DEF list, one

\* `Hdus::scan` finds HDUs from the start of the file, each where the one before
\* it ends, and every one there is.
LEMMA ScanShape ==
    ASSUME NEW file, IsFile(file)
    PROVE  ScansTo(file, 0, Scan(file))
<1> DEFINE n == Len(file)
           f == ScanFrom(file)
           fails == {k \in 0..n : ~ScansTo(file, n - k, f[n - k])}
<1>1. n \in Nat
  BY LenNat DEF IsFile
<1>2. f = [o \in 0..n |-> ScanBody(file, f, o)]
  BY ScanEnds
<1> HIDE DEF f
<1>3. \A o \in 0..n : f[o] = ScanBody(file, f, o)
  BY <1>2
<1>4. ASSUME NEW o \in Nat, o > n PROVE ScansTo(file, o, <<>>)
  <2>1. OffsetIn(<<>>, o, Len(<<>>) + 1) = o
    BY EmptyIsSeq DEF OffsetIn
  <2> QED BY <1>1, <1>4, <2>1, EmptyIsSeq DEF ScansTo, ScansAs
<1>5. ASSUME NEW o \in 0..n, ~Found(file, o) PROVE ScansTo(file, o, f[o])
  <2>1. f[o] = <<>>
    BY <1>3, <1>5 DEF ScanBody
  <2>2. OffsetIn(<<>>, o, Len(<<>>) + 1) = o
    BY EmptyIsSeq DEF OffsetIn
  <2>3. ScansTo(file, o, <<>>)
    BY <1>5, <2>2, EmptyIsSeq DEF ScansTo, ScansAs
  <2> QED BY <2>1, <2>3
<1>6. ASSUME NEW o \in 0..n, \A p \in 0..n : p > o => ScansTo(file, p, f[p])
      PROVE  ScansTo(file, o, f[o])
  <2>1. CASE ~Found(file, o)
    BY <2>1, <1>5
  <2>2. CASE Found(file, o)
    <3> DEFINE hdu  == HduOf(Unit(file, o), o)
               next == DataEnd(hdu)
               rest == IF next <= n THEN f[next] ELSE <<>>
    <3>1. next \in Nat /\ next > o
      BY <2>2, FoundShape DEF FoundHdu
    <3>2. f[o] = <<hdu>> \o rest
      BY <2>2, <1>3 DEF ScanBody
    <3>3. ScansTo(file, next, rest)
      <4> HIDE DEF next
      <4>1. CASE next <= n
        BY <4>1, <3>1, <1>1, <1>6
      <4>2. CASE next > n
        BY <4>2, <3>1, <1>1, <1>4
      <4> QED BY <4>1, <4>2, <3>1, <1>1
    <3> HIDE DEF rest
    <3>4. ScansTo(file, o, <<hdu>> \o rest)
      BY <2>2, <3>3, ScansOn
    <3> QED BY <3>2, <3>4
  <2> QED BY <2>1, <2>2
<1>7. fails = {}
  <2>1. SUFFICES ASSUME fails # {} PROVE FALSE
    OBVIOUS
  <2> DEFINE m == Least(fails)
  <2>2. m \in fails /\ \A k \in fails : m <= k
    <3>1. fails \in SUBSET Nat
      BY <1>1
    <3> HIDE DEF fails
    <3> QED BY <3>1, <2>1, LeastOf
  <2> HIDE DEF m
  <2>3. m \in 0..n /\ n - m \in 0..n
    BY <2>2, <1>1
  <2>4. ASSUME NEW p \in 0..n, p > n - m PROVE ScansTo(file, p, f[p])
    <3>1. n - p \in 0..n /\ n - p < m /\ n - (n - p) = p
      BY <2>3, <2>4, <1>1
    <3>2. n - p \notin fails
      BY <2>2, <2>3, <3>1, <1>1
    <3>3. ScansTo(file, n - (n - p), f[n - (n - p)])
      BY <3>1, <3>2
    <3> QED BY <3>1, <3>3
  <2>5. ScansTo(file, n - m, f[n - m])
    BY <2>3, <2>4, <1>6
  <2> QED BY <2>2, <2>5
<1>8. ScansTo(file, 0, f[0])
  <2>1. n \in 0..n /\ n \notin fails /\ n - n = 0
    BY <1>1, <1>7
  <2>2. ScansTo(file, n - n, f[n - n])
    BY <2>1
  <2> QED BY <2>1, <2>2
<1> QED BY <1>8, ScanIsFrom DEF f

\* A scan finds at least the HDUs that follow one another from its start.
LEMMA ScanGoesOn ==
    ASSUME NEW file, NEW at, NEW all, ScansTo(file, at, all),
           NEW list, ScansAs(file, at, list)
    PROVE  Len(all) >= Len(list) /\ \A i \in 1..Len(list) : all[i] = list[i]
<1> DEFINE n == Len(list)
           fails == {k \in 1..n : ~(k <= Len(all) /\ all[k] = list[k])}
<1>1. n \in Nat /\ Len(all) \in Nat
  BY LenNat DEF ScansTo, ScansAs
<1>2. fails = {}
  <2>1. SUFFICES ASSUME fails # {} PROVE FALSE
    OBVIOUS
  <2> DEFINE m == Least(fails)
  <2>2. m \in fails /\ \A k \in fails : m <= k
    <3>1. fails \in SUBSET Nat
      BY <1>1
    <3> HIDE DEF fails
    <3> QED BY <3>1, <2>1, LeastOf
  <2> HIDE DEF m
  <2>3. m \in 1..n /\ m \in Nat
    BY <2>2, <1>1
  <2>4. m # 1 => m - 1 <= Len(all) /\ all[m - 1] = list[m - 1]
    <3>1. SUFFICES ASSUME m # 1 PROVE m - 1 <= Len(all) /\ all[m - 1] = list[m - 1]
      OBVIOUS
    <3>2. m - 1 \in 1..n /\ m - 1 < m
      BY <3>1, <2>3, <1>1
    <3>3. m - 1 \notin fails
      BY <3>2, <2>2, <2>3, <1>1
    <3> QED BY <3>2, <3>3
  <2>5. OffsetIn(all, at, m) = OffsetIn(list, at, m)
    BY <2>4 DEF OffsetIn
  <2> DEFINE o == OffsetIn(list, at, m)
  <2>6. o \in 0..Len(file) /\ Found(file, o) /\ list[m] = HduOf(Unit(file, o), o)
    BY <2>3 DEF ScansAs
  <2>7. m <= Len(all)
    <3>1. SUFFICES ASSUME m > Len(all) PROVE FALSE
      BY <2>3, <1>1
    <3>2. m = Len(all) + 1
      BY <3>1, <2>3, <2>4, <1>1
    <3> QED BY <3>2, <2>5, <2>6 DEF ScansTo
  <2>8. all[m] = list[m]
    <3>1. m \in 1..Len(all)
      BY <2>3, <2>7, <1>1
    <3> QED BY <3>1, <2>5, <2>6 DEF ScansTo, ScansAs
  <2> QED BY <2>2, <2>7, <2>8
<1>3. \A k \in 1..n : k <= Len(all) /\ all[k] = list[k]
  BY <1>2
<1>4. Len(all) >= n
  <2>1. CASE n = 0
    BY <2>1, <1>1
  <2>2. CASE n # 0
    <3>1. n \in 1..n
      BY <2>2, <1>1
    <3> QED BY <3>1, <1>3, <1>1
  <2> QED BY <2>1, <2>2
<1> QED BY <1>3, <1>4

\* A scan of a file finds one list.
LEMMA ScanIsOne ==
    ASSUME NEW file, IsFile(file), NEW list, ScansTo(file, 0, list)
    PROVE  Scan(file) = list
<1>1. ScansTo(file, 0, Scan(file)) /\ ScansAs(file, 0, Scan(file)) /\ ScansAs(file, 0, list)
  BY ScanShape DEF ScansTo
<1> DEFINE s == Scan(file)
<1> HIDE DEF s
<1>2. Len(s) >= Len(list) /\ \A i \in 1..Len(list) : s[i] = list[i]
  BY <1>1, ScanGoesOn DEF s
<1>3. Len(list) >= Len(s)
  BY <1>1, ScanGoesOn DEF s
<1>4. IsSeq(s) /\ IsSeq(list) /\ Len(s) \in Nat /\ Len(list) \in Nat
  BY <1>1, LenNat DEF ScansAs, s
<1>5. Len(s) = Len(list)
  BY <1>2, <1>3, <1>4
<1>6. s = list
  BY <1>2, <1>4, <1>5, SeqsEqual
<1> QED BY <1>6 DEF s


--------------------------------------------------------------------------------
(* The cells of a file. *)

\* The cells of a join are those of its parts.
LEMMA JoinIsFile ==
    ASSUME NEW s, IsFile(s), NEW t, IsFile(t)
    PROVE  IsFile(s \o t)
<1> DEFINE u == s \o t
<1>1. IsSeq(s) /\ IsSeq(t) /\ Len(s) \in Nat /\ Len(t) \in Nat
  BY LenNat DEF IsFile
<1>2. Joins(s, t, u)
  BY <1>1, ConcatIsSeq
<1> HIDE DEF u
<1>3. ASSUME NEW i \in 1..Len(u) PROVE IsCell(u[i])
  <2>1. CASE i <= Len(s)
    <3>1. i \in 1..Len(s) /\ u[i] = s[i]
      BY <2>1, <1>1, <1>2 DEF Joins
    <3> QED BY <3>1 DEF IsFile
  <2>2. CASE i > Len(s)
    <3>1. i - Len(s) \in 1..Len(t) /\ Len(s) + (i - Len(s)) = i
      BY <2>2, <1>1, <1>2 DEF Joins
    <3>2. u[Len(s) + (i - Len(s))] = t[i - Len(s)]
      BY <3>1, <1>2 DEF Joins
    <3>3. IsCell(t[i - Len(s)])
      BY <3>1 DEF IsFile
    <3> QED BY <3>1, <3>2, <3>3
  <2> QED BY <2>1, <2>2, <1>1, <1>2 DEF Joins
<1>4. IsFile(u)
  BY <1>2, <1>3 DEF IsFile, Joins
<1> QED BY <1>4 DEF u

\* The cells of a cut are those of the file.
LEMMA CutIsFile ==
    ASSUME NEW s, IsFile(s), NEW m \in Nat, NEW n \in Nat, m <= n, n <= Len(s)
    PROVE  IsFile(SubSeq(s, m + 1, n))
<1> DEFINE u == SubSeq(s, m + 1, n)
<1>1. Slice(s, m, n, u) /\ Len(s) \in Nat
  BY CutIsHeld, LenNat DEF IsFile
<1> HIDE DEF u
<1>2. ASSUME NEW i \in 1..n - m PROVE IsCell(u[i])
  <2>1. m + i \in 1..Len(s) /\ u[i] = s[m + i]
    BY <1>1 DEF Slice
  <2> QED BY <2>1 DEF IsFile
<1>3. IsFile(u)
  BY <1>1, <1>2 DEF IsFile, Slice
<1> QED BY <1>3 DEF u

\* A fill opens no header.
LEMMA FillIsFile ==
    ASSUME NEW n \in Nat, NEW cell, cell[1] # "open"
    PROVE  IsFile(Fill(cell, n))
BY FillIsSeq DEF IsFile, IsCell

\* So does data.
LEMMA DataIsFile ==
    ASSUME NEW n \in Nat
    PROVE  IsFile(Data(n))
BY DataIsSeq DEF IsFile, IsCell

\* Nor does a data unit.
LEMMA UnitIsFile ==
    ASSUME NEW kind, kind.len \in Nat
    PROVE  IsFile(UnitOf(kind))
<1>1. Padding(kind.len) \in Nat
  BY Grid, BAssumption
<1>2. IsFile(DataFill(kind))
  <2>1. (IF kind.ascii THEN Blank ELSE Zero)[1] # "open"
    BY DEF Blank, Zero
  <2> QED BY <1>1, <2>1, FillIsFile DEF DataFill
<1> QED BY <1>2, DataIsFile, JoinIsFile DEF UnitOf

\* A rendered header opens with its own records alone.
LEMMA RenderIsFile ==
    ASSUME NEW header, IsHeader(header), NEW signing, IsSigning(signing), NEW spare \in Nat
    PROVE  IsFile(RenderInto(header, signing, spare))
<1> DEFINE r   == RenderRecords(header, signing)
           out == RenderInto(header, signing, spare)
           c   == Least(Tagged(r, "checksum"))
<1>1. RecordsOf(header, signing, r)
  BY RecordsShape
<1>2. Rendered(header, signing, spare, out)
  BY RenderShape
<1> HIDE DEF r, out
<1>3. /\ IsSeq(out) /\ Len(r) \in Nat /\ Len(out) \in Nat
      /\ \A i \in 1..Len(r) : out[i][1] = r[i][1]
      /\ \A i \in 1..Len(r) : ~signing.final \/ i # c => out[i] = r[i]
      /\ \A i \in Len(r) + 1..Len(out) :
            out[i] = IF i = Len(r) + spare + 1 THEN EndRecord ELSE Blank
  BY <1>2, LenNat DEF Rendered, r
<1>4. ASSUME NEW i \in 1..Len(out) PROVE IsCell(out[i])
  <2>1. CASE i > Len(r)
    <3>1. i \in Len(r) + 1..Len(out)
      BY <2>1, <1>3
    <3>2. out[i] = EndRecord \/ out[i] = Blank
      BY <3>1, <1>3
    <3> QED BY <3>2 DEF IsCell, EndRecord, Blank
  <2>2. CASE i <= Len(r)
    <3>1. i \in 1..Len(r) /\ out[i][1] = r[i][1]
      BY <2>2, <1>3
    <3>2. SUFFICES ASSUME r[i][1] = "open" PROVE IsCell(out[i])
      BY <3>1 DEF IsCell
    <3>3. signing.final => r[c] = Placeholder
      BY <1>1 DEF RecordsOf, IsSigning
    <3>4. ~signing.final \/ i # c
      BY <3>2, <3>3 DEF Placeholder
    <3>5. out[i] = r[i]
      BY <3>1, <3>4, <1>3
    <3>6. r[i][2] \in [ext : BOOLEAN, ascii : BOOLEAN, len : Nat]
      BY <3>1, <3>2, <1>1 DEF RecordsOf, IsHeader, Blank
    <3> QED BY <3>5, <3>6 DEF IsCell
  <2> QED BY <2>1, <2>2, <1>3
<1>5. IsFile(out)
  BY <1>3, <1>4 DEF IsFile
<1> QED BY <1>5 DEF out
================================================================================
