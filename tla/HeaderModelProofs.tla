---------------------------- MODULE HeaderModelProofs --------------------------
(***************************************************************************)
(* The index of a header points at the first record of each name, for      *)
(* every set of names and headers of every length: the type invariant and  *)
(* IndexPointsAtFirst are inductive together.                              *)
(***************************************************************************)
EXTENDS HeaderModel, FiniteSetTheorems, WellFoundedInduction, TLAPS

IInv == TypeOK /\ IndexPointsAtFirst

--------------------------------------------------------------------------------
(* Lemmas about the index operators *)

\* A set of naturals that is not empty has a least element.
LEMMA LeastExists ==
    ASSUME NEW S \in SUBSET Nat, S # {}
    PROVE  \E m \in S : \A k \in S : m <= k
<1> DEFINE R == {ss \in Nat \X Nat : ss[1] < ss[2]}
<1>1. IsWellFoundedOn(R, Nat)
  BY NatLessThanWellFounded, Zenon DEF OpToRel
<1>2. \E m \in S : \A k \in S : ~(<<k, m>> \in R)
  BY <1>1, WFMin
<1>3. \A k, m \in S : ~(<<k, m>> \in R) => m <= k
  OBVIOUS
<1> QED BY <1>2, <1>3

\* The name of a record without one is never an index key.
LEMMA NoNameNotIndexed == NoName \notin IndexNames
  BY DEF NoName, IndexNames, Key, Hier

\* FirstFrom finds the first record of a name at or after a position, or none.
LEMMA FirstFromCorrect ==
    ASSUME NEW rs \in Seq(Records), NEW name, NEW from \in Nat \ {0}
    PROVE  LET p == FirstFrom(rs, name, from)
           IN  \/ p = 0 /\ \A j \in from .. Len(rs) : IndexName(rs[j]) # name
               \/ /\ p \in from .. Len(rs)
                  /\ IndexName(rs[p]) = name
                  /\ \A j \in from .. p - 1 : IndexName(rs[j]) # name
<1> DEFINE H == Hits(rs, name, from)
<1>1. CASE H = {}
  BY <1>1 DEF FirstFrom, Hits
<1>2. CASE H # {}
  <2>1. H \in SUBSET Nat
    BY DEF Hits
  <2>2. \E m \in H : \A k \in H : m <= k
    BY <1>2, <2>1, LeastExists
  <2>3. FirstFrom(rs, name, from) = CHOOSE m \in H : \A k \in H : m <= k
    BY <1>2 DEF FirstFrom
  <2>4. /\ FirstFrom(rs, name, from) \in H
        /\ \A k \in H : FirstFrom(rs, name, from) <= k
    BY <2>2, <2>3
  <2> QED BY <2>4 DEF Hits
<1> QED BY <1>1, <1>2

\* `reindex` builds an index of the records.
LEMMA ReindexCorrect ==
    ASSUME NEW rs \in Seq(Records)
    PROVE  /\ Reindex(rs) \in [IndexNames -> 0 .. Len(rs)]
           /\ Indexes(Reindex(rs), rs)
<1>1. \A name \in IndexNames :
         LET p == FirstFrom(rs, name, 1)
         IN  \/ p = 0 /\ \A j \in 1 .. Len(rs) : IndexName(rs[j]) # name
             \/ /\ p \in 1 .. Len(rs)
                /\ IndexName(rs[p]) = name
                /\ \A j \in 1 .. p - 1 : IndexName(rs[j]) # name
  BY FirstFromCorrect
<1>2. \A name \in IndexNames : FirstFrom(rs, name, 1) \in 0 .. Len(rs)
  BY <1>1
<1> QED BY <1>1, <1>2 DEF Reindex, Indexes

\* An insert makes a sequence of records, one longer.
LEMMA InsertRecordType ==
    ASSUME NEW rs \in Seq(Records), NEW i \in 1 .. Len(rs) + 1, NEW r \in Records
    PROVE  /\ InsertRecord(rs, i, r) \in Seq(Records)
           /\ Len(InsertRecord(rs, i, r)) = Len(rs) + 1
  BY DEF InsertRecord

\* `insert_at` patches an index of the records to one of the records after it.
LEMMA InsertIndexCorrect ==
    ASSUME NEW rs \in Seq(Records), NEW ix \in [IndexNames -> 0 .. Len(rs)],
           NEW i \in 1 .. Len(rs) + 1, NEW r \in Records, Indexes(ix, rs)
    PROVE  /\ InsertIndex(ix, i, r) \in [IndexNames -> 0 .. Len(rs) + 1]
           /\ Indexes(InsertIndex(ix, i, r), InsertRecord(rs, i, r))
<1> DEFINE new == InsertRecord(rs, i, r)
           nx == InsertIndex(ix, i, r)
<1>1. Len(new) = Len(rs) + 1
  BY InsertRecordType
<1>2. \A j \in 1 .. Len(rs) + 1 :
         new[j] = IF j < i THEN rs[j] ELSE IF j = i THEN r ELSE rs[j - 1]
  BY DEF InsertRecord
<1>a. /\ \A j \in 1 .. i - 1 : IndexName(new[j]) = IndexName(rs[j])
      /\ IndexName(new[i]) = IndexName(r)
      /\ \A j \in i + 1 .. Len(rs) + 1 : IndexName(new[j]) = IndexName(rs[j - 1])
  BY <1>2
<1>3. nx \in [IndexNames -> 0 .. Len(rs) + 1]
  BY DEF InsertIndex, Lesser
<1>4. ASSUME NEW name \in IndexNames
      PROVE  /\ nx[name] = 0 => \A j \in 1 .. Len(new) : IndexName(new[j]) # name
             /\ nx[name] # 0 => /\ IndexName(new[nx[name]]) = name
                                /\ \A j \in 1 .. nx[name] - 1 : IndexName(new[j]) # name
  <2>1. nx[name] = IF name # IndexName(r) THEN IF ix[name] >= i THEN ix[name] + 1 ELSE ix[name]
                   ELSE IF ix[name] = 0 \/ ix[name] >= i THEN i
                   ELSE ix[name]
    BY DEF InsertIndex, Lesser
  <2> HIDE DEF new, nx
  <2>2. CASE ix[name] = 0
    <3>1. \A j \in 1 .. Len(rs) : IndexName(rs[j]) # name
      BY <2>2 DEF Indexes
    <3>2. CASE name # IndexName(r)
      BY <1>1, <1>a, <2>1, <2>2, <3>1, <3>2
    <3>3. CASE name = IndexName(r)
      BY <1>1, <1>a, <2>1, <2>2, <3>1, <3>3
    <3> QED BY <3>2, <3>3
  <2>3. CASE ix[name] # 0
    <3>1. /\ IndexName(rs[ix[name]]) = name
          /\ \A j \in 1 .. ix[name] - 1 : IndexName(rs[j]) # name
          /\ ix[name] \in 1 .. Len(rs)
      BY <2>3 DEF Indexes
    <3>2. CASE ix[name] < i
      BY <1>1, <1>a, <2>1, <2>3, <3>1, <3>2
    <3>3. CASE ix[name] >= i /\ name # IndexName(r)
      <4>1. nx[name] = ix[name] + 1
        BY <2>1, <3>3
      <4>2. IndexName(new[ix[name] + 1]) = IndexName(rs[(ix[name] + 1) - 1])
        BY <1>a, <3>1, <3>3
      <4>3. ASSUME NEW j \in 1 .. ix[name] PROVE IndexName(new[j]) # name
        <5>1. CASE j < i
          BY <1>a, <3>1, <3>3, <5>1
        <5>2. CASE j = i
          BY <1>a, <3>3, <5>2
        <5>3. CASE j > i
          <6>1. IndexName(new[j]) = IndexName(rs[j - 1]) /\ j - 1 \in 1 .. ix[name] - 1
            BY <1>a, <3>1, <3>3, <5>3
          <6> QED BY <3>1, <6>1
        <5> QED BY <5>1, <5>2, <5>3
      <4> QED BY <3>1, <4>1, <4>2, <4>3
    <3>4. CASE ix[name] >= i /\ name = IndexName(r)
      BY <1>1, <1>a, <2>1, <2>3, <3>1, <3>4
    <3> QED BY <3>1, <3>2, <3>3, <3>4
  <2> QED BY <2>2, <2>3
<1> QED BY <1>1, <1>3, <1>4 DEF Indexes

\* A removal makes a sequence of records, one shorter.
LEMMA RemoveRecordType ==
    ASSUME NEW rs \in Seq(Records), NEW i \in 1 .. Len(rs)
    PROVE  /\ RemoveRecord(rs, i) \in Seq(Records)
           /\ Len(RemoveRecord(rs, i)) = Len(rs) - 1
  BY DEF RemoveRecord

\* `take_at` patches an index of the records to one of the records after it.
LEMMA TakeIndexCorrect ==
    ASSUME NEW rs \in Seq(Records), NEW ix \in [IndexNames -> 0 .. Len(rs)],
           NEW i \in 1 .. Len(rs), Indexes(ix, rs)
    PROVE  /\ TakeIndex(ix, rs, i) \in [IndexNames -> 0 .. Len(rs) - 1]
           /\ Indexes(TakeIndex(ix, rs, i), RemoveRecord(rs, i))
<1> DEFINE new == RemoveRecord(rs, i)
           nx == TakeIndex(ix, rs, i)
<1>1. new \in Seq(Records) /\ Len(new) = Len(rs) - 1
  BY RemoveRecordType
<1>2. \A j \in 1 .. Len(rs) - 1 : new[j] = IF j < i THEN rs[j] ELSE rs[j + 1]
  BY DEF RemoveRecord
<1>a. /\ \A j \in 1 .. i - 1 : IndexName(new[j]) = IndexName(rs[j])
      /\ \A j \in i .. Len(rs) - 1 : IndexName(new[j]) = IndexName(rs[j + 1])
  BY <1>2
<1>3. ASSUME NEW name \in IndexNames
      PROVE  /\ nx[name] \in 0 .. Len(rs) - 1
             /\ nx[name] = 0 => \A j \in 1 .. Len(new) : IndexName(new[j]) # name
             /\ nx[name] # 0 => /\ IndexName(new[nx[name]]) = name
                                /\ \A j \in 1 .. nx[name] - 1 : IndexName(new[j]) # name
  <2> DEFINE s == IF ix[name] > i THEN ix[name] - 1 ELSE ix[name]
  <2>1. nx[name] = IF name = IndexName(rs[i]) /\ s = i THEN FirstFrom(new, name, i) ELSE s
    BY DEF TakeIndex
  <2> HIDE DEF new, nx
  <2>2. CASE ix[name] = 0
    BY <1>1, <1>2, <2>1, <2>2 DEF Indexes
  <2>3. CASE ix[name] # 0
    <3>1. /\ IndexName(rs[ix[name]]) = name
          /\ \A j \in 1 .. ix[name] - 1 : IndexName(rs[j]) # name
          /\ ix[name] \in 1 .. Len(rs)
      BY <2>3 DEF Indexes
    <3>2. CASE ix[name] = i
      <4>1. nx[name] = FirstFrom(new, name, i)
        BY <2>1, <3>1, <3>2
      <4>2. \/ nx[name] = 0 /\ \A j \in i .. Len(new) : IndexName(new[j]) # name
            \/ /\ nx[name] \in i .. Len(new)
               /\ IndexName(new[nx[name]]) = name
               /\ \A j \in i .. nx[name] - 1 : IndexName(new[j]) # name
        BY <1>1, <4>1, FirstFromCorrect
      <4>3. \A j \in 1 .. i - 1 : IndexName(new[j]) # name
        BY <1>2, <3>1, <3>2
      <4> QED BY <1>1, <4>2, <4>3
    <3>3. CASE ix[name] < i
      BY <1>1, <1>2, <2>1, <3>1, <3>3
    <3>4. CASE ix[name] > i
      <4>1. name # IndexName(rs[i])
        BY <3>1, <3>4
      <4>2. nx[name] = ix[name] - 1
        BY <2>1, <3>4, <4>1
      <4>3. IndexName(new[ix[name] - 1]) = IndexName(rs[(ix[name] - 1) + 1])
        BY <1>a, <3>1, <3>4
      <4>4. ASSUME NEW j \in 1 .. ix[name] - 2 PROVE IndexName(new[j]) # name
        <5>1. CASE j < i
          BY <1>a, <3>1, <3>4, <5>1
        <5>2. CASE j >= i
          <6>1. IndexName(new[j]) = IndexName(rs[j + 1]) /\ j + 1 \in 1 .. ix[name] - 1
            BY <1>a, <3>1, <3>4, <5>2
          <6> QED BY <3>1, <6>1
        <5> QED BY <5>1, <5>2
      <4> QED BY <3>1, <3>4, <4>2, <4>3, <4>4
    <3> QED BY <3>1, <3>2, <3>3, <3>4
  <2> QED BY <2>2, <2>3
<1>4. nx \in [IndexNames -> 0 .. Len(rs) - 1]
  BY <1>3 DEF TakeIndex
<1> QED BY <1>3, <1>4 DEF Indexes

\* An edit that keeps the length and the name of every record keeps the index.
LEMMA SameNames ==
    ASSUME NEW rs \in Seq(Records), NEW new \in Seq(Records),
           NEW ix \in [IndexNames -> 0 .. Len(rs)], Indexes(ix, rs),
           Len(new) = Len(rs),
           \A j \in 1 .. Len(rs) : IndexName(new[j]) = IndexName(rs[j])
    PROVE  ix \in [IndexNames -> 0 .. Len(new)] /\ Indexes(ix, new)
  BY DEF Indexes

\* So does one that adds, at the end, records the index does not know.
LEMMA AppendedUnindexed ==
    ASSUME NEW rs \in Seq(Records), NEW new \in Seq(Records),
           NEW ix \in [IndexNames -> 0 .. Len(rs)], Indexes(ix, rs),
           Len(rs) <= Len(new),
           \A j \in 1 .. Len(rs) : new[j] = rs[j],
           \A j \in Len(rs) + 1 .. Len(new) : IndexName(new[j]) = NoName
    PROVE  ix \in [IndexNames -> 0 .. Len(new)] /\ Indexes(ix, new)
  BY NoNameNotIndexed DEF Indexes

--------------------------------------------------------------------------------
(* Record types *)

\* A valued record of an index name is a record.
LEMMA ValuedType ==
    ASSUME NEW n \in IndexNames, NEW v \in Values, NEW c \in Comments
    PROVE  /\ Valued(n, v, c) \in Records
           /\ IndexName(Valued(n, v, c)) = n
<1>1. Valued(n, v, c) \in Records
  BY DEF Records
<1>2. Valued(n, v, c).kind # "commentary" /\ Valued(n, v, c).name = n
  BY DEF Valued, Rec, ValuedKind
<1> QED BY <1>1, <1>2 DEF IndexName

\* What a record is, by its kind.
LEMMA RecordShape ==
    ASSUME NEW r \in Records
    PROVE  /\ r.kind \in {"valued", "hierarch", "commentary", "malformed"}
           /\ r.kind \in {"valued", "hierarch"} =>
                 /\ r.name \in IndexNames /\ r.kind = ValuedKind(r.name)
                 /\ r.value \in Values /\ r.comment \in Comments
                 /\ r = Valued(r.name, r.value, r.comment)
           /\ r.kind = "malformed" => r = Malformed(r.name)
           /\ r.kind = "commentary" => r \in CommentaryRecords
<1>1. CASE r \in CommentaryRecords
  BY <1>1 DEF CommentaryRecords, Commentary, Rec
<1>2. ASSUME NEW n \in RecordNames \union {NoName}, r = Malformed(n)
      PROVE  r.kind = "malformed" /\ r = Malformed(r.name)
  BY <1>2 DEF Malformed, Rec
<1>3. ASSUME NEW n \in IndexNames, NEW v \in Values, NEW c \in Comments, r = Valued(n, v, c)
      PROVE  /\ r.kind = ValuedKind(n) /\ r.name = n /\ r.value = v /\ r.comment = c
             /\ r.kind \in {"valued", "hierarch"}
  BY <1>3 DEF Valued, Rec, ValuedKind
<1> QED BY <1>1, <1>2, <1>3 DEF Records

\* A selection of records is a sequence of records.
LEMMA SelectionType ==
    ASSUME NEW rs \in Seq(Records), NEW kept \in SUBSET (1 .. Len(rs)),
           NEW new \in Selections(rs, kept)
    PROVE  new \in Seq(Records) /\ Len(new) <= Len(rs)
<1> DEFINE n == Len(rs)
<1>0. n \in Nat
  OBVIOUS
<1> HIDE DEF n
<1>1. IsFiniteSet(1 .. n) /\ Cardinality(1 .. n) = n
  BY <1>0, FS_Interval
<1> USE DEF n
<1>2. Cardinality(kept) \in Nat /\ Cardinality(kept) <= Len(rs)
  BY <1>1, FS_Subset, FS_CardinalityType
<1>3. PICK p \in [1 .. Cardinality(kept) -> kept] :
         new = [j \in 1 .. Cardinality(kept) |-> rs[p[j]]]
  BY DEF Selections
<1>4. \A j \in 1 .. Cardinality(kept) : p[j] \in 1 .. Len(rs)
  BY <1>3
<1>5. \A j \in 1 .. Cardinality(kept) : rs[p[j]] \in Records
  BY <1>4
<1> QED BY <1>2, <1>3, <1>5

--------------------------------------------------------------------------------
(* Steps *)

\* A step that inserts a record keeps the invariant.
LEMMA InsertAtStep ==
    ASSUME IInv, NEW i \in 1 .. Len(records) + 1, NEW r \in Records, InsertAt(i, r),
           phase' \in {"parsing", "ready", "failed"}
    PROVE  IInv'
  BY InsertIndexCorrect, InsertRecordType DEF IInv, TypeOK, IndexPointsAtFirst, InsertAt

\* A step that pushes a record keeps the invariant.
LEMMA PushRecordStep ==
    ASSUME IInv, NEW r \in Records, PushRecord(r), phase' \in {"parsing", "ready", "failed"}
    PROVE  IInv'
<1>1. Len(records) + 1 \in 1 .. Len(records) + 1
  BY DEF IInv, TypeOK
<1> QED BY <1>1, InsertAtStep DEF PushRecord

\* A step that replaces the record at i by one the index knows by the same name.
LEMMA ReplaceStep ==
    ASSUME IInv, NEW i \in 1 .. Len(records), NEW r \in Records,
           records' = [records EXCEPT ![i] = r], IndexName(r) = IndexName(records[i]),
           UNCHANGED index, phase' \in {"parsing", "ready", "failed"}
    PROVE  IInv'
<1>1. records' \in Seq(Records) /\ Len(records') = Len(records)
  BY DEF IInv, TypeOK
<1>2. \A j \in 1 .. Len(records) : IndexName(records'[j]) = IndexName(records[j])
  BY DEF IInv, TypeOK
<1> QED BY <1>1, <1>2, SameNames DEF IInv, TypeOK, IndexPointsAtFirst

\* A step that rebuilds the index over new records.
LEMMA ReindexStep ==
    ASSUME records' \in Seq(Records), index' = Reindex(records'),
           phase' \in {"parsing", "ready", "failed"}
    PROVE  IInv'
  BY ReindexCorrect DEF IInv, TypeOK, IndexPointsAtFirst

\* Every step of a parse keeps the invariant.
LEMMA ParseStep == IInv /\ Parse => IInv'
<1> SUFFICES ASSUME IInv, Parse PROVE IInv'
  OBVIOUS
<1>1. CASE ParseRecord
  BY <1>1, PushRecordStep DEF ParseRecord
<1>2. CASE ParseContinue
  <2> DEFINE last == records[Len(records)]
  <2>1. Len(records) \in 1 .. Len(records) /\ last \in Records
    BY <1>2 DEF ParseContinue, AwaitsContinuation, IInv, TypeOK
  <2>2. PICK value \in Values, fragment \in Comments :
           records' = [records EXCEPT ![Len(records)] = Folded(last, value, fragment)]
    BY <1>2 DEF ParseContinue
  <2>3. /\ last.name \in IndexNames /\ last.comment \in Comments
        /\ last.kind = ValuedKind(last.name)
        /\ last = Valued(last.name, last.value, last.comment)
    BY <1>2, <2>1, RecordShape DEF ParseContinue, AwaitsContinuation
  <2>4. \E c \in Comments : Folded(last, value, fragment) = Valued(last.name, value, c)
    <3> DEFINE c == IF fragment = "none" THEN last.comment ELSE "some"
    <3>1. c \in Comments
      BY <2>3 DEF Comments
    <3>2. Folded(last, value, fragment) = Valued(last.name, value, c)
      BY <2>3 DEF Folded, Valued
    <3> QED BY <3>1, <3>2
  <2>5. Folded(last, value, fragment) \in Records
        /\ IndexName(Folded(last, value, fragment)) = last.name
    BY <2>3, <2>4, ValuedType
  <2>6. IndexName(last) = last.name
    BY <1>2, <2>3 DEF IndexName, ParseContinue, AwaitsContinuation
  <2> QED BY <1>2, <2>1, <2>2, <2>5, <2>6, ReplaceStep DEF ParseContinue
<1>3. CASE ParseOrphanContinue
  BY <1>3, PushRecordStep DEF ParseOrphanContinue, Records
<1>4. CASE ParseEnd
  <2>1. PICK n \in 0 .. Len(records) :
           /\ \A j \in n + 1 .. Len(records) : IsBlank(records[j])
           /\ records' = SubSeq(records, 1, n)
    BY <1>4 DEF ParseEnd
  <2>2. /\ records' \in Seq(Records) /\ Len(records') = n
        /\ \A j \in 1 .. n : records'[j] = records[j]
    BY <2>1 DEF IInv, TypeOK
  <2>a. \A r : IsBlank(r) => r.kind = "commentary"
    <3> SUFFICES ASSUME NEW r, IsBlank(r) PROVE r.kind = "commentary"
      OBVIOUS
    <3>1. r = [kind |-> "commentary", name |-> Comm(""), value |-> "none", comment |-> "none"]
      BY DEF IsBlank, Commentary, Rec
    <3> QED BY <3>1
  <2>3. \A j \in n + 1 .. Len(records) : IndexName(records[j]) = NoName
    BY <2>1, <2>a DEF IndexName
  <2>4. ASSUME NEW name \in IndexNames PROVE index[name] \in 0 .. n
    <3>1. index[name] \in 0 .. Len(records)
      BY DEF IInv, TypeOK
    <3>2. index[name] # 0 => IndexName(records[index[name]]) # NoName
      BY NoNameNotIndexed DEF IInv, IndexPointsAtFirst, Indexes
    <3> QED BY <2>3, <3>1, <3>2 DEF IInv, TypeOK
  <2>5. index' = index /\ phase' = "ready"
    BY <1>4 DEF ParseEnd
  <2>6. TypeOK'
    BY <2>2, <2>4, <2>5 DEF IInv, TypeOK
  <2>7. IndexPointsAtFirst'
    BY <2>2, <2>4, <2>5 DEF IInv, TypeOK, IndexPointsAtFirst, Indexes
  <2> QED BY <2>6, <2>7 DEF IInv
<1>5. CASE ParseMissingEnd
  BY <1>5 DEF ParseMissingEnd, IInv, TypeOK, IndexPointsAtFirst
<1> QED BY <1>1, <1>2, <1>3, <1>4, <1>5 DEF Parse

\* Every edit keeps the invariant.
LEMMA EditStep == IInv /\ Edit => IInv'
<1> SUFFICES ASSUME IInv, Edit PROVE IInv'
  OBVIOUS
<1>0. phase' \in {"parsing", "ready", "failed"}
  BY DEF Edit
<1>a. /\ records \in Seq(Records) /\ index \in [IndexNames -> 0 .. Len(records)]
      /\ Indexes(index, records)
  BY DEF IInv, TypeOK, IndexPointsAtFirst
\* The record an indexed name finds: valued, HIERARCH or malformed, of that name.
<1>b. ASSUME NEW name \in IndexNames, index[name] # 0
      PROVE  /\ index[name] \in 1 .. Len(records)
             /\ records[index[name]] \in Records
             /\ IndexName(records[index[name]]) = name
             /\ records[index[name]].name = name
             /\ records[index[name]].kind \in {"valued", "hierarch", "malformed"}
  <2>1. /\ index[name] \in 1 .. Len(records)
        /\ IndexName(records[index[name]]) = name
    BY <1>a, <1>b DEF Indexes
  <2>2. records[index[name]] \in Records
    BY <1>a, <2>1
  <2>3. /\ records[index[name]].kind # "commentary"
        /\ records[index[name]].name = name
    BY <2>1, NoNameNotIndexed DEF IndexName
  <2> QED BY <2>1, <2>2, <2>3, RecordShape
<1>1. ASSUME NEW name \in RecordNames, NEW value \in Values, Set(name, value) PROVE IInv'
  <2>1. name \in IndexNames
    BY <1>1 DEF Set, Settable
  <2>2. CASE First(name) = 0 /\ PushRecord(Valued(name, value, "none"))
    BY <1>0, <2>1, <2>2, PushRecordStep, ValuedType DEF Comments
  <2>3. CASE /\ First(name) # 0 /\ UNCHANGED index
             /\ records' = [records EXCEPT ![First(name)] = Replacement(@, value)]
    <3> DEFINE i == index[name]
               r == Replacement(records[i], value)
    <3>1. First(name) = i
      BY <2>1 DEF First
    <3>2. i # 0
      BY <2>3, <3>1
    <3>3. r \in Records /\ IndexName(r) = name
      <4>1. CASE records[i].kind = "malformed"
        <5>1. r = Valued(name, value, "none")
          BY <1>b, <2>1, <3>2, <4>1 DEF Replacement
        <5> QED BY <2>1, <5>1, ValuedType DEF Comments
      <4>2. CASE records[i].kind # "malformed"
        <5>1. /\ records[i].comment \in Comments
              /\ records[i] = Valued(name, records[i].value, records[i].comment)
          BY <1>b, <2>1, <3>2, <4>2, RecordShape
        <5>2. r = Valued(name, value, records[i].comment)
          BY <1>b, <2>1, <3>2, <4>2, <5>1, RecordShape DEF Replacement, Valued
        <5> QED BY <2>1, <5>1, <5>2, ValuedType
      <4> QED BY <4>1, <4>2
    <3>4. records' = [records EXCEPT ![i] = r]
      BY <2>3, <3>1
    <3> HIDE DEF r
    <3> QED BY <1>0, <1>b, <2>1, <2>3, <3>2, <3>3, <3>4, ReplaceStep
  <2> QED BY <1>1, <2>2, <2>3 DEF Set
<1>2. ASSUME NEW i \in 1 .. Len(records) + 1, NEW r \in Records, InsertEdit(i, r) PROVE IInv'
  BY <1>0, <1>2, InsertAtStep DEF InsertEdit
<1>3. ASSUME NEW i \in 1 .. Len(records), RemoveAt(i) PROVE IInv'
  BY <1>0, <1>3, <1>a, TakeIndexCorrect, RemoveRecordType
     DEF RemoveAt, IInv, TypeOK, IndexPointsAtFirst
<1>4. ASSUME NEW name \in RecordNames, IndexOf(name) # 0 PROVE IndexOf(name) \in 1 .. Len(records)
  <2> DEFINE end == IF First(name) = 0 THEN Len(records) ELSE First(name)
             hits == {j \in 1 .. end : IsNamed(records[j], name)}
  <2>1. end \in 0 .. Len(records)
    BY <1>a DEF First
  <2>2. hits \in SUBSET (1 .. Len(records))
    BY <1>a, <2>1
  <2>3. hits # {} /\ IndexOf(name) = CHOOSE j \in hits : \A k \in hits : j <= k
    BY <1>4 DEF IndexOf
  <2>4. \E j \in hits : \A k \in hits : j <= k
    <3>1. hits \in SUBSET Nat
      BY <2>2
    <3> QED BY <2>3, <3>1, LeastExists
  <2> QED BY <2>2, <2>3, <2>4
<1>5. ASSUME NEW kept \in SUBSET (1 .. Len(records)), Retain(kept) PROVE IInv'
  <2>1. CASE UNCHANGED <<records, index>>
    BY <1>0, <2>1 DEF IInv, TypeOK, IndexPointsAtFirst
  <2>2. CASE records' \in Selections(records, kept) /\ index' = Reindex(records')
    BY <1>0, <1>a, <2>2, SelectionType, ReindexStep
  <2> QED BY <1>5, <2>1, <2>2 DEF Retain
<1>6. ASSUME NEW source \in Sources, NEW keys, AppendFiltered(source, keys) PROVE IInv'
  <2>1. source \in Seq(Records)
    BY BoundsAssumption DEF Sources
  <2>2. Without(source, keys) \in SUBSET (1 .. Len(source))
    BY DEF Without
  <2>3. PICK more \in Selections(source, Without(source, keys)) :
           records' = records \o more /\ index' = Reindex(records')
    BY <1>6 DEF AppendFiltered
  <2>4. more \in Seq(Records)
    BY <2>1, <2>2, SelectionType
  <2> QED BY <1>0, <1>a, <2>3, <2>4, ReindexStep
<1>7. ASSUME NEW from \in KeyNames, NEW to \in KeyNames, Rename(from, to) PROVE IInv'
  <2> DEFINE renamed(r) == IF r.kind = "valued" /\ r.name = from THEN Rec(r.kind, to, r.value, r.comment) ELSE r
  <2>1. ASSUME NEW r \in Records PROVE renamed(r) \in Records
    <3>1. CASE r.kind = "valued" /\ r.name = from
      <4>1. /\ r = Valued(from, r.value, r.comment)
            /\ r.value \in Values /\ r.comment \in Comments
            /\ from \in IndexNames /\ to \in IndexNames
        BY <2>1, <3>1, RecordShape DEF KeyNames, IndexNames
      <4>2. ValuedKind(from) = ValuedKind(to)
        BY DEF ValuedKind, KeyNames, Key
      <4>3. renamed(r) = Rec(ValuedKind(from), to, r.value, r.comment)
        BY <2>1, <3>1, RecordShape
      <4>4. renamed(r) = Valued(to, r.value, r.comment)
        BY <4>2, <4>3 DEF Valued
      <4> QED BY <4>1, <4>4, ValuedType
    <3>2. CASE ~(r.kind = "valued" /\ r.name = from)
      BY <3>2
    <3> QED BY <3>1, <3>2
  <2>2. records' = [j \in 1 .. Len(records) |-> renamed(records[j])]
    BY <1>7 DEF Rename
  <2> HIDE DEF renamed
  <2>3. records' \in Seq(Records)
    BY <1>a, <2>1, <2>2
  <2>4. CASE records' # records
    BY <1>0, <1>7, <2>3, <2>4, ReindexStep DEF Rename
  <2>5. CASE records' = records
    BY <1>0, <1>7, <2>5 DEF Rename, IInv, TypeOK, IndexPointsAtFirst
  <2> QED BY <2>4, <2>5
<1>8. ASSUME NEW name \in RecordNames, SetComment(name) PROVE IInv'
  <2> DEFINE i == index[name]
             r == WithComment(records[i])
  <2>1. name \in IndexNames /\ First(name) = i /\ i # 0 /\ index' = index
    BY <1>8 DEF SetComment, Settable, First
  <2>2. records[i].kind # "malformed"
    BY <1>8, <2>1 DEF SetComment
  <2>3. /\ records[i].value \in Values
        /\ records[i] = Valued(name, records[i].value, records[i].comment)
    BY <1>b, <2>1, <2>2, RecordShape
  <2>4. r = Valued(name, records[i].value, "some")
    BY <1>b, <2>1, <2>2, RecordShape DEF WithComment, Valued
  <2>5. r \in Records /\ IndexName(r) = name
    BY <2>1, <2>3, <2>4, ValuedType DEF Comments
  <2>6. records' = [records EXCEPT ![i] = r]
    BY <1>8, <2>1 DEF SetComment
  <2> HIDE DEF r
  <2> QED BY <1>0, <1>b, <2>1, <2>5, <2>6, ReplaceStep
<1>9. ASSUME NEW r \in CommentaryRecords, PushCommentary(r) PROVE IInv'
  <2>1. r \in Records /\ records' = Append(records, r) /\ index' = index
    BY <1>9 DEF PushCommentary, Records
  <2>2. r.kind = "commentary"
    BY DEF CommentaryRecords, Commentary, Rec
  <2>3. IndexName(r) = NoName
    BY <2>2 DEF IndexName
  <2>4. /\ records' \in Seq(Records) /\ Len(records') = Len(records) + 1
        /\ \A j \in 1 .. Len(records) : records'[j] = records[j]
        /\ records'[Len(records) + 1] = r
    BY <1>a, <2>1
  <2>5. index \in [IndexNames -> 0 .. Len(records')] /\ Indexes(index, records')
    BY <1>a, <2>3, <2>4, AppendedUnindexed
  <2> QED BY <1>0, <2>1, <2>4, <2>5 DEF IInv, TypeOK, IndexPointsAtFirst
<1>10. ASSUME NEW name \in RecordNames, RemoveAll(name) PROVE IInv'
  BY <1>5, <1>10 DEF RemoveAll
<1>11. ASSUME NEW keys, RemoveWhere(keys) PROVE IInv'
  BY <1>5, <1>11 DEF RemoveWhere, Without
<1> QED BY <1>1, <1>2, <1>3, <1>4, <1>6, <1>7, <1>8, <1>9, <1>10, <1>11 DEF Edit

\* The invariant holds before the first card.
LEMMA InitIInv == Init => IInv
<1>1. << >> \in Seq(Records)
  OBVIOUS
<1> QED BY <1>1, ReindexCorrect DEF Init, IInv, TypeOK, IndexPointsAtFirst

\* The records and the index stay well-typed and every indexed name points at its
\* first record, for any set of names and any header length.
THEOREM HeaderIndexed == Spec => []IInv
<1>1. IInv /\ UNCHANGED vars => IInv'
  BY DEF IInv, TypeOK, IndexPointsAtFirst, vars
<1>2. IInv /\ [Next]_vars => IInv'
  BY <1>1, ParseStep, EditStep DEF Next
<1> QED BY InitIInv, <1>2, PTL DEF Spec

\* The invariant `Header` states of its indexes.
THEOREM IndexInvariant == Spec => []IndexPointsAtFirst
<1>1. IInv => IndexPointsAtFirst
  BY DEF IInv
<1> QED BY HeaderIndexed, <1>1, PTL

\* The records, the index and the phase stay in their sets, and no entry points
\* past the records, whatever is parsed and edited.
THEOREM HeaderTyped == Spec => []TypeOK
<1>1. IInv => TypeOK
  BY DEF IInv
<1> QED BY HeaderIndexed, <1>1, PTL

\* The search of `index_of` up to the indexed record is enough: an indexed name
\* has its first record there at the latest, and a name without an entry is
\* looked for among all records.
LEMMA ShortSearchFindsFirst == IInv => IndexOfFindsFirst
<1> SUFFICES ASSUME IInv, NEW name \in RecordNames
             PROVE  LET named == {j \in 1 .. Len(records) : IsNamed(records[j], name)}
                    IN  /\ IndexOf(name) = 0 <=> named = {}
                        /\ \A j \in named : IndexOf(name) <= j
  BY DEF IndexOfFindsFirst
<1> DEFINE named == {j \in 1 .. Len(records) : IsNamed(records[j], name)}
           end == IF First(name) = 0 THEN Len(records) ELSE First(name)
           hits == {j \in 1 .. end : IsNamed(records[j], name)}
<1>1. Len(records) \in Nat
  BY DEF IInv, TypeOK
<1>2. First(name) # 0 => First(name) \in named
  <2> SUFFICES ASSUME First(name) # 0 PROVE First(name) \in named
    OBVIOUS
  <2>1. name \in IndexNames /\ First(name) = index[name]
    BY DEF First
  <2>2. First(name) \in 1 .. Len(records)
    BY <1>1, <2>1 DEF IInv, TypeOK
  <2>3. IndexName(records[First(name)]) = name
    BY <2>1 DEF IInv, IndexPointsAtFirst, Indexes
  <2>4. records[First(name)].name = name
    BY <2>1, <2>3, NoNameNotIndexed DEF IndexName
  <2> QED BY <2>2, <2>4 DEF IsNamed
<1>3. end \in 0 .. Len(records)
  BY <1>1, <1>2
<1>4. hits \in SUBSET named /\ hits \in SUBSET Nat
  BY <1>1, <1>3
<1>5. \A j \in named \ hits : First(name) # 0 /\ First(name) < j
  BY <1>1, <1>3
<1>6. named # {} => hits # {}
  BY <1>1, <1>2, <1>3, <1>5
<1>7. CASE hits = {}
  <2>1. IndexOf(name) = 0
    BY <1>7 DEF IndexOf
  <2> QED BY <1>6, <1>7, <2>1
<1>8. CASE hits # {}
  <2>1. \E m \in hits : \A k \in hits : m <= k
    BY <1>4, <1>8, LeastExists
  <2>2. IndexOf(name) = CHOOSE j \in hits : \A k \in hits : j <= k
    BY <1>8 DEF IndexOf
  <2>3. IndexOf(name) \in hits /\ \A k \in hits : IndexOf(name) <= k
    BY <2>1, <2>2
  <2>4. \A j \in named \ hits : IndexOf(name) <= j
    BY <1>1, <1>3, <1>5, <2>3
  <2>5. IndexOf(name) # 0
    BY <2>3, <1>3
  <2> QED BY <1>4, <2>3, <2>4, <2>5
<1> QED BY <1>7, <1>8

\* remove and contains act on the record a reader of the header would name, for
\* any set of names and any header length.
THEOREM IndexOfCorrect == Spec => []IndexOfFindsFirst
BY HeaderIndexed, ShortSearchFindsFirst, PTL
================================================================================
