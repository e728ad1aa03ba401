----------------------------- MODULE ReaderProofs ------------------------------
(***************************************************************************)
(* What the reader rests on: the map that hands tiles to workers, for      *)
(* every range, every pool of workers and every set of failing indices;    *)
(* and the position a StreamSource remembers, the bytes a read returns and *)
(* the sum a DataChecksum holds, for every file, unit, chunk and number of *)
(* reads.                                                                  *)
(*                                                                         *)
(* The map's outcome depends on every slot, and a skip on every hint ever  *)
(* published, so the map's invariant is stronger than its properties.  The *)
(* one fact the properties of a read lack to be inductive is ReadStands:   *)
(* between the seek and the read the stream stands at the offset asked.    *)
(* From it the read returns the right bytes, and so the sum takes them.    *)
(***************************************************************************)
EXTENDS FirstFailure, DataRead, SequenceTheorems, TLAPS

--------------------------------------------------------------------------------
(* The parallel map. *)

Holds(w, i) == pc[w] # "idle" /\ at[w] = i

\* A hint is the initial value or an index that failed; this is what makes a
\* skip on any hint, old or new, sound.
HintsAreFailures ==
    \A n \in 1 .. Len(hints) : hints[n] = UsizeMax \/ hints[n] \in fails

\* What a slot says agrees with what `f` does.
SlotsTellTheTruth ==
    /\ \A i \in Indices : slots[i] = "ok" => i \notin fails
    /\ \A i \in Indices : slots[i] = "err" => i \in fails
    /\ \A w \in Workers : pc[w] = "record" => at[w] \in fails

\* An unset slot is one still to be taken or in one worker's hands, and the
\* reverse.
UnsetIsOutstanding ==
    /\ \A i \in Indices :
          slots[i] = "unset" <=> (i \in pending \/ \E w \in Workers : Holds(w, i))
    /\ \A w \in Workers : pc[w] # "idle" => at[w] \notin pending
    /\ \A v, w \in Workers : pc[v] # "idle" /\ pc[w] # "idle" /\ at[v] = at[w] => v = w

\* The inductive invariant.  It is stronger than the property: the outcome of
\* the collect depends on every slot, and a skip on every hint ever published.
FFInv ==
    /\ FFTypeOK
    /\ HintsAreFailures
    /\ SlotsTellTheTruth
    /\ SkipsOnlyPastAFailure
    /\ UnsetIsOutstanding
    /\ HintIsLowestRecorded
    /\ ReturnsFirstFailure

--------------------------------------------------------------------------------
\* Every index is below usize::MAX, the hint before any failure.
LEMMA IndicesBelowMax == \A i \in Indices : i \in Nat /\ i < UsizeMax
  BY RangeAssumption, UsizeMaxAssumption DEF Indices

\* The invariant holds when the call begins.
LEMMA InitFFInv == FFInit => FFInv
<1> SUFFICES ASSUME FFInit PROVE FFInv
  OBVIOUS
<1> USE DEF FFInit, SerialInit
<1>1. FFTypeOK
  BY UsizeMaxAssumption DEF FFTypeOK, SlotStates
<1>2. HintsAreFailures
  BY DEF HintsAreFailures
<1>3. SlotsTellTheTruth /\ SkipsOnlyPastAFailure
  BY DEF SlotsTellTheTruth, SkipsOnlyPastAFailure
<1>4. UnsetIsOutstanding
  BY DEF UnsetIsOutstanding, Holds
<1>5. HintIsLowestRecorded
  BY DEF HintIsLowestRecorded
<1>6. ReturnsFirstFailure
  BY DEF ReturnsFirstFailure, Running, AllOk, ErrAt, Panic
<1> QED BY <1>1, <1>2, <1>3, <1>4, <1>5, <1>6 DEF FFInv

\* Every step of a worker and the collect keep the invariant.
LEMMA StepFFInv == FFInv /\ [FFNext]_ffvars => FFInv'
<1> SUFFICES ASSUME FFInv, [FFNext]_ffvars PROVE FFInv'
  OBVIOUS
<1> USE IndicesBelowMax
<1>1. ASSUME NEW w \in Workers, TakeIndex(w) PROVE FFInv'
  <2> USE <1>1 DEF TakeIndex, FFInv
  <2>1. FFTypeOK'
    BY DEF FFTypeOK
  <2>2. HintsAreFailures'
    BY DEF HintsAreFailures
  <2>3. SlotsTellTheTruth' /\ SkipsOnlyPastAFailure' /\ HintIsLowestRecorded'
    BY DEF SlotsTellTheTruth, SkipsOnlyPastAFailure, HintIsLowestRecorded, FFTypeOK
  <2>4. UnsetIsOutstanding'
    BY DEF UnsetIsOutstanding, Holds, FFTypeOK
  <2>5. ReturnsFirstFailure'
    BY DEF ReturnsFirstFailure, IsFirstFailure
  <2> QED BY <2>1, <2>2, <2>3, <2>4, <2>5
<1>2. ASSUME NEW w \in Workers, Load(w) PROVE FFInv'
  <2> USE <1>2 DEF FFInv
  <2>1. pc[w] = "load" /\ UNCHANGED <<fails, outcome, pending, hints>>
    BY DEF Load
  <2>2. PICK n \in seen[w] .. Len(hints) :
          /\ seen' = [seen EXCEPT ![w] = n]
          /\ \/ /\ PastHint(at[w], hints[n])
                /\ slots' = [slots EXCEPT ![at[w]] = "skipped"]
                /\ at' = [at EXCEPT ![w] = UsizeMax]
                /\ pc' = [pc EXCEPT ![w] = "idle"]
             \/ /\ ~PastHint(at[w], hints[n])
                /\ pc' = [pc EXCEPT ![w] = "run"]
                /\ UNCHANGED <<slots, at>>
    BY DEF Load
  <2>3. at[w] \in Indices /\ n \in 1 .. Len(hints) /\ slots[at[w]] = "unset"
    BY <2>1 DEF FFTypeOK, UnsetIsOutstanding, Holds
  <2>4. HintsAreFailures' /\ ReturnsFirstFailure'
    BY <2>1 DEF HintsAreFailures, ReturnsFirstFailure, IsFirstFailure
  <2>5. seen' \in [Workers -> 1 .. Len(hints')]
    BY <2>1, <2>2, <2>3 DEF FFTypeOK
  <2>6. CASE /\ PastHint(at[w], hints[n])
             /\ slots' = [slots EXCEPT ![at[w]] = "skipped"]
             /\ at' = [at EXCEPT ![w] = UsizeMax]
             /\ pc' = [pc EXCEPT ![w] = "idle"]
    <3> USE <2>1, <2>3, <2>6
    <3>1. FFTypeOK'
      BY <2>5 DEF FFTypeOK, SlotStates
    <3>2. SlotsTellTheTruth'
      BY DEF SlotsTellTheTruth, FFTypeOK
    <3>3. SkipsOnlyPastAFailure'
      <4>1. hints[n] \in fails /\ hints[n] < at[w]
        BY UsizeMaxAssumption DEF HintsAreFailures, PastHint, FFTypeOK
      <4> QED BY <4>1 DEF SkipsOnlyPastAFailure, FFTypeOK
    <3>4. UnsetIsOutstanding'
      BY DEF UnsetIsOutstanding, Holds, FFTypeOK
    <3>5. HintIsLowestRecorded'
      BY DEF HintIsLowestRecorded, FFTypeOK
    <3> QED BY <2>4, <3>1, <3>2, <3>3, <3>4, <3>5
  <2>7. CASE /\ pc' = [pc EXCEPT ![w] = "run"]
             /\ UNCHANGED <<slots, at>>
    <3> USE <2>1, <2>3, <2>7
    <3>1. FFTypeOK'
      BY <2>5 DEF FFTypeOK, SlotStates
    <3>2. SlotsTellTheTruth' /\ SkipsOnlyPastAFailure' /\ HintIsLowestRecorded'
      BY DEF SlotsTellTheTruth, SkipsOnlyPastAFailure, HintIsLowestRecorded, FFTypeOK
    <3>3. UnsetIsOutstanding'
      BY DEF UnsetIsOutstanding, Holds, FFTypeOK
    <3> QED BY <2>4, <3>1, <3>2, <3>3
  <2> QED BY <2>2, <2>6, <2>7
<1>3. ASSUME NEW w \in Workers, RunOk(w) PROVE FFInv'
  <2> USE <1>3 DEF RunOk, FFInv
  <2>1. FFTypeOK'
    BY DEF FFTypeOK, SlotStates
  <2>2. HintsAreFailures'
    BY DEF HintsAreFailures
  <2>3. SlotsTellTheTruth' /\ SkipsOnlyPastAFailure'
    BY DEF SlotsTellTheTruth, SkipsOnlyPastAFailure, FFTypeOK
  <2>4. UnsetIsOutstanding'
    BY DEF UnsetIsOutstanding, Holds, FFTypeOK
  <2>5. HintIsLowestRecorded'
    BY DEF HintIsLowestRecorded, UnsetIsOutstanding, Holds, FFTypeOK
  <2>6. ReturnsFirstFailure'
    BY DEF ReturnsFirstFailure, IsFirstFailure
  <2> QED BY <2>1, <2>2, <2>3, <2>4, <2>5, <2>6
<1>4. ASSUME NEW w \in Workers, RunErr(w) PROVE FFInv'
  <2> USE <1>4 DEF RunErr, FFInv
  <2>1. FFTypeOK'
    BY DEF FFTypeOK
  <2>2. HintsAreFailures'
    BY DEF HintsAreFailures
  <2>3. SlotsTellTheTruth' /\ SkipsOnlyPastAFailure' /\ HintIsLowestRecorded'
    BY DEF SlotsTellTheTruth, SkipsOnlyPastAFailure, HintIsLowestRecorded, FFTypeOK
  <2>4. UnsetIsOutstanding'
    BY DEF UnsetIsOutstanding, Holds, FFTypeOK
  <2>5. ReturnsFirstFailure'
    BY DEF ReturnsFirstFailure, IsFirstFailure
  <2> QED BY <2>1, <2>2, <2>3, <2>4, <2>5
<1>5. ASSUME NEW w \in Workers, Record(w) PROVE FFInv'
  <2> USE <1>5 DEF Record, FFInv
  <2>1. at[w] \in Indices /\ at[w] \in fails
    BY DEF FFTypeOK, SlotsTellTheTruth
  <2>2. Len(hints) \in Nat \ {0} /\ hints[Len(hints)] \in Indices \union {UsizeMax}
    BY DEF FFTypeOK
  <2>3. Lower(hints[Len(hints)], at[w]) \in {hints[Len(hints)], at[w]}
    BY DEF Lower
  <2>4. FFTypeOK'
    BY <2>1, <2>2, <2>3 DEF FFTypeOK, SlotStates
  <2>5. HintsAreFailures'
    BY <2>1, <2>2, <2>3 DEF HintsAreFailures, FFTypeOK
  <2>6. SlotsTellTheTruth' /\ SkipsOnlyPastAFailure'
    BY <2>1 DEF SlotsTellTheTruth, SkipsOnlyPastAFailure, FFTypeOK
  <2>7. UnsetIsOutstanding'
    BY DEF UnsetIsOutstanding, Holds, FFTypeOK
  <2>8. HintIsLowestRecorded'
    <3>1. hints'[Len(hints')] = Lower(hints[Len(hints)], at[w])
      BY <2>1, <2>2, <2>3 DEF FFTypeOK
    <3>2. \A i \in Indices : slots'[i] = "err" <=> (slots[i] = "err" \/ i = at[w])
      BY <2>1 DEF FFTypeOK
    <3> QED BY <2>1, <2>2, <3>1, <3>2, UsizeMaxAssumption DEF HintIsLowestRecorded, Lower
  <2>9. ReturnsFirstFailure'
    BY DEF ReturnsFirstFailure, IsFirstFailure
  <2> QED BY <2>4, <2>5, <2>6, <2>7, <2>8, <2>9
<1>6. CASE Collect
  <2> USE <1>6 DEF Collect, FFInv
  <2>1. outcome' \in {AllOk, Panic} \union {ErrAt(i) : i \in Indices}
    OBVIOUS
  <2>2. FFTypeOK'
    BY <2>1 DEF FFTypeOK
  <2>3. HintsAreFailures' /\ SlotsTellTheTruth' /\ SkipsOnlyPastAFailure'
    BY DEF HintsAreFailures, SlotsTellTheTruth, SkipsOnlyPastAFailure
  <2>4. UnsetIsOutstanding' /\ HintIsLowestRecorded'
    BY DEF UnsetIsOutstanding, Holds, HintIsLowestRecorded
  <2>5. ReturnsFirstFailure'
    <3>1. CASE /\ \A i \in Indices : slots[i] = "ok"
               /\ outcome' = AllOk
      BY <3>1 DEF ReturnsFirstFailure, SlotsTellTheTruth, FFTypeOK, AllOk, Panic, ErrAt
    <3>2. ASSUME NEW i \in Indices, slots[i] = "err", OkBefore(i), outcome' = ErrAt(i)
          PROVE  ReturnsFirstFailure'
      <4>1. IsFirstFailure(i)
        BY <3>2 DEF IsFirstFailure, SlotsTellTheTruth, OkBefore, FFTypeOK
      <4> QED BY <3>2, <4>1 DEF ReturnsFirstFailure, IsFirstFailure, AllOk, Panic, ErrAt
    <3>3. ASSUME NEW i \in Indices, slots[i] \in {"unset", "skipped"}, OkBefore(i)
          PROVE  FALSE
      BY <3>3 DEF SkipsOnlyPastAFailure, SlotsTellTheTruth, OkBefore, FFTypeOK,
                  UnsetIsOutstanding, Holds
    <3> QED BY <3>1, <3>2, <3>3
  <2> QED BY <2>2, <2>3, <2>4, <2>5
<1>7. CASE UNCHANGED ffvars
  BY <1>7 DEF FFInv, FFTypeOK, HintsAreFailures, SlotsTellTheTruth, SkipsOnlyPastAFailure,
     UnsetIsOutstanding, Holds, HintIsLowestRecorded, ReturnsFirstFailure,
     IsFirstFailure, ffvars
<1> QED BY <1>1, <1>2, <1>3, <1>4, <1>5, <1>6, <1>7 DEF FFNext, Step

\* FFInv holds in every reachable state.
THEOREM MapInvariance == FFSpec => []FFInv
  BY InitFFInv, StepFFInv, PTL DEF FFSpec

\* Every variable stays in its set, and only a worker between two indices holds
\* none, for any range, pool and set of failures.
THEOREM MapTyped == FFSpec => []FFTypeOK
<1>1. FFInv => FFTypeOK
  BY DEF FFInv
<1> QED BY MapInvariance, <1>1, PTL

\* `try_map_init` never panics on a skipped slot and returns the failure of the
\* lowest index, for every range, pool size and interleaving.
THEOREM FirstFailureCorrect == FFSpec => []ReturnsFirstFailure
<1>1. FFInv => ReturnsFirstFailure
  BY DEF FFInv
<1> QED BY MapInvariance, <1>1, PTL

\* An index is skipped only past a failure, even on a stale hint.
THEOREM SkipSound == FFSpec => []SkipsOnlyPastAFailure
<1>1. FFInv => SkipsOnlyPastAFailure
  BY DEF FFInv
<1> QED BY MapInvariance, <1>1, PTL

\* The newest hint is the lowest recorded failure, whatever order failures come in.
THEOREM HintFalls == FFSpec => []HintIsLowestRecorded
<1>1. FFInv => HintIsLowestRecorded
  BY DEF FFInv
<1> QED BY MapInvariance, <1>1, PTL

\* Each step of the parallel map is a step of the serial one or changes nothing
\* the caller can see (the safety half of ImplementsSerialMap).
THEOREM ImplementsSerial == FFSpec => SerialInit /\ [][Return]_serialvars
<1>1. FFInv /\ FFInv' /\ [FFNext]_ffvars => [Return]_serialvars
  <2> SUFFICES ASSUME FFInv, FFInv', [FFNext]_ffvars PROVE [Return]_serialvars
    OBVIOUS
  <2>1. CASE Collect
    <3>1. outcome' = AllOk \/ \E i \in Indices : outcome' = ErrAt(i)
      BY <2>1 DEF Collect, FFInv, ReturnsFirstFailure
    <3>2. outcome = Running /\ fails' = fails
      BY <2>1 DEF Collect
    <3>3. CASE outcome' = AllOk
      BY <3>2, <3>3 DEF FFInv, ReturnsFirstFailure, Return
    <3>4. ASSUME NEW i \in Indices, outcome' = ErrAt(i) PROVE Return
      <4>1. IsFirstFailure(i)
        BY <3>2, <3>4 DEF FFInv, ReturnsFirstFailure, IsFirstFailure
      <4> QED BY <3>2, <3>4, <4>1 DEF Return
    <3> QED BY <3>1, <3>3, <3>4
  <2>2. ASSUME NEW w \in Workers, Step(w) PROVE UNCHANGED serialvars
    BY <2>2 DEF Step, TakeIndex, Load, RunOk, RunErr, Record, serialvars
  <2>3. CASE UNCHANGED ffvars
    BY <2>3 DEF ffvars, serialvars
  <2> QED BY <2>1, <2>2, <2>3 DEF FFNext
<1>2. FFInit => SerialInit
  BY DEF FFInit
<1> QED BY MapInvariance, <1>1, <1>2, PTL DEF FFSpec

--------------------------------------------------------------------------------
(* The stream and the sum. *)

USE SizeAssumption, UnitAssumption, ChunkAssumption, ReadsAssumption

\* After its seek, a read finds the stream at its offset.
ReadStands == op.at = "read" => cursor = op.offset

\* The inductive invariant.
IInv ==
    /\ TypeOK
    /\ PositionIsCursor
    /\ ReadStands
    /\ ReadsWhatItAsked
    /\ SumIsPrefix
    /\ VerdictIsOfWholeUnit

\* Two runs of bytes, one after the other, are one run.
LEMMA BytesAppend ==
    ASSUME NEW a \in Int, NEW n \in Nat, NEW m \in Nat
    PROVE  Bytes(a, n) \o Bytes(a + n, m) = Bytes(a, n + m)
<1> DEFINE l == Bytes(a, n)
           r == Bytes(a + n, m)
           s == Bytes(a, n + m)
<1>1. l \in Seq(Int) /\ Len(l) = n /\ r \in Seq(Int) /\ Len(r) = m
  BY DEF Bytes
<1>2. s \in Seq(Int) /\ Len(s) = n + m
  BY DEF Bytes
<1>3. /\ l \o r \in Seq(Int) /\ Len(l \o r) = n + m
      /\ \A i \in 1..n + m : (l \o r)[i] = IF i <= n THEN l[i] ELSE r[i - n]
  <2> HIDE DEF l, r
  <2> QED
    BY <1>1, ConcatProperties
<1>4. \A i \in 1..n + m : s[i] = IF i <= n THEN l[i] ELSE r[i - n]
  BY DEF Bytes
<1> HIDE DEF l, r, s
<1>5. l \o r = s
  BY <1>2, <1>3, <1>4, SeqEqual
<1> QED
  BY <1>5 DEF l, r, s

\* A step that leaves the sum and the verdict alone keeps what they satisfy.
LEMMA SumKept ==
    ASSUME IInv, UNCHANGED sum, UNCHANGED verdict
    PROVE  SumIsPrefix' /\ VerdictIsOfWholeUnit' /\ next' \in UnitStart..UnitEnd
BY DEF IInv, TypeOK, sum, SumIsPrefix, VerdictIsOfWholeUnit

\* A feed of the bytes of the file at an offset extends the sum by the bytes
\* that follow it.
LEMMA FeedExtends ==
    ASSUME IInv, NEW offset \in Nat, NEW len \in Nat, Feed(offset, Bytes(offset, len))
    PROVE  SumIsPrefix' /\ next' \in UnitStart..UnitEnd
<1> DEFINE bytes == Bytes(offset, len)
<1>1. Len(bytes) = len
  BY DEF Bytes
<1>2. next \in UnitStart..UnitEnd /\ summed = Bytes(UnitStart, next - UnitStart)
  BY DEF IInv, TypeOK, SumIsPrefix
<1>3. CASE Continues(offset, len)
  <2> DEFINE skip == Skip(offset)
             take == Take(offset, len)
             tail == [i \in 1..take |-> bytes[skip + i]]
  <2>1. skip \in Nat /\ skip < len /\ next < UnitEnd /\ skip = next - offset
    BY <1>2, <1>3 DEF Continues, Skip
  <2>2. take \in Nat /\ take <= len - skip /\ take <= UnitEnd - next
    BY <1>2, <2>1 DEF Take, Lesser
  <2>3. next' = next + take /\ summed' = summed \o tail
    BY <1>1, <1>3 DEF Feed
  <2>4. tail = Bytes(next, take)
    <3>1. \A i \in 1..take : bytes[skip + i] = next + i - 1
      BY <2>1, <2>2, <1>2 DEF Bytes
    <3> QED
      BY <3>1 DEF Bytes
  <2> HIDE DEF tail, take, skip
  <2>5. summed' = Bytes(UnitStart, (next - UnitStart) + take)
    <3>1. next - UnitStart \in Nat /\ UnitStart + (next - UnitStart) = next
      BY <1>2
    <3>2. Bytes(UnitStart, next - UnitStart) \o Bytes(UnitStart + (next - UnitStart), take)
              = Bytes(UnitStart, (next - UnitStart) + take)
      <4> DEFINE n == next - UnitStart
      <4>1. n \in Nat /\ take \in Nat /\ UnitStart \in Int
        BY <3>1, <2>2
      <4> HIDE DEF n
      <4>2. Bytes(UnitStart, n) \o Bytes(UnitStart + n, take) = Bytes(UnitStart, n + take)
        BY <4>1, BytesAppend
      <4> QED
        BY <4>2 DEF n
    <3> QED
      BY <3>1, <3>2, <2>3, <2>4, <1>2
  <2>6. next' - UnitStart = (next - UnitStart) + take
    BY <2>2, <2>3, <1>2
  <2> QED
    BY <2>2, <2>3, <2>5, <2>6, <1>2 DEF SumIsPrefix
<1>4. CASE ~Continues(offset, len)
  BY <1>1, <1>2, <1>4 DEF Feed, sum, SumIsPrefix
<1> QED
  BY <1>3, <1>4

\* The operation between reads is one.
LEMMA IdleIsOp ==
    /\ Idle \in [at : {"idle", "seek", "read"}, kind : {"append", "into"},
                offset : Nat, len : Nat, feeds : BOOLEAN]
    /\ Idle.at = "idle"
BY DEF Idle

\* The first state.
LEMMA InitInv == Init => IInv
<1> SUFFICES ASSUME Init PROVE IInv
  OBVIOUS
<1>1. TypeOK
  <2>1. finishing \in BOOLEAN
    BY DEF Init
  <2>2. /\ actual = Size /\ cursor = Size /\ position = Size
        /\ op = Idle /\ next = UnitStart /\ reads = 0
    BY DEF Init
  <2> QED
    BY <2>1, <2>2, IdleIsOp DEF TypeOK
<1>2. Bytes(0, 0) = <<>> /\ Bytes(UnitStart, 0) = <<>>
  BY DEF Bytes
<1>3. PositionIsCursor /\ ReadStands
  BY IdleIsOp DEF Init, PositionIsCursor, ReadStands
<1>4. ReadsWhatItAsked
  BY <1>2 DEF Init, ReadsWhatItAsked, Nothing
<1>5. SumIsPrefix
  <2>1. UnitStart - UnitStart = 0
    OBVIOUS
  <2> QED
    BY <1>2, <2>1 DEF Init, SumIsPrefix
<1>6. VerdictIsOfWholeUnit
  BY DEF Init, VerdictIsOfWholeUnit
<1> QED
  BY <1>1, <1>3, <1>4, <1>5, <1>6 DEF IInv

\* The steps that move the stream and leave the sum alone.
LEMMA StreamSteps ==
    ASSUME IInv,
           \/ SeekNone \/ SeekRelative \/ SeekStart \/ SeekFails \/ AllocationFails
           \/ ReadShort \/ ReadFails \/ Truncate
    PROVE  IInv'
<1> USE DEF None
<1>1. TypeOK /\ PositionIsCursor /\ ReadStands
  BY DEF IInv
<1>2. UNCHANGED sum /\ UNCHANGED verdict /\ UNCHANGED got /\ UNCHANGED reads
  BY DEF SeekNone, SeekRelative, SeekStart, SeekFails, AllocationFails, ReadShort,
         ReadFails, Truncate
<1>3. SumIsPrefix' /\ VerdictIsOfWholeUnit' /\ next' \in UnitStart..UnitEnd
  BY <1>2, SumKept
<1>4. ReadsWhatItAsked'
  BY <1>2 DEF IInv, ReadsWhatItAsked
<1>5. TypeOK' /\ PositionIsCursor' /\ ReadStands'
  <2> USE <1>1, <1>2, <1>3 DEF TypeOK, PositionIsCursor, ReadStands, sum
  <2>1. CASE SeekNone
    BY <2>1 DEF SeekNone, stream
  <2>2. CASE SeekRelative
    BY <2>2 DEF SeekRelative
  <2>3. CASE SeekStart
    BY <2>3 DEF SeekStart
  <2>4. CASE SeekFails
    <3>1. finishing' \in BOOLEAN
      BY <2>4 DEF SeekFails, Abandon
    <3>2. op' = Idle
      BY <2>4 DEF SeekFails, Abandon
    <3> QED
      BY <2>4, <3>1, <3>2, IdleIsOp DEF SeekFails
  <2>5. CASE AllocationFails
    BY <2>5, IdleIsOp DEF AllocationFails, Abandon, stream
  <2>6. CASE ReadShort
    <3>1. finishing' \in BOOLEAN
      BY <2>6 DEF ReadShort, Abandon
    <3>2. op' = Idle
      BY <2>6 DEF ReadShort, Abandon
    <3> QED
      BY <2>6, <3>1, <3>2, IdleIsOp DEF ReadShort, Left
  <2>7. CASE ReadFails
    <3>1. finishing' \in BOOLEAN
      BY <2>7 DEF ReadFails, Abandon
    <3>2. op' = Idle
      BY <2>7 DEF ReadFails, Abandon
    <3> QED
      BY <2>7, <3>1, <3>2, IdleIsOp DEF ReadFails
  <2>8. CASE Truncate
    BY <2>8 DEF Truncate, stream
  <2> QED
    BY <2>1, <2>2, <2>3, <2>4, <2>5, <2>6, <2>7, <2>8
<1> QED
  BY <1>3, <1>4, <1>5 DEF IInv

\* A whole read: the stream stood at the offset, so these are its bytes.
LEMMA ReadOkStep ==
    ASSUME IInv, ReadOk
    PROVE  IInv'
<1>1. TypeOK /\ ReadStands
  BY DEF IInv
<1>2. cursor = op.offset /\ op.offset \in Nat /\ op.len \in Nat /\ op.feeds \in BOOLEAN
  BY <1>1 DEF ReadOk, ReadStands, TypeOK
<1>3. SumIsPrefix' /\ next' \in UnitStart..UnitEnd
  <2>1. CASE op.feeds
    <3>1. Feed(op.offset, Bytes(op.offset, op.len))
      BY <2>1, <1>2 DEF ReadOk
    <3> QED
      BY <3>1, <1>2, FeedExtends
  <2>2. CASE ~op.feeds
    BY <2>2, SumKept DEF ReadOk
  <2> QED
    BY <2>1, <2>2
<1>4. VerdictIsOfWholeUnit'
  BY DEF IInv, VerdictIsOfWholeUnit, ReadOk
<1>5. ReadsWhatItAsked'
  BY <1>2 DEF ReadOk, ReadsWhatItAsked
<1>6. TypeOK' /\ PositionIsCursor' /\ ReadStands'
  BY <1>1, <1>2, <1>3, IdleIsOp DEF ReadOk, TypeOK, PositionIsCursor, ReadStands
<1> QED
  BY <1>3, <1>4, <1>5, <1>6 DEF IInv

\* The steps of the reader over the stream.
LEMMA ReaderSteps ==
    ASSUME IInv, ReadImage \/ ReadOther \/ StartFinish \/ FinishChunk
    PROVE  IInv'
<1>1. TypeOK /\ PositionIsCursor /\ ReadStands
  BY DEF IInv
<1>2. UNCHANGED sum /\ UNCHANGED verdict /\ UNCHANGED got /\ UNCHANGED stream
      /\ UNCHANGED actual
  BY DEF ReadImage, ReadOther, StartFinish, FinishChunk
<1>3. SumIsPrefix' /\ VerdictIsOfWholeUnit' /\ next' \in UnitStart..UnitEnd
  BY <1>2, SumKept
<1>4. ReadsWhatItAsked' /\ PositionIsCursor'
  BY <1>2 DEF IInv, ReadsWhatItAsked, PositionIsCursor, stream
<1>5. TypeOK' /\ ReadStands'
  <2> USE <1>1, <1>2, <1>3 DEF TypeOK, ReadStands, sum, stream, Idle
  <2>1. CASE ReadImage
    BY <2>1 DEF ReadImage, Begin
  <2>2. CASE ReadOther
    BY <2>2 DEF ReadOther, Begin
  <2>3. CASE StartFinish
    BY <2>3 DEF StartFinish
  <2>4. CASE FinishChunk
    <3>1. CASE UNCHANGED finishing /\ Begin("append", next, Lesser(Chunk, UnitEnd - next), TRUE)
      <4>1. Lesser(Chunk, UnitEnd - next) \in Nat
        BY <2>4 DEF FinishChunk, Lesser
      <4> QED
        BY <2>4, <3>1, <4>1 DEF FinishChunk, Begin
    <3>2. CASE Abandon
      BY <2>4, <3>2, IdleIsOp DEF FinishChunk, Abandon
    <3> QED
      BY <2>4, <3>1, <3>2 DEF FinishChunk
  <2> QED
    BY <2>1, <2>2, <2>3, <2>4
<1> QED
  BY <1>3, <1>4, <1>5 DEF IInv

\* The steps that start a new sum, after a verdict or without one.
LEMMA NewSumSteps ==
    ASSUME IInv, FinishDone \/ NewHandle
    PROVE  IInv'
<1>1. TypeOK /\ PositionIsCursor /\ ReadStands /\ SumIsPrefix /\ VerdictIsOfWholeUnit
  BY DEF IInv
<1>2. next' = UnitStart /\ summed' = <<>> /\ reads' = 0 /\ UNCHANGED got
      /\ UNCHANGED stream /\ UNCHANGED actual /\ UNCHANGED op /\ finishing' \in BOOLEAN
  BY <1>1 DEF FinishDone, NewHandle, TypeOK
<1>3. SumIsPrefix'
  <2>1. UnitStart - UnitStart = 0 /\ Bytes(UnitStart, 0) = <<>>
    BY DEF Bytes
  <2> QED
    BY <1>2, <2>1 DEF SumIsPrefix
<1>4. VerdictIsOfWholeUnit'
  BY <1>1 DEF FinishDone, NewHandle, SumIsPrefix, VerdictIsOfWholeUnit
<1>5. TypeOK' /\ PositionIsCursor' /\ ReadStands' /\ ReadsWhatItAsked'
  BY <1>1, <1>2 DEF IInv, TypeOK, PositionIsCursor, ReadStands, ReadsWhatItAsked, stream
<1> QED
  BY <1>3, <1>4, <1>5 DEF IInv

\* Every step keeps the invariant.
LEMMA NextInv == IInv /\ [Next]_vars => IInv'
<1> SUFFICES ASSUME IInv, [Next]_vars PROVE IInv'
  OBVIOUS
<1>1. CASE ReadOk
  BY <1>1, ReadOkStep
<1>2. CASE ReadImage \/ ReadOther \/ StartFinish \/ FinishChunk
  BY <1>2, ReaderSteps
<1>3. CASE FinishDone \/ NewHandle
  BY <1>3, NewSumSteps
<1>4. CASE \/ SeekNone \/ SeekRelative \/ SeekStart \/ SeekFails \/ AllocationFails
           \/ ReadShort \/ ReadFails \/ Truncate
  BY <1>4, StreamSteps
<1>5. CASE UNCHANGED vars
  BY <1>5 DEF vars, IInv, TypeOK, PositionIsCursor, ReadStands, ReadsWhatItAsked,
              SumIsPrefix, VerdictIsOfWholeUnit
<1> QED
  BY <1>1, <1>2, <1>3, <1>4, <1>5 DEF Next

\* The inductive invariant holds in every state.
THEOREM ReaderInvariance == Spec => []IInv
<1> QED
  BY InitInv, NextInv, PTL DEF Spec

\* Type correctness of the reader.
THEOREM ReaderTyped == Spec => []TypeOK
<1>1. IInv => TypeOK
  BY DEF IInv
<1> QED
  BY <1>1, ReaderInvariance, PTL

\* The position a stream source remembers is the stream's, after any failure.
THEOREM PositionTracks == Spec => []PositionIsCursor
<1>1. IInv => PositionIsCursor
  BY DEF IInv
<1> QED
  BY <1>1, ReaderInvariance, PTL

\* A read that succeeds returns the bytes at the offset it asked.
THEOREM ReadsCorrect == Spec => []ReadsWhatItAsked
<1>1. IInv => ReadsWhatItAsked
  BY DEF IInv
<1> QED
  BY <1>1, ReaderInvariance, PTL

\* The running sum is that of the unit's first bytes, each once and in order.
THEOREM SumCorrect == Spec => []SumIsPrefix
<1>1. IInv => SumIsPrefix
  BY DEF IInv
<1> QED
  BY <1>1, ReaderInvariance, PTL

\* A checksum verdict is on the whole data unit.
THEOREM VerdictCorrect == Spec => []VerdictIsOfWholeUnit
<1>1. IInv => VerdictIsOfWholeUnit
  BY DEF IInv
<1> QED
  BY <1>1, ReaderInvariance, PTL
================================================================================
