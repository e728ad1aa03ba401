----------------------------- MODULE FirstFailure ------------------------------
(***************************************************************************)
(* `compression/first_failure.rs`: the parallel `try_map_init`.            *)
(*                                                                         *)
(* Rayon hands the indices of a range to its workers.  A worker loads the  *)
(* shared hint `lowest_failure`, skips an index past it, and otherwise     *)
(* runs `f`; a failure lowers the hint with fetch_min.  The slots are then *)
(* collected in order.                                                     *)
(*                                                                         *)
(* Both accesses to the hint are Relaxed.  `hints` is the modification     *)
(* order of the atomic: a load may return any entry that is no older than  *)
(* the last one the same worker saw (coherence), and nothing newer need be *)
(* visible.  fetch_min is a read-modify-write and so acts on the last      *)
(* entry.  Which worker gets which index, and when, is rayon's choice and  *)
(* is left open.                                                           *)
(***************************************************************************)
EXTENDS SerialMap, Sequences

CONSTANTS
    Workers,    \* the threads of the rayon pool
    UsizeMax    \* usize::MAX, above every index

ASSUME UsizeMaxAssumption == UsizeMax \in Nat /\ UsizeMax >= End

VARIABLES
    pending,    \* indices no worker has taken yet
    pc,         \* where each worker is in the closure
    at,         \* the index a worker holds, UsizeMax for none
    hints,      \* modification order of lowest_failure
    seen,       \* the newest entry of hints each worker has seen
    slots       \* what each index left behind

ffvars == <<fails, outcome, pending, pc, at, hints, seen, slots>>

SlotStates == {"unset", "skipped", "ok", "err"}

FFInit ==
    /\ SerialInit
    /\ pending = Indices
    /\ pc = [w \in Workers |-> "idle"]
    /\ at = [w \in Workers |-> UsizeMax]
    /\ hints = <<UsizeMax>>
    /\ seen = [w \in Workers |-> 1]
    /\ slots = [i \in Indices |-> "unset"]

--------------------------------------------------------------------------------
\* Mutant: the range includes its end.
TakeIndexInclusive(w) ==
    /\ outcome = Running
    /\ pc[w] = "idle"
    /\ \E i \in pending \union {End} : /\ at' = [at EXCEPT ![w] = i]
                                       /\ pending' = pending \ {i}
    /\ pc' = [pc EXCEPT ![w] = "load"]
    /\ UNCHANGED <<fails, outcome, hints, seen, slots>>

\* A worker takes an index rayon has left.
TakeIndex(w) ==
    /\ outcome = Running
    /\ pc[w] = "idle"
    /\ \E i \in pending : /\ at' = [at EXCEPT ![w] = i]
                          /\ pending' = pending \ {i}
    /\ pc' = [pc EXCEPT ![w] = "load"]
    /\ UNCHANGED <<fails, outcome, hints, seen, slots>>

\* Mutant: the comparison is the wrong way round.
PastHintSwapped(index, hint) == index < hint

\* The guard of the skip: `index > lowest_failure.load(Relaxed)`.
PastHint(index, hint) == index > hint

\* The worker loads the hint, some entry at or after the newest it has seen,
\* and either skips its index, leaving None, or goes on to run it.
Load(w) ==
    /\ pc[w] = "load"
    /\ \E n \in seen[w] .. Len(hints) :
          /\ seen' = [seen EXCEPT ![w] = n]
          /\ \/ /\ PastHint(at[w], hints[n])
                /\ slots' = [slots EXCEPT ![at[w]] = "skipped"]
                /\ at' = [at EXCEPT ![w] = UsizeMax]
                /\ pc' = [pc EXCEPT ![w] = "idle"]
             \/ /\ ~PastHint(at[w], hints[n])
                /\ pc' = [pc EXCEPT ![w] = "run"]
                /\ UNCHANGED <<slots, at>>
    /\ UNCHANGED <<fails, outcome, pending, hints>>

\* `f` returns Ok and the slot keeps it.
RunOk(w) ==
    /\ pc[w] = "run"
    /\ at[w] \notin fails
    /\ slots' = [slots EXCEPT ![at[w]] = "ok"]
    /\ at' = [at EXCEPT ![w] = UsizeMax]
    /\ pc' = [pc EXCEPT ![w] = "idle"]
    /\ UNCHANGED <<fails, outcome, pending, hints, seen>>

\* `f` returns Err: the hint is still to be lowered.
RunErr(w) ==
    /\ pc[w] = "run"
    /\ at[w] \in fails
    /\ pc' = [pc EXCEPT ![w] = "record"]
    /\ UNCHANGED <<fails, outcome, pending, at, hints, seen, slots>>

Lower(hint, index) == IF index < hint THEN index ELSE hint

\* `lowest_failure.fetch_min(index)`, then the slot keeps the error.
Record(w) ==
    /\ pc[w] = "record"
    /\ hints' = Append(hints, Lower(hints[Len(hints)], at[w]))
    /\ seen' = [seen EXCEPT ![w] = Len(hints) + 1]
    /\ slots' = [slots EXCEPT ![at[w]] = "err"]
    /\ at' = [at EXCEPT ![w] = UsizeMax]
    /\ pc' = [pc EXCEPT ![w] = "idle"]
    /\ UNCHANGED <<fails, outcome, pending>>

\* Mutant: the first failure met in any order is returned.
OkBeforeIgnored(i) == TRUE

OkBefore(i) == \A j \in Indices : j < i => slots[j] = "ok"

\* Rayon's collect has joined every worker; the slots are read in order, up to
\* the first Err.  A None met on the way is the panic of `slot.expect`.
Collect ==
    /\ outcome = Running
    /\ pending = {}
    /\ \A w \in Workers : pc[w] = "idle"
    /\ \/ /\ \A i \in Indices : slots[i] = "ok"
          /\ outcome' = AllOk
       \/ \E i \in Indices : /\ slots[i] = "err"
                             /\ OkBefore(i)
                             /\ outcome' = ErrAt(i)
       \/ \E i \in Indices : /\ slots[i] \in {"unset", "skipped"}
                             /\ OkBefore(i)
                             /\ outcome' = Panic
    /\ UNCHANGED <<fails, pending, pc, at, hints, seen, slots>>

Step(w) == TakeIndex(w) \/ Load(w) \/ RunOk(w) \/ RunErr(w) \/ Record(w)

FFNext == Collect \/ \E w \in Workers : Step(w)

\* A worker that holds an index or can take one goes on, and the collect runs:
\* rayon blocks the caller until the whole range is done.
Fairness == WF_ffvars(Collect) /\ \A w \in Workers : WF_ffvars(Step(w))

FFSpec == FFInit /\ [][FFNext]_ffvars /\ Fairness

--------------------------------------------------------------------------------
(* Properties *)

\* Every variable stays in its set; only a worker between two indices holds none.
FFTypeOK ==
    /\ fails \in SUBSET Indices
    /\ outcome \in {Running, AllOk, Panic} \union {ErrAt(i) : i \in Indices}
    /\ pending \in SUBSET Indices
    /\ pc \in [Workers -> {"idle", "load", "run", "record"}]
    /\ at \in [Workers -> Indices \union {UsizeMax}]
    /\ hints \in Seq(Indices \union {UsizeMax}) /\ Len(hints) > 0
    /\ seen \in [Workers -> 1 .. Len(hints)]
    /\ slots \in [Indices -> SlotStates]
    /\ \A w \in Workers : pc[w] # "idle" => at[w] \in Indices

\* An index is skipped only when an index before it failed, whatever stale hint
\* its worker read: no work that could decide the outcome is left out.
SkipsOnlyPastAFailure ==
    \A i \in Indices : slots[i] = "skipped" => \E j \in fails : j < i

\* The `expect` of the ordered collect never meets a None, and the call returns
\* what the serial loop would: every result, or the lowest index's failure.
ReturnsFirstFailure ==
    /\ outcome # Panic
    /\ outcome = AllOk => fails = {}
    /\ \A i \in Indices : outcome = ErrAt(i) => IsFirstFailure(i)

\* The parallel map implements the serial one, its liveness included: the call
\* returns, and with the outcome of the serial loop.
ImplementsSerialMap == SerialSpec

\* The doc comment's "the hint only falls": the newest hint is the lowest index
\* that has recorded a failure, whichever order the failures came in, so no
\* failure found late ever re-admits work a lower one had ruled out.
HintIsLowestRecorded ==
    LET newest == hints[Len(hints)]
        recorded == {i \in Indices : slots[i] = "err"}
    IN  /\ \A i \in recorded : newest <= i
        /\ newest \in recorded \union {UsizeMax}
================================================================================
