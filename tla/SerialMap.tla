------------------------------- MODULE SerialMap -------------------------------
(***************************************************************************)
(* What `compression::map_tiles` promises, taken from its serial form      *)
(* (`(0..ntiles).map(|t| f(&mut scratch, t)).collect()`): the run ends     *)
(* with every result, or with the failure of the lowest failing index.     *)
(* Which indices `f` fails on is an input, `fails`.                        *)
(***************************************************************************)
EXTENDS Integers

CONSTANTS
    First,      \* first index of the range
    End         \* one past the last index

ASSUME RangeAssumption == /\ First \in Nat
                          /\ End \in Nat

VARIABLES
    fails,      \* the indices whose work returns Err
    outcome     \* what the call returned

serialvars == <<fails, outcome>>

Indices == First .. (End - 1)

Running == [kind |-> "running", index |-> End]
AllOk == [kind |-> "ok", index |-> End]
ErrAt(i) == [kind |-> "err", index |-> i]
Panic == [kind |-> "panic", index |-> End]

\* The run stops at i: i fails and no index before it does.
IsFirstFailure(i) == /\ i \in fails
                     /\ \A j \in fails : i <= j

SerialInit ==
    /\ fails \in SUBSET Indices
    /\ outcome = Running

Return ==
    /\ outcome = Running
    /\ \/ /\ fails = {}
          /\ outcome' = AllOk
       \/ \E i \in Indices : /\ IsFirstFailure(i)
                             /\ outcome' = ErrAt(i)
    /\ UNCHANGED fails

SerialSpec == SerialInit /\ [][Return]_serialvars /\ WF_serialvars(Return)
================================================================================
