-------------------------------- MODULE HduLog ---------------------------------
(***************************************************************************)
(* What a FitsWriter promises: a log of whole HDUs that only grows, one    *)
(* write at a time, and that stops for good at the first failure.          *)
(***************************************************************************)
EXTENDS Integers, Sequences

CONSTANT Whole(_, _)   \* bytes that are all of the HDU of an index

VARIABLES
    hdus,       \* the bytes of each HDU of the file, in order
    usable      \* no write has failed

logvars == <<hdus, usable>>

AllWhole(log) == \A i \in 1..Len(log) : Whole(i, log[i])

LogInit == usable = TRUE /\ AllWhole(hdus)

\* A write adds its HDU, and an empty primary before it when the file is empty.
Commit ==
    /\ usable
    /\ Len(hdus') - Len(hdus) \in (IF hdus = <<>> THEN {1, 2} ELSE {1})
    /\ SubSeq(hdus', 1, Len(hdus)) = hdus
    /\ AllWhole(hdus')
    /\ usable' = usable

Fail ==
    /\ usable' = FALSE
    /\ hdus' = hdus

LogNext == Commit \/ Fail

LogSpec == LogInit /\ [][LogNext]_logvars
================================================================================
