----------------------------- MODULE MCFitsWriter ------------------------------
(***************************************************************************)
(* Raw headers for FitsWriter: a primary and extensions of both fills, one *)
(* with stale sums of its own, and one whose XTENSION is not first.        *)
(***************************************************************************)
EXTENDS FitsWriter

MCRawHeaders ==
    { <<Open(FALSE, FALSE, 2), Card(1)>>,
      <<Open(TRUE, TRUE, 1)>>,
      <<Open(TRUE, FALSE, 3), Placeholder, Card(1), Datasum(Data(1))>>,
      <<Card(1), Open(TRUE, FALSE, 1)>> }
================================================================================
