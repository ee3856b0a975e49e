------------------------------ MODULE MCFaceScan ------------------------------
(* The sensor's eight-frame mask, drawn from two, and two matches to a scan. *)
EXTENDS FaceScan

(* Two masks of four lit frames that are no rotation of one another.        *)
MCMasks == {<<TRUE, TRUE, TRUE, TRUE, FALSE, FALSE, FALSE, FALSE>>,
            <<TRUE, FALSE, TRUE, TRUE, FALSE, FALSE, TRUE, FALSE>>}

(* Both are masks random_pattern may draw (liveness.rs:339-352), and neither *)
(* lines up with the other however it is turned.                             *)
ASSUME MasksAreDrawn ==
  /\ MCMasks \subseteq RandomMasks
  /\ \A m, n \in MCMasks : m # n => m \notin Rotations(n)
=============================================================================
