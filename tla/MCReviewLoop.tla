---------------------------- MODULE MCReviewLoop ----------------------------
(***************************************************************************)
(* ReviewLoop for TLC: the workers are interchangeable.                    *)
(***************************************************************************)
EXTENDS ReviewLoop, TLC

WorkerSymmetry == Permutations(Workers)
=============================================================================
