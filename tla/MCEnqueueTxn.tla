---------------------------- MODULE MCEnqueueTxn ----------------------------
(***************************************************************************)
(* Instances of EnqueueTxn for TLC.                                        *)
(***************************************************************************)
EXTENDS EnqueueTxn, TLC

\* Callers are interchangeable, and so are job ids.
CallerSymmetry == Permutations(Callers) \cup Permutations(Ids)

=============================================================================
