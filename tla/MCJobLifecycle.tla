--------------------------- MODULE MCJobLifecycle ---------------------------
(***************************************************************************)
(* Instances of JobLifecycle for TLC.                                      *)
(***************************************************************************)
EXTENDS JobLifecycle, TLC

\* Workers are interchangeable when all of them are mortal; jobs always are.
WorkerSymmetry == Permutations(Workers)

JobSymmetry == Permutations(Jobs)

=============================================================================
