----------------------------- MODULE MCJobQueue -----------------------------
(* Small instances of JobQueue for TLC.                                     *)
EXTENDS JobQueue, TLC

\* Keys, workers and requests are interchangeable: used by the run that checks
\* invariants and action properties only.
QueueSymmetry ==
    Permutations(Keys) \cup Permutations(Workers) \cup Permutations(Producers)
=============================================================================
