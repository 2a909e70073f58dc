--------------------------- MODULE MCApprovalFlow ---------------------------
(* Small instances of ApprovalFlow for TLC.                                 *)
EXTENDS ApprovalFlow, TLC

\* Requests are interchangeable, except where liveness is checked.
FlowSymmetry == Permutations(Decisions)
=============================================================================
