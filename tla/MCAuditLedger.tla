---------------------------- MODULE MCAuditLedger ----------------------------
(* AuditLedger for TLC.                                                    *)
EXTENDS AuditLedger, TLC

CallSymmetry == Permutations(Calls)
=============================================================================
