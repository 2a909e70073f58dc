------------------------- MODULE MCCircuitBreaker -------------------------
(* CircuitBreaker for TLC: three jobs at a time.                           *)
EXTENDS CircuitBreaker
=============================================================================
