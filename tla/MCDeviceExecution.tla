------------------------- MODULE MCDeviceExecution -------------------------
(* DeviceExecution for TLC: every change has a rule of its own.            *)
EXTENDS DeviceExecution, TLC

OwnRule == [o \in Ops |-> o]

\* All rules go by one entry number.
SameEntry == [r \in Rules |-> 1]
OwnEntry == [r \in Rules |-> r]

ThreadSymmetry == Permutations(Threads)
ChangeSymmetry == Permutations(Threads) \cup Permutations(Ops)
=============================================================================
