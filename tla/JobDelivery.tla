---------------------------- MODULE JobDelivery ----------------------------
(***************************************************************************)
(* What the investigation queue promises the rest of the system when       *)
(* heartbeats keep their leases: a submitted job waits, is handed to one   *)
(* worker at a time, comes back if that worker gives it up, and once done  *)
(* is never handed out again.  JobQueue implements it.                     *)
(***************************************************************************)
CONSTANTS Keys, Workers, NoOwner

VARIABLES state, holder

deliveryVars == <<state, holder>>

Init ==
    /\ state = [k \in Keys |-> "absent"]
    /\ holder = [k \in Keys |-> NoOwner]

Submit(k) ==
    /\ state[k] = "absent"
    /\ state' = [state EXCEPT ![k] = "waiting"]
    /\ UNCHANGED holder

HandOut(k, w) ==
    /\ state[k] = "waiting"
    /\ state' = [state EXCEPT ![k] = "held"]
    /\ holder' = [holder EXCEPT ![k] = w]

Finish(k) ==
    /\ state[k] = "held"
    /\ state' = [state EXCEPT ![k] = "done"]
    /\ holder' = [holder EXCEPT ![k] = NoOwner]

\* A worker gives up some of the jobs it holds: one that failed, or all of them
\* when it dies.  Those among them that were settled already are done.
GiveUp(w, S) ==
    /\ \A k \in S : holder[k] = w /\ state[k] = "held"
    /\ holder' = [k \in Keys |-> IF k \in S THEN NoOwner ELSE holder[k]]
    /\ \E D \in SUBSET S :
          state' = [k \in Keys |-> IF k \in D THEN "done"
                                  ELSE IF k \in S THEN "waiting" ELSE state[k]]

Next ==
    \/ \E w \in Workers, S \in SUBSET Keys : GiveUp(w, S)
    \/ \E k \in Keys : Submit(k) \/ Finish(k) \/ (\E w \in Workers : HandOut(k, w))

Spec == Init /\ [][Next]_deliveryVars
=============================================================================
