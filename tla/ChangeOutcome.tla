---------------------------- MODULE ChangeOutcome ----------------------------
(***************************************************************************)
(* What the executor promises of approved changes, each with a rule of its *)
(* own that the device does not have before: until a change has an outcome *)
(* its rule may come and go; the outcome is true of the device when it is  *)
(* given; and from then on neither it nor the rule changes, however often  *)
(* the job is delivered.  DeviceExecution implements it.                   *)
(*                                                                         *)
(* Three things are beyond the executor, and a change they happen to is    *)
(* promised less: another change that is sent, or reversed, under the same *)
(* entry number may take the rule away ("struck"); the look that decides   *)
(* the outcome may see an older state of the device ("misjudged"); and the *)
(* job may be delivered again while it is being carried out ("lapsed").    *)
(***************************************************************************)
CONSTANTS
    Ops,
    Near     \* per change: the others whose rules have its entry number

VARIABLES
    rule,    \* per change: its rule on the device
    outcome, \* per change: what was told of it
    doubts   \* per change: what happened to it of "struck", "misjudged", "lapsed"

outcomeVars == <<rule, outcome, doubts>>

Init ==
    /\ rule = [o \in Ops |-> "absent"]
    /\ outcome = [o \in Ops |-> "none"]
    /\ doubts = [o \in Ops |-> {}]

\* An outcome is still to come, or the change is carried out twice.
Open(o) == outcome[o] = "none" \/ "lapsed" \in doubts[o]

\* The rule of a change is sent, or reversed, with whatever effect the command
\* has on it and on the rules it shares its number with.
Alter(o) ==
    /\ Open(o)
    /\ \E hit \in SUBSET Near[o] :
          /\ rule' \in [Ops -> {"absent", "hidden", "works"}]
          /\ \A p \in Ops \ (hit \cup {o}) : rule'[p] = rule[p]
          /\ doubts' = [p \in Ops |-> IF p \in hit THEN doubts[p] \cup {"struck"}
                                      ELSE doubts[p]]
    /\ UNCHANGED outcome

\* What an outcome says of the rule: "change is on the device and verified
\* afterwards", "a precondition failed; nothing was sent", "was applied, failed
\* verification, and undone", "the device is in a state nobody chose".
Means(res) ==
    CASE res = "applied"         -> {"works"}
      [] res = "refused"         -> {"absent"}
      [] res = "rolled_back"     -> {"absent"}
      [] res = "rollback_failed" -> {"absent", "hidden", "works"}

\* An outcome may only be false of a change that was misjudged or carried out
\* twice, or whose rule was taken away after it was seen to work.
MayBeFalse(o, res) ==
    \/ {"misjudged", "lapsed"} \cap doubts[o] # {}
    \/ res = "applied" /\ "struck" \in doubts[o]

Tell(o) ==
    /\ Open(o)
    /\ \E res \in {"applied", "refused", "rolled_back", "rollback_failed"} :
          /\ rule[o] \in Means(res) \/ MayBeFalse(o, res)
          /\ outcome' = [outcome EXCEPT ![o] = res]
    /\ UNCHANGED <<rule, doubts>>

\* The job's lease lapses, or the device is misread: before there is an outcome,
\* or while a second delivery is at work.
Doubt(o) ==
    /\ Open(o)
    /\ \E what \in {"misjudged", "lapsed"} :
          doubts' = [doubts EXCEPT ![o] = @ \cup {what}]
    /\ UNCHANGED <<rule, outcome>>

Next == \E o \in Ops : Alter(o) \/ Tell(o) \/ Doubt(o)

Spec == Init /\ [][Next]_outcomeVars
=============================================================================
