--------------------------- MODULE CircuitBreaker ---------------------------
(***************************************************************************)
(* Calls to the language model: the jobs of one process share a circuit    *)
(* breaker (app/jobs/resilience.py), each tries a call several times, and  *)
(* a call that timed out leaves its thread with the provider.              *)
(*                                                                         *)
(* Time passes in ticks, and only while the circuit is open does it        *)
(* matter.  The provider falls ill and recovers at any time: what is begun *)
(* while it is ill may be answered, fail or hang.                          *)
(***************************************************************************)
EXTENDS Integers, FiniteSets

CONSTANTS
    Calls,       \* jobs that call at a time
    Threshold,   \* MODEL_CIRCUIT_FAILURES
    Retries,     \* MODEL_MAX_RETRIES
    Reset,       \* ticks in MODEL_CIRCUIT_RESET_SECONDS
    MaxWindows   \* bound: half-open windows that are counted

ASSUME CircuitAssumption ==
    /\ IsFiniteSet(Calls)
    /\ Threshold \in Nat \ {0} /\ Retries \in Nat /\ Reset \in Nat \ {0} /\ MaxWindows \in Nat

VARIABLES
    provider,
    circuit,   \* failures in a row, and the age of opened_at
    call,
    hung,      \* threads left with the provider since its last answer
    windows    \* times the circuit has become half-open since

vars == <<provider, circuit, call, hung, windows>>

\* The most calls that can end up hanging when the circuit has been half-open n
\* times: those that open it, and every caller's in each window.
Admitted(n) == Threshold - 1 + Cardinality(Calls) * (1 + n)
MostHung(n) == Admitted(n) * (Retries + 1)

\* Counters stop where nothing depends on them any more.
UpTo(n, most) == IF n < most THEN n ELSE most

Idle == [at |-> "idle", attempt |-> 0, begun |-> "well"]

TypeOK ==
    /\ provider \in {"well", "ill"}
    /\ circuit \in [at : {"closed", "opened"}, failures : 0..Threshold, age : 0..Reset]
    /\ call \in [Calls -> [at : {"idle", "running", "waiting"}, attempt : 0..(Retries + 1),
                           begun : {"well", "ill"}]]
    /\ hung \in 0..(MostHung(MaxWindows) + 1)
    /\ windows \in 0..(MaxWindows + 1)

Init ==
    /\ provider \in {"well", "ill"}
    /\ circuit = [at |-> "closed", failures |-> 0, age |-> 0]
    /\ call = [c \in Calls |-> Idle]
    /\ hung = 0 /\ windows = 0

Fluctuate ==
    /\ provider' \in {"well", "ill"} \ {provider}
    /\ UNCHANGED <<circuit, call, hung, windows>>

\* allow: half-open lets everyone through until a result is recorded.
Allow == circuit.at = "closed" \/ circuit.age >= Reset

Tick ==
    /\ circuit.at = "opened" /\ circuit.age < Reset
    /\ circuit' = [circuit EXCEPT !.age = @ + 1]
    /\ windows' = IF circuit.age + 1 = Reset THEN UpTo(windows + 1, MaxWindows + 1) ELSE windows
    /\ UNCHANGED <<provider, call, hung>>

\* Mutant: opened_at keeps the time of the first opening.
RecordFailureOnce ==
    LET failures == UpTo(circuit.failures + 1, Threshold)
    IN circuit' = [at |-> IF failures = Threshold THEN "opened" ELSE circuit.at,
                   failures |-> failures, age |-> circuit.age]

\* record_failure: every failure from the threshold on renews opened_at.
RecordFailure ==
    LET failures == UpTo(circuit.failures + 1, Threshold)
    IN circuit' = [at |-> IF failures = Threshold THEN "opened" ELSE circuit.at,
                   failures |-> failures, age |-> 0]

\* Mutant: the failures are forgotten, the opening is not.
RecordSuccessOpen == circuit' = [circuit EXCEPT !.failures = 0]

RecordSuccess == circuit' = [at |-> "closed", failures |-> 0, age |-> 0]

Start(c, attempt) ==
    call' = [call EXCEPT ![c] = [at |-> "running", attempt |-> attempt, begun |-> provider]]

\* The circuit is asked once, before the first attempt.
Admit(c) ==
    /\ call[c].at = "idle" /\ Allow
    /\ Start(c, 1)
    /\ UNCHANGED <<provider, circuit, hung, windows>>

Answer(c) ==
    /\ call[c].at = "running"
    /\ RecordSuccess
    /\ call' = [call EXCEPT ![c] = Idle]
    /\ hung' = 0 /\ windows' = 0
    /\ UNCHANGED provider

\* What raises and is transient is tried again after a pause; what is not, and
\* the last attempt, is one failure.
Raise(c, transient) ==
    IF transient /\ call[c].attempt <= Retries
    THEN call' = [call EXCEPT ![c].at = "waiting"] /\ UNCHANGED circuit
    ELSE call' = [call EXCEPT ![c] = Idle] /\ RecordFailure

Fail(c) ==
    /\ call[c].at = "running" /\ call[c].begun = "ill"
    /\ \E transient \in BOOLEAN : Raise(c, transient)
    /\ UNCHANGED <<provider, hung, windows>>

\* _run_with_timeout gives up; the thread goes on.
TimeOut(c) ==
    /\ call[c].at = "running" /\ call[c].begun = "ill"
    /\ Raise(c, TRUE)
    /\ hung' = UpTo(hung + 1, MostHung(MaxWindows) + 1)
    /\ UNCHANGED <<provider, windows>>

Retry(c) ==
    /\ call[c].at = "waiting"
    /\ Start(c, call[c].attempt + 1)
    /\ UNCHANGED <<provider, circuit, hung, windows>>

Proceed(c) == Admit(c) \/ Answer(c) \/ Fail(c) \/ TimeOut(c) \/ Retry(c)

Next == Fluctuate \/ Tick \/ \E c \in Calls : Proceed(c)

Spec == Init /\ [][Next]_vars

\* Time passes, a call ends by its timeout at the latest, and jobs keep coming.
FairSpec == Spec /\ WF_vars(Tick) /\ \A c \in Calls : WF_vars(Proceed(c))

-----------------------------------------------------------------------------
(* Properties.                                                             *)

\* A provider that hangs gets so many calls and no more before it answers again:
\* the circuit bounds them over all jobs, their retries and each half-open
\* window (allow, record_failure, call_with_retry).
HungCallsBounded == windows <= MaxWindows => hung <= MostHung(windows)

\* When the provider is well for good the circuit is closed for good, whatever
\* calls of its illness still fail late and open it again.
Recovers == <>[](provider = "well") => <>[](circuit.at = "closed")
=============================================================================
