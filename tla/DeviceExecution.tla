--------------------------- MODULE DeviceExecution ---------------------------
(***************************************************************************)
(* Carrying out approved changes on one firewall: apply_once under the     *)
(* approval hash (app/execute/idempotent.py), the send, read back, reverse *)
(* sequence (app/execute/device.py, app/execute/live.py), the result cache *)
(* the application wires to it (app/main.py) and the execution_results     *)
(* table (app/jobs/store.py).                                              *)
(*                                                                         *)
(* One process runs the jobs, each in a thread of its own, and the threads *)
(* share one executor: its session to the device and its result cache.  A  *)
(* change is one rule, which is what a proposal holds.  What the device    *)
(* makes of a command is nondeterministic: the rule may land where it      *)
(* works, land where an earlier rule hides it, or not land, and the        *)
(* connection may fail before or after that.  Platforms differ in what     *)
(* a command does to another rule with the same entry number: an ASA goes  *)
(* by the rule, IOS refuses a number that is taken, EOS refuses it and     *)
(* removes by number, SR Linux overwrites and removes by number.           *)
(*                                                                         *)
(* The device is read through a backend that all threads share: what a     *)
(* thread is told was read by itself, or earlier by a thread that came     *)
(* late with it.                                                           *)
(***************************************************************************)
EXTENDS Naturals, FiniteSets

CONSTANTS
    Ops,           \* approval hashes: one change each
    Rules, RuleOf, \* the rule a change adds
    NumberOf,      \* the entry number a rule has on the device
    Preexisting,   \* rules the device has already, where they do not work
    Threads,       \* threads that run execute_change
    AutoRollback,  \* EXECUTION_AUTO_ROLLBACK
    MaxFaults,     \* bound: crashes, reads that raise, results not persisted
    MaxLapses,     \* bound: leases lost while a thread goes on
    MaxHolds       \* bound: older reads of the device that threads hold

ASSUME ExecutionAssumption ==
    /\ "none" \notin Ops
    /\ RuleOf \in [Ops -> Rules] /\ DOMAIN NumberOf = Rules
    /\ Preexisting \subseteq Rules
    /\ AutoRollback \in BOOLEAN
    /\ MaxFaults \in Nat /\ MaxLapses \in Nat /\ MaxHolds \in Nat

Outcomes == {"applied", "refused", "rolled_back", "rollback_failed"}

\* Where a thread is in apply_once, apply, _apply and _revert; both apply and
\* _apply start with an empty _sessions and end by closing what is in it.
Undecided == {"lookup", "reset1", "reset2", "check", "send", "verify", "undo",
              "verify_undo"}
Closing == {"close1", "clear1", "close2", "clear2"}

VARIABLES
    fit,      \* the changes execute.guard.check lets through
    copies,   \* per rule: its copies on the device
    working,  \* the rules with a copy that permits the flow
    job,      \* per change: its resume job
    thread,   \* per thread: its change, how far it is, and its outcome
    session,  \* the session in _sessions: "none" (or a closed one), or "open"
    orphans,  \* open sessions that _sessions no longer knows
    cache,    \* the process's results by approval hash
    puts,     \* put_execution tasks in the background
    table,    \* execution_results
    reported, \* per change: the outcome in the graph's execution field
    older,    \* what reads that are held say of the device
    trouble,  \* per change: which of Troubles happened to it (history)
    faults, lapses

device == <<copies, working>>
held == <<session, orphans>>
stored == <<cache, puts, table>>
bounds == <<faults, lapses>>
vars == <<fit, device, job, thread, held, stored, reported, older, trouble, bounds>>

\* Its lease lapsed while a thread went on with it; the look before the send did
\* not see its rule, though it was there; an outcome was based on a read that was
\* not so; a command of another change took its rule away.
Troubles == {"lapsed", "unseen", "misjudged", "struck"}

Idle == [at |-> "idle", op |-> "none", res |-> "none"]
Attempt ==
    [at : Undecided, op : Ops, res : {"none"}] \cup
    [at : Closing \cup {"return"}, op : Ops, res : Outcomes \cup {"raised"}] \cup
    [at : {"store"}, op : Ops, res : Outcomes]
Thread == {Idle} \cup Attempt
Put == [op : Ops, res : Outcomes]
View == [there : SUBSET Rules, working : SUBSET Rules]

Before(r) == IF r \in Preexisting THEN 1 ELSE 0

TypeOK ==
    /\ fit \subseteq Ops
    /\ copies \in [Rules -> Nat]
    /\ working \subseteq Rules
    /\ job \in [Ops -> {"ready", "running", "done"}]
    /\ thread \in [Threads -> Thread]
    /\ session \in {"none", "open"}
    /\ orphans \in Nat
    /\ cache \in [Ops -> Outcomes \cup {"none"}]
    /\ puts \subseteq Put
    /\ table \in [Ops -> Outcomes \cup {"none"}]
    /\ reported \in [Ops -> Outcomes \cup {"none"}]
    /\ older \subseteq View
    /\ trouble \in [Ops -> SUBSET Troubles]
    /\ faults \in 0..MaxFaults
    /\ lapses \in 0..MaxLapses

Init ==
    /\ fit \in SUBSET Ops
    /\ copies = [r \in Rules |-> Before(r)]
    /\ working = {}
    /\ job = [o \in Ops |-> "ready"]
    /\ thread = [t \in Threads |-> Idle]
    /\ session = "none"
    /\ orphans = 0
    /\ cache = [o \in Ops |-> "none"]
    /\ puts = {}
    /\ table = [o \in Ops |-> "none"]
    /\ reported = [o \in Ops |-> "none"]
    /\ older = {}
    /\ trouble = [o \in Ops |-> {}]
    /\ faults = 0
    /\ lapses = 0

-----------------------------------------------------------------------------
At(t, where) == thread[t].at = where
Op(t) == thread[t].op
Rule(t) == RuleOf[Op(t)]

Placed(o, where, res) == [at |-> where, op |-> o, res |-> res]
GotoWith(t, where, res) == thread' = [thread EXCEPT ![t] = Placed(Op(t), where, res)]
Goto(t, where) == GotoWith(t, where, thread[t].res)

Fault == faults < MaxFaults /\ faults' = faults + 1

Add(o, what) == [trouble EXCEPT ![o] = @ \cup {what}]

\* refresh and acl_policy: the device as it is, or as another thread read it
\* before and stored it in between (FirewallBackend has the caches themselves).
Now == [there |-> {r \in Rules : copies[r] > 0}, working |-> working]
Views == older \cup {Now}

\* Some thread of the process has read the policy, and comes late with it.
Hold ==
    /\ Cardinality(older) < MaxHolds
    /\ older' = older \cup {Now}
    /\ UNCHANGED <<fit, device, job, thread, held, stored, reported, trouble, bounds>>

\* Mutant: the runner does not warm the cache from the table.
BeginCold(t, o) ==
    /\ At(t, "idle") /\ job[o] = "ready" /\ reported[o] = "none"
    /\ job' = [job EXCEPT ![o] = "running"]
    /\ thread' = [thread EXCEPT ![t] = Placed(o, "lookup", "none")]
    /\ UNCHANGED <<fit, device, held, stored, reported, older, trouble, bounds>>

\* A resume job is claimed; _run_resume warms the cache from the table before
\* the graph goes on into execute_change (which is its next node as long as no
\* outcome is checkpointed).
Begin(t, o) ==
    /\ At(t, "idle") /\ job[o] = "ready" /\ reported[o] = "none"
    /\ job' = [job EXCEPT ![o] = "running"]
    /\ thread' = [thread EXCEPT ![t] = Placed(o, "lookup", "none")]
    /\ cache' = [cache EXCEPT ![o] = IF @ = "none" THEN table[o] ELSE @]
    /\ UNCHANGED <<fit, device, held, puts, table, reported, older, trouble, bounds>>

\* apply_once: a result under this hash is replayed; apply: the guard refuses or
\* lets the change through.
Lookup(t) ==
    /\ At(t, "lookup")
    /\ \/ /\ cache[Op(t)] # "none"
          /\ GotoWith(t, "return", cache[Op(t)])
       \/ /\ cache[Op(t)] = "none" /\ Op(t) \notin fit
          /\ GotoWith(t, "return", "refused")
       \/ /\ cache[Op(t)] = "none" /\ Op(t) \in fit
          /\ Goto(t, "reset1")
    /\ UNCHANGED <<fit, device, job, held, stored, reported, older, trouble, bounds>>

\* self._sessions = {}: whatever open session it held, nobody will close.
Forget ==
    /\ session' = "none"
    /\ orphans' = IF session = "open" THEN orphans + 1 ELSE orphans

\* In apply, and again in _apply.
Reset(t) ==
    /\ \/ At(t, "reset1") /\ Goto(t, "reset2")
       \/ At(t, "reset2") /\ Goto(t, "check")
    /\ Forget
    /\ UNCHANGED <<fit, device, job, stored, reported, older, trouble, bounds>>

\* Mutant: the change is sent whatever the device has.
CheckNothing(t) ==
    /\ At(t, "check")
    /\ Goto(t, "send")
    /\ UNCHANGED <<fit, device, job, held, stored, reported, older, trouble, bounds>>

\* _already_landed: a rule that is seen at any line is not sent again.
Check(t) ==
    /\ At(t, "check")
    /\ \E v \in Views :
          \/ /\ Rule(t) \in v.there
             /\ Goto(t, "verify")
             /\ UNCHANGED trouble
          \/ /\ Rule(t) \notin v.there
             /\ Goto(t, "send")
             /\ trouble' = IF copies[Rule(t)] > 0 THEN Add(Op(t), "unseen") ELSE trouble
    /\ UNCHANGED <<fit, device, job, held, stored, reported, older, bounds>>

\* _revert begins, unless EXECUTION_AUTO_ROLLBACK is off.
Revert(t) ==
    IF AutoRollback THEN Goto(t, "undo") ELSE GotoWith(t, "close1", "rollback_failed")

SameNumber(r) == {s \in Rules : NumberOf[s] = NumberOf[r]}

\* What still works when one copy of a rule is gone.
WorkingWithout(s) == {working \ {s}} \cup (IF copies[s] > 1 THEN {working} ELSE {})

Struck(s) ==
    trouble' = [o \in Ops |-> IF RuleOf[o] = s THEN trouble[o] \cup {"struck"}
                              ELSE trouble[o]]

\* The command lands a copy that works, or one that an earlier rule hides; it may
\* take the place of a rule with the same number.
Land(r) ==
    \/ /\ copies' = [copies EXCEPT ![r] = @ + 1]
       /\ working' \in {working, working \cup {r}}
       /\ UNCHANGED trouble
    \/ \E s \in SameNumber(r) \ {r} :
          /\ copies[s] > 0
          /\ copies' = [copies EXCEPT ![r] = @ + 1, ![s] = @ - 1]
          /\ \E left \in WorkingWithout(s) : working' \in {left, left \cup {r}}
          /\ Struck(s)

\* "no ..." removes one copy of the rule, or of another with its number.
Remove(r) ==
    \E s \in SameNumber(r) :
        /\ copies[s] > 0
        /\ copies' = [copies EXCEPT ![s] = @ - 1]
        /\ working' \in WorkingWithout(s)
        /\ IF s = r THEN UNCHANGED trouble ELSE Struck(s)

Ignore == UNCHANGED <<device, trouble>>

\* send_config opens the session unless it is open.
Connected ==
    /\ session' = "open"
    /\ UNCHANGED <<fit, job, orphans, stored, reported, older, bounds>>

NotConnected == UNCHANGED <<fit, device, job, held, stored, reported, older, trouble, bounds>>

\* Mutant: a send that fails is reported as if nothing had been sent.
SendRefused(t) ==
    /\ At(t, "send")
    /\ \/ /\ Connected /\ (Land(Rule(t)) \/ Ignore)
          /\ Goto(t, "verify") \/ GotoWith(t, "close1", "refused")
       \/ NotConnected /\ GotoWith(t, "close1", "refused")

\* Mutant: a send that fails is raised, not reversed.
SendRaises(t) ==
    /\ At(t, "send")
    /\ \/ /\ Connected /\ (Land(Rule(t)) \/ Ignore)
          /\ Goto(t, "verify") \/ GotoWith(t, "close1", "raised")
       \/ NotConnected /\ GotoWith(t, "close1", "raised")

\* A send that fails leaves the device with or without the rule.
Send(t) ==
    /\ At(t, "send")
    /\ \/ Connected /\ (Land(Rule(t)) \/ Ignore) /\ (Goto(t, "verify") \/ Revert(t))
       \/ NotConnected /\ Revert(t)

\* Mutant: the rule is looked for, the flow is not tried.
VerifyPresence(t) ==
    /\ At(t, "verify")
    /\ \/ copies[Rule(t)] > 0 /\ GotoWith(t, "close1", "applied")
       \/ copies[Rule(t)] = 0 /\ Revert(t)
    /\ UNCHANGED <<fit, device, job, held, stored, reported, older, trouble, bounds>>

\* verify_applied: the rule is there and the flow is permitted.
Verify(t) ==
    /\ At(t, "verify")
    /\ \E v \in Views :
          \/ /\ Rule(t) \in v.there \cap v.working
             /\ GotoWith(t, "close1", "applied")
             /\ trouble' = IF Rule(t) \in working THEN trouble ELSE Add(Op(t), "misjudged")
          \/ /\ Rule(t) \notin v.there \cap v.working
             /\ Revert(t)
             /\ UNCHANGED trouble
    /\ UNCHANGED <<fit, device, job, held, stored, reported, older, bounds>>

\* _revert sends the reversal of every action, sent or skipped.
Undo(t) ==
    /\ At(t, "undo")
    /\ \/ /\ Connected /\ (Remove(Rule(t)) \/ Ignore)
          /\ Goto(t, "verify_undo") \/ GotoWith(t, "close1", "rollback_failed")
       \/ NotConnected /\ GotoWith(t, "close1", "rollback_failed")

\* Mutant: a reversal that was accepted is taken at its word.
TrustUndo(t) ==
    /\ At(t, "verify_undo")
    /\ GotoWith(t, "close1", "rolled_back")
    /\ UNCHANGED <<fit, device, job, held, stored, reported, older, trouble, bounds>>

\* verify_reverted: the rule is gone and the flow is not permitted.
VerifyUndo(t) ==
    /\ At(t, "verify_undo")
    /\ \E v \in Views :
          \/ /\ Rule(t) \notin v.there \cup v.working
             /\ GotoWith(t, "close1", "rolled_back")
             /\ trouble' = IF copies[Rule(t)] > 0 THEN Add(Op(t), "misjudged") ELSE trouble
          \/ /\ Rule(t) \in v.there \cup v.working
             /\ GotoWith(t, "close1", "rollback_failed")
             /\ UNCHANGED trouble
    /\ UNCHANGED <<fit, device, job, held, stored, reported, older, bounds>>

\* Mutant: the error leaves apply without passing its finally clauses.
ReadErrorEscapes(t) ==
    /\ At(t, "check") \/ At(t, "verify") \/ At(t, "verify_undo")
    /\ Fault
    /\ GotoWith(t, "return", "raised")
    /\ UNCHANGED <<fit, device, job, held, stored, reported, older, trouble, lapses>>

\* Reading the policy raises, in any of the three reads: nothing catches it.
ReadError(t) ==
    /\ At(t, "check") \/ At(t, "verify") \/ At(t, "verify_undo")
    /\ Fault
    /\ GotoWith(t, "close1", "raised")
    /\ UNCHANGED <<fit, device, job, held, stored, reported, older, trouble, lapses>>

\* The finally clauses of _apply and apply: close what _sessions holds,
Close(t) ==
    /\ \/ At(t, "close1") /\ Goto(t, "clear1")
       \/ At(t, "close2") /\ Goto(t, "clear2")
    /\ session' = "none"
    /\ UNCHANGED <<fit, device, job, orphans, stored, reported, older, trouble, bounds>>

\* then forget it.
Clear(t) ==
    /\ \/ At(t, "clear1") /\ Goto(t, "close2")
       \/ At(t, "clear2") /\ Goto(t, IF thread[t].res = "raised" THEN "return" ELSE "store")
    /\ Forget
    /\ UNCHANGED <<fit, device, job, stored, reported, older, trouble, bounds>>

\* _store: the process's cache at once, the table in the background; create_task
\* raises in a thread that has no event loop.
Store(t) ==
    /\ At(t, "store")
    /\ cache' = [cache EXCEPT ![Op(t)] = thread[t].res]
    /\ \/ /\ puts' = puts \cup {[op |-> Op(t), res |-> thread[t].res]}
          /\ Goto(t, "return")
          /\ UNCHANGED faults
       \/ /\ Fault
          /\ GotoWith(t, "return", "raised")
          /\ UNCHANGED puts
    /\ UNCHANGED <<fit, device, job, held, table, reported, older, trouble, lapses>>

\* execute_change returns and its outcome is checkpointed, or it raises and the
\* job is run again or buried (a graph at its end has nothing to run).
Return(t) ==
    /\ At(t, "return")
    /\ thread' = [thread EXCEPT ![t] = Idle]
    /\ \/ /\ thread[t].res # "raised"
          /\ reported' = [reported EXCEPT ![Op(t)] = thread[t].res]
          /\ job' = [job EXCEPT ![Op(t)] = "done"]
       \/ /\ thread[t].res = "raised"
          /\ \E s \in IF reported[Op(t)] = "none" THEN {"ready", "done"} ELSE {"done"} :
                job' = [job EXCEPT ![Op(t)] = s]
          /\ UNCHANGED reported
    /\ UNCHANGED <<fit, device, held, stored, older, trouble, bounds>>

\* put_execution_result: ON CONFLICT (operation_key) DO NOTHING; a task that
\* raises is gone.
Persist(x) ==
    /\ x \in puts
    /\ puts' = puts \ {x}
    /\ \/ /\ table' = [table EXCEPT ![x.op] = IF @ = "none" THEN x.res ELSE @]
          /\ UNCHANGED faults
       \/ Fault /\ UNCHANGED table
    /\ UNCHANGED <<fit, device, job, thread, held, cache, reported, older, trouble, lapses>>

\* The process dies: its jobs are delivered again or buried.
Crash ==
    /\ Fault
    /\ \E dead \in SUBSET Ops :
          job' = [o \in Ops |-> IF job[o] # "running" THEN job[o]
                                ELSE IF o \in dead THEN "done" ELSE "ready"]
    /\ thread' = [t \in Threads |-> Idle]
    /\ session' = "none"
    /\ orphans' = 0
    /\ cache' = [o \in Ops |-> "none"]
    /\ puts' = {}
    /\ older' = {}
    /\ UNCHANGED <<fit, device, table, reported, trouble, lapses>>

\* A job's lease lapses and is reclaimed while its thread goes on.
Lapse(t) ==
    /\ ~At(t, "idle") /\ job[Op(t)] = "running"
    /\ lapses < MaxLapses
    /\ lapses' = lapses + 1
    /\ job' = [job EXCEPT ![Op(t)] = "ready"]
    /\ trouble' = Add(Op(t), "lapsed")
    /\ UNCHANGED <<fit, device, thread, held, stored, reported, older, faults>>

-----------------------------------------------------------------------------
OnTheDevice(t) == Check(t) \/ Send(t) \/ Verify(t) \/ Undo(t) \/ VerifyUndo(t)
Aside(t) == Lookup(t) \/ Reset(t) \/ Close(t) \/ Clear(t) \/ Store(t) \/ Return(t)

Next ==
    \/ \E t \in Threads, o \in Ops : Begin(t, o)
    \/ \E t \in Threads : Aside(t) \/ OnTheDevice(t) \/ ReadError(t) \/ Lapse(t)
    \/ \E x \in puts : Persist(x)
    \/ Hold
    \/ Crash

Spec == Init /\ [][Next]_vars

-----------------------------------------------------------------------------
(* Properties.  Each names the troubles that undo it, and claims the change  *)
(* that met none of them, whatever other changes, in the other threads and   *)
(* under the same entry number, went through meanwhile.                      *)

Spared(o, what) == what \cap trouble[o] = {}

\* No change is on the device twice, through failing commands and reads, lost
\* results, crashes and second deliveries ("a replay cannot duplicate a device
\* mutation", docs/how-it-works.md section 18, of apply_once and _already_landed).
\* It takes that no two threads are at it at once, and that the look before the
\* send was not served an older read.
NoDuplicateRule ==
    \A o \in Ops : Spared(o, {"lapsed", "unseen"}) => copies[RuleOf[o]] <= 1

\* A change reported as applied is on the device and works (execute/base.py:
\* "change is on the device and verified afterwards"), through replays from the
\* cache or the table, failing reads and crashes, unless a command of another
\* change under the same number took it away, or the read back was an older one.
AppliedIsOnDevice ==
    \A o \in Ops :
        reported[o] = "applied" /\ Spared(o, {"lapsed", "misjudged", "struck"}) =>
            RuleOf[o] \in working

Untouched(r) == copies[r] = Before(r) /\ r \notin working

\* The rule of a change reported as rolled back or refused is not on the device,
\* though what was sent of it may have landed, failed or been repeated.  Not that
\* "the device is back in its previous state" (execute/device.py): a reversal by
\* number may have removed the rule of another change, which is then "struck".
NotAppliedMeansRestored ==
    \A o \in Ops :
        reported[o] \in {"rolled_back", "refused"} /\ Spared(o, {"lapsed", "misjudged"}) =>
            Untouched(RuleOf[o])

\* What the graph, the process and the table remember of a change is the same,
\* unless it was carried out by two threads at once.
ResultsAgree ==
    \A o \in Ops : Spared(o, {"lapsed"}) =>
        /\ table[o] # "none" => cache[o] \in {"none", table[o]}
        /\ table[o] # "none" => reported[o] \in {"none", table[o]}
        /\ cache[o] # "none" => reported[o] \in {"none", cache[o]}

\* A change nobody works on any more has an outcome or left the device alone,
\* unless a read raised, a result could not be handed over or the process died:
\* commands that fail or do nothing, whatever they did, are checked, reversed and
\* reported ("a partial push is exactly when a rollback matters most",
\* execute/device.py).
NothingLeftBehind ==
    \A o \in Ops :
        \/ faults > 0
        \/ Untouched(RuleOf[o])
        \/ reported[o] # "none"
        \/ \E t \in Threads : ~At(t, "idle") /\ Op(t) = o

\* When no change is being carried out no session is held ("it is closed
\* whatever happens", docs/how-it-works.md section 9).
SessionsClosed ==
    (\A t \in Threads : At(t, "idle")) => session = "none" /\ orphans = 0
-----------------------------------------------------------------------------
(* Strengthenings the proofs need (DeviceExecutionProofs).                 *)

DistinctRules == \A o, p \in Ops : RuleOf[o] = RuleOf[p] => o = p

NewRules == \A o \in Ops : RuleOf[o] \notin Preexisting

\* What an outcome says of the device is so.
Truthful(o, res) ==
    /\ res = "applied" /\ Spared(o, {"lapsed", "misjudged", "struck"}) =>
          RuleOf[o] \in working
    /\ /\ res \in {"rolled_back", "refused"} /\ Spared(o, {"lapsed", "misjudged"})
       /\ RuleOf[o] \notin Preexisting
       => Untouched(RuleOf[o])

\* What is known of the change of a thread that is at work: nobody has stored or
\* reported an outcome of it unless the thread is about to return.
AloneAtWork(x) ==
    /\ job[x.op] = "running" /\ reported[x.op] = "none"
    /\ x.at = "lookup" => table[x.op] \in {"none", cache[x.op]}
    /\ x.at \notin {"lookup", "return"} => cache[x.op] = "none" /\ table[x.op] = "none"
    /\ x.at = "send" /\ Spared(x.op, {"unseen"}) => copies[RuleOf[x.op]] = 0
    /\ x.at = "return" =>
          \/ x.res = "raised"
          \/ x.op \in fit /\ x.res = cache[x.op]
          \/ x.op \notin fit /\ x.res = "refused"
    /\ \A y \in puts : y.op = x.op => x.at = "return" /\ x.res = y.res

AttemptOK(x) ==
    x # Idle =>
        /\ x.at \notin {"lookup", "return"} => x.op \in fit
        /\ Truthful(x.op, x.res)
        /\ Spared(x.op, {"lapsed"}) => AloneAtWork(x)

OneAttempt ==
    \A t, u \in Threads :
        /\ thread[t] # Idle /\ thread[u] # Idle /\ Op(t) = Op(u)
        /\ Spared(Op(t), {"lapsed"})
        => t = u

\* A result on its way to the table is the cached one, and the change's outcome
\* is reported or its thread has still to return.
PutsAreCurrent ==
    \A y \in puts : Spared(y.op, {"lapsed"}) =>
        /\ cache[y.op] = y.res
        /\ \/ reported[y.op] = y.res
           \/ \E t \in Threads : thread[t] # Idle /\ Op(t) = y.op

MemoryIsTruthful ==
    \A o \in Ops : /\ Truthful(o, cache[o]) /\ Truthful(o, table[o])
                   /\ Truthful(o, reported[o])

\* A change that the guard refuses was never sent, nor remembered.
UnfitUntouched ==
    /\ \A o \in Ops \ fit :
          /\ cache[o] = "none" /\ table[o] = "none"
          /\ RuleOf[o] \notin Preexisting => Untouched(RuleOf[o])
    /\ \A y \in puts : y.op \in fit

WorkingIsThere == \A r \in working : copies[r] > 0

Consistent ==
    /\ \A t \in Threads : AttemptOK(thread[t])
    /\ OneAttempt
    /\ PutsAreCurrent
    /\ MemoryIsTruthful
    /\ UnfitUntouched
    /\ WorkingIsThere
    /\ NoDuplicateRule
    /\ ResultsAgree

ExecInv == TypeOK /\ Consistent

\* A change that was begun is in a thread's hands, was told of, or met a fault;
\* without a fault nothing raises.
SurelyTold ==
    faults = 0 =>
        /\ \A t \in Threads : thread[t].res # "raised"
        /\ \A o \in Ops : \/ Untouched(RuleOf[o])
                          \/ reported[o] # "none"
                          \/ \E t \in Threads : thread[t] # Idle /\ Op(t) = o

\* With one thread a session is open only between its first command and the
\* first finally clause, and none is ever forgotten.
SessionInUse ==
    /\ orphans = 0
    /\ session = "open" =>
          \E t \in Threads : thread[t].at \in {"verify", "undo", "verify_undo", "close1"}

-----------------------------------------------------------------------------
(* The promise this implements.                                            *)

OnDevice ==
    [o \in Ops |->
        CASE RuleOf[o] \in working -> "works"
          [] RuleOf[o] \notin working /\ copies[RuleOf[o]] > 0 -> "hidden"
          [] OTHER -> "absent"]

\* Whose rule a command of a change may take away, and what is in doubt.
SharesNumber ==
    [o \in Ops |-> {p \in Ops \ {o} : NumberOf[RuleOf[p]] = NumberOf[RuleOf[o]]}]
InDoubt == [o \in Ops |-> trouble[o] \ {"unseen"}]

Promise == INSTANCE ChangeOutcome
           WITH Near <- SharesNumber, rule <- OnDevice, outcome <- reported,
                doubts <- InDoubt

\* An outcome is true when it is given and is given once, and after it nothing but
\* a command of another change with the same number, itself without an outcome,
\* touches the change's rule, unless two threads carried it out at once or it was
\* judged by an older read ("a replay cannot duplicate a device mutation",
\* docs/how-it-works.md section 18).
OutcomesAreFinal == Promise!Spec
=============================================================================
