# ZeroNode in TLA+

ZeroNode (a FastAPI service around a LangGraph agent) takes a network alert, lets a model
investigate it, stops before any change until a person approves, seals that decision in a signed
ledger and then applies the change to a firewall. This directory holds TLA+ modules for the parts
of it whose correctness depends on order, concurrency or failure, the TLC configurations that check
them, and proofs that TLAPS checks. Source paths are below `src/apps/api/app/` unless they say
otherwise.

## 1. Inventory

| Component | Source | State it keeps | Operations | What is hard, and what must hold |
| --- | --- | --- | --- | --- |
| Job queue | `jobs/store.py`, `jobs/dispatcher.py` | `investigation_jobs` rows: status, attempts, lease | enqueue, claim, reclaim, heartbeat, complete, fail | one delivery at a time while leases hold; attempts bounded; dead letters spent; capacity |
| Worker | `jobs/worker.py` | in-flight coroutines, stop event | poll, run, heartbeat, drain | crashes, late heartbeats, failing settlements; every job settles |
| Runner | `jobs/runner.py` | none of its own | start, resume, record the execution, notify, close | redelivery of a job on a thread that moved on |
| Agent graph | `graph/`, `tools/topology.py` | the LangGraph thread (checkpoints) | supervisor and specialist turns, proposal, interrupt, execute | nothing executes without approval; what executes is what was shown |
| Approval API | `routers/incidents.py`, `ingress/trigger.py` | none of its own | trigger, resume (409, seal, enqueue) | two people deciding at once; sealed before resumed |
| Execution | `execute/` | result cache, device session | apply once, verify, roll back | a replay must not duplicate a change; a failed change must be reversed; a shared session |
| Audit ledger | `audit/` | hash chain, anchor file, key set | append, rotate, verify, anchor, startup check | concurrent appends, lost anchors, rollback of the database |
| Model resilience | `jobs/resilience.py` | circuit state, failure count | allow, success, failure, retry, time out | threads sharing a breaker; callers in the half-open window; threads that go on after their timeout |
| Simulation | `verify.py`, `firewall/policy.py`, `firewall/normalize.py` | none | verify a change, verify a rollback | what the simulation passes must do the same on the device, on four platforms, with stale policies |
| Change windows | `schedule.py` | none | evaluate, next opening | windows over midnight, freezes |
| Authentication | `auth/` | users, sliding windows, TOTP step | login, lockout, second factor | lockout under concurrency, replayed codes |
| Topology | `store/topology_ingest.py`, `store/neo4j_store.py`, `store/netbox.py` | the graph in Neo4j, its metadata | seed, replace, ask | readers of a half-written graph; two processes that replace it; failures in the middle |
| Secrets, outbound, ingress parsing | `secretref.py`, `outbound/`, `ingress/`, `auth/webhook_auth.py` | caches, retries | resolve, post, normalise | expiry, retries |
| Firewall backends | `firewall/asa.py`, `ios.py`, `eos.py`, `srlinux.py`, `nat.py`, `objectgroup.py` | caches of policy, definitions, translations | refresh, read, expand, assess | a part of a policy taken for the whole; caches shared by threads |
| Lab firewall | `src/infra/fakeasa/server.py` | a policy of numbered rules | add, remove, show | what an insertion and a removal do to the lines |
| Web, scripts | `src/apps/web`, `src/scripts` | none of interest | presentation and deployment | |

The API enqueues; workers claim and call the runner; the runner drives the graph; the graph calls
the simulation and, past the interrupt, the executor; the API and the runner both append to the
ledger. Everything shared between processes is in Postgres (queue rows, checkpoints, ledger,
execution results); what is shared between coroutines and threads of one process is the executor,
its session and its result cache, the firewall backend's caches, and the circuit breaker. The
inventory graph in Neo4j is shared by the API and the workers, which all seed and replace it.

## 2. Modules

| Module | Role |
| --- | --- |
| `JobQueue` | the queue's table, the dispatcher's statements, the workers |
| `JobDelivery` | what the queue promises; `JobQueue` implements it, `ApprovalFlow` is built on it |
| `ApprovalFlow` | one incident: endpoints, jobs, runs, the graph's thread |
| `DeviceExecution` | carrying out approved changes on a device: replay, verification, reversal, memory |
| `ChangeOutcome` | what the executor promises of a change and its outcome; `DeviceExecution` implements it |
| `AuditLedger` | the hash chain, its anchors, keys, starts, verification, backup and restore |
| `AclPolicy` | rules, flows and first match, as `firewall/policy.py` and `verify.py` have them |
| `PolicyReading` | what each platform's parser makes of an entry, a group, a translation, and what the device does with them |
| `FirewallBackend` | threads that read, refresh and ask one backend while the device changes |
| `ChangeSimulation` | one incident's change: evidence, proposal, simulation, gate, device, verification, reversal |
| `TopologyGraph` | the inventory graph: seed, ingests, questions |
| `CircuitBreaker` | model calls of several jobs, their retries and timeouts, and the shared breaker |
| `MC…` | symmetry sets and constants for TLC, one per state machine above (`JobDelivery` and `ChangeOutcome` need none) |
| `…Proofs` | theorems and their proofs: `JobQueue`, `ApprovalFlow`, `DeviceExecution`, `AuditLedger`, `ChangeSimulation`, `FirewallBackend` (and what it reads with, `PolicyReading`), `TopologyGraph`, `CircuitBreaker` |

How they fit together: `ApprovalFlow` instantiates `JobDelivery` for the jobs of its incident, and
`JobQueue` is proved to implement `JobDelivery` as long as heartbeats keep their leases.
`ApprovalFlow` hands a change to the executor in one action (`Execute`); `DeviceExecution` is that
action in detail, with the threads, crashes and replays the flow does not look into, and
`ChangeOutcome` is what it comes to: an outcome that is true when told and final, as far as the
executor has it in its hands.
`ApprovalFlow` seals a decision in one action (`Seal`); `AuditLedger` is that action in detail.
`ApprovalFlow` lets a specialist turn lead to any proposal; `ChangeSimulation` is how a proposal
comes to be queued as verified, and what carrying it out does to the policy, which
`DeviceExecution` reduces to a count of copies. `ChangeSimulation` reads a policy as a sequence of
rules; `FirewallBackend` is where that sequence comes from. Both stand on `AclPolicy`.

Every module names its mutants next to the definition they distort (comments beginning "Mutant:").
They take no part in the specifications; replacing the definition by its mutant must make TLC find
the property violated, which shows that the property depends on that line of the code.

### JobQueue, JobDelivery

The pool runs in autocommit mode (`main.py:262`), so one SQL statement is one action and everything
may happen between two statements of a Python method: `_enqueue` is `ReadDepth`, `LookUp`,
`Insert`; `claim` is `ReclaimExpired` and then `ClaimNext` or `ClaimNone`. `rows` is
`investigation_jobs` by dedupe key. `tasks` are the `_run_claimed` coroutines with the attempt they
were claimed with (the `Job` they hold is a copy); they outlive their lease, which is why
`Complete` and `Fail` name a row that may be somebody else's. `fail_job` decides by the copy's
attempts. The clock is abstract: a lease is live or lapsed, a row is ready or delayed. A lease
lapses either because nobody beats any more (`LapseUnbeaten`) or although somebody does
(`LapseLate`, a worker starved for longer than the lease, bounded by `MaxLapses`).
In autocommit a statement can take effect and its call raise all the same, when the connection is
lost on the reply. For `complete()` that matters (`CompleteError`): the row is `succeeded`, the
except clause goes on to `fail()`, and that requeues or buries it. `lostReplies` counts these.
`FOR UPDATE SKIP LOCKED` disappears, since a claim is one statement. The workers' registration
(`touch_worker`), health queries, metrics and the in-memory dispatcher are left out.

`JobDelivery` has jobs that are absent, waiting, held or done. A job is held as long as a coroutine
has it, also when its row is settled and nobody knows; so a worker that gives up its jobs
(`GiveUp`) leaves some of them waiting and may leave others done.

### ApprovalFlow

`request` follows each POST of a decision through 409 check, sealing and enqueueing; `thread` is
the latest LangGraph checkpoint; `run[j]` is the run of a job with its own copy of the thread.
A node's result is checkpointed when the node is done, whatever other runs of the thread have
written meanwhile: nothing keeps two jobs of one thread apart. `LoadStart` starts the graph over,
as `ainvoke(initial)` does, and `LoadResume` continues where the checkpoint stands, past the
interrupt. What the model answers is a free choice among the nodes a turn can lead to. `GiveUp` is
any failure of a run: the job is delivered again, or is dead. `DecideOnce` limits people, not the
code: with it, nobody decides on a proposal somebody has decided on.

`Ledgered = FALSE` is the setup without a database, in which the approval hash is
`memory:<thread>:<decision>`, so that the second rejection finds the job of the first and the thread
stays at its interrupt: `RejectionsAreHeard` is false there. That is a setup for local development
(authentication must be off too, `routers/incidents.py:292`), of which the code promises nothing but
a warning in the log; the safety theorems that do not name `Ledgered` cover it, the runs use
`TRUE`, and the mutant of `RejectionsAreHeard` is that hash.

The change window, the simulation in front of the proposal and role checks only decide whether a
person's request gets past the check, or a specialist turn leads to a proposal; they are part of
those free choices. The `incidents` row, tickets and notifications are left out; nothing modelled
reads them.

### DeviceExecution, ChangeOutcome

The threads of one process (one per running resume job, `asyncio.to_thread`) share one executor:
its `_sessions` dict (`session`, and `orphans` for open sessions it has forgotten) and its result
cache. A change is one rule; the device is the number of `copies` of each rule and whether one of
them works (is not hidden by an earlier rule). A command may land where it works, land where it does
not, or be ignored, and the connection may fail before or after that. `Begin` is `_warm`: the cached
result is read from `execution_results` before the graph goes on; `Store` is `_store`, which fills the
cache at once and the table in a background task, and whose `create_task` raises when there is no
loop in the thread. `Crash` empties what the process holds. `Lapse` is a lease lost while the thread
goes on, after which the job can be begun a second time; the cancellation of a coroutine whose
thread continues has the same effect. The race between two threads that both find no session and
both connect is contained in what `orphans` already shows. A dry run touches no device and is left
out.

Commands go by entry numbers on some platforms (`NumberOf`): an ASA removes the rule it is given; IOS
refuses a number that is taken; EOS refuses it too, and removes by number (`execute/render.py:67`);
SR Linux overwrites and removes by number (`render.py:91-96`). `Land` and `Remove` are all of these
at once: a command has its effect on its own rule, or takes away a copy of another rule with the same
number, or does nothing. Only the rules of changes are followed here; what a command does to the
entries that were there before, and to those of operators, is the subject of `ChangeSimulation`.

The executor reads the device through the backend all threads share, where a read that another
thread held across the refresh is stored after it (`firewall/asa.py:353`; `FirewallBackend` has the
caches). `Hold` is a thread that comes late with what it read, `older` what is held so, and each of
the three reads (`Check`, `Verify`, `VerifyUndo`) may see any of it or the device as it is (`Views`).

So the executor can be wrong through no step of its own, and `trouble` keeps, per change, what
happened to it: its lease `lapsed`, its landed rule was `unseen` before the send, its outcome was
`misjudged` by an older read, its rule was `struck` by another change's command. Each property names
the troubles that undo it and claims all changes that met none of these, in whatever company.

`ChangeOutcome` sees of this the rule of each change (absent, hidden by an earlier rule, or working),
the outcome told, and the troubles that put it in doubt. The rule may come and go until the outcome
is told; the outcome has to fit the rule as it is then (`Means`), unless the change was misjudged,
carried out twice, or its rule taken after it was seen (`MayBeFalse`); then outcome and rule stay as
they are, but for a command of another change with the same entry number (`Near`), which marks it.
`OnDevice` is the refinement mapping.

### AuditLedger

The API and the worker start through the same lifespan and append through the same function.
`Lock`, `ReadHead`, `Commit` are the transaction of `append_approval` and of
`ensure_rotation_record`; `WriteAnchor` comes after it and outside the lock, and `Abort`,
`SinkFails` and `Crash` are its failures. A start is the call of kind "startup": the rotation
marker if one is due, then the list, then the comparison, which brings the process up or, in
production, down. `GET /audit/verify` is the call of kind "verify". `RotateKey` changes the key in
`.env`; without `Rolling` only while everything is down. `Backup` keeps the table (the last dump
can be restored); `Restore` runs with everything stopped, and leaves the anchors as they are, since
the script writes them through an `exec` into the container it has stopped.

A hash is a fresh number: a record commits to its contents and its predecessor, so equal hashes
mean equal records, and what forging a hash or editing a record would take is outside the model.
Anchor files with torn lines (skipped by `latest`), a configuration without an anchor file, and
ephemeral keys are left out.

### AclPolicy, PolicyReading, FirewallBackend

`AclPolicy` has rules with a source, a destination and a port that are sets of a few addresses and
ports, and the first match of a flow. `PolicyReading` has the entries of a configuration as the
devices know them (objects, object-groups, service groups, port operators, wildcards, `inactive`),
and two readings of them: `…Rules`, what the parser of each platform makes of an entry, and
`AceAdmits`, what the device does with it: an entry with groups stands for its `Elements`, the
lines an ASA prints under it, and admits what one of them admits. `Expand` is `expand_group` with
its limits, cycles and unknown names; it is written by the set of groups reached, so that no
recursion is needed.

`BackendAssumption` says what a device is. `IsDevice`: entries, groups and objects have the form the
parsers expect (`Grammatical`): an operator has its ports, a group of services is not followed by
another port, SR Linux prints prefixes and protocols. `OneLine`: a named object has one line and
refers to nothing, which is what `parse_show_objects` reads. The operands of a translation are
only looked up among the objects (`_covers`), so one that names a group is unresolved.

`FirewallBackend` is the object that `_firewall` hands to all threads of a process: `cache`,
`defs` and `nat` are its three caches, each read by commands of their own at moments of their own,
which `reader` follows. Time is the number of changes the device has been through, and what is
cached is known by the time it was read at. A definition command that fails twice is survived
(`time = 0`), one that reads the policy is not (`Raise`).

### ChangeSimulation

One incident after another on one device, whose policy is that of the lab's firewall
(`src/infra/fakeasa/server.py`: insertion pushes the lines below, removal closes the gap) with the
differences of the other platforms beside it: IOS and EOS refuse a line that is taken, SR Linux
overwrites it. `view` is the backend's cached policy, `evidence` the denied flow that was
confirmed, `action` the proposal in hand with the policy it was simulated on. `Gather`, `Propose`,
`Reject` and `Approve` are the tools and the gate (`execute/guard.py` reads again before anything
is sent), `Check`, `Send`, `VerifyApplied`, `Undo` and `VerifyReverted` the executor, `Edit` an
operator at any moment. The simulator's line (`SimulatedLine`) and the device's (`CommandLine`) are
written apart, as they are in the code.

### TopologyGraph

The graph is a set of facts, and each Cypher statement, which commits by itself, adds one fact if
what its MATCH looks for is there. `process[p].todo` is what is left to write, a set. The API and the
worker run the same lifespan: `Check` and `Wipe` are `ensure_seed`, `ReadDevices` and
`ReadInterfaces` the pages of NetBox, between which it may change, `Replace` the deletion,
`WriteMeta` the end of an ingest, `Wake` the interval. The order of the
statements is the code's: the seed's file goes section by section (`First`), `to_cypher` writes
what ties a device or an interface to its zone or device right after it (`Cypher`). A failure
(`Fail`, `FailSeed`, `Crash`) leaves the graph where it was. `torn` says that two processes have written since the graph was last
emptied, which nothing prevents.

### CircuitBreaker

The jobs of a process call one `ResilientChatModel`. The circuit is asked once, before the first
attempt (`Admit`); an attempt is answered, fails, or times out, in which case its thread stays with
the provider (`hung`); the last attempt, or an error that is not transient, is one failure.
`opened_at` is its age in ticks, which only matter while the circuit is open. Which errors are
transient is a free choice in the model. `state` and `snapshot` only read, for `/health` and metrics.

## 3. Runs

| Run | Checks | Bounds, and why they are enough |
| --- | --- | --- |
| `queue_timely` | `TypeOK`, `ExclusiveRun`, `CapacityOvershootBounded`, `SettledStaysSettled`, `DeliverySpec` | three jobs (one more than the bound on the depth allows) and two requests on a queue of capacity one (both can pass the depth check together), two workers, two attempts (retry and dead letter), one crash or stop, one settlement that fails or loses its reply, no late lease |
| `queue_late` | `AttemptsBounded`, `DeadLetterSpent`, `NewestClaimHoldsLease`, `RevivedOnlyAfterLoss`, `EveryJobSettles` | one job, since a late worker interferes with the job it lost only; two workers with two slots and two lapses, so that the first can come back late to a job that was claimed (by the other, or by itself in its second slot), settled or lost again |
| `flow_raced` | `NoUnapprovedExecution`, `RecordsTellWhatHappened` | two decisions at the same time, two proposals (the one shown and its replacement), two failing runs |
| `flow_decided` | `ExecutedAsApproved`, `ApprovalsAreExecuted`, `RejectionsAreHeard` | three decisions, three proposals, each decided once, no failing run: what holds when people take turns |
| `flow_stale` | violated: `ExecutedAsApproved` | two decisions on one proposal |
| `exec_distinct` | `NoDuplicateRule`, `AppliedIsOnDevice`, `NotAppliedMeansRestored`, `ResultsAgree`, `NothingLeftBehind`, `OutcomesAreFinal` | two changes with rules of their own, under one entry number, in two threads (so that sessions are shared and forgotten, and a command can hit the other change's rule); one fault, after which the change is delivered again; one older read. Lapses are the theorems' and `exec_serial`'s: with one lapse beside the rest the instance is several times as large |
| `exec_serial` | `SessionsClosed` | one thread; two changes, one of them with its rule on the device before, so that sends are skipped and made; two faults and two lapses, so that a change is delivered again while it is at work and after it failed |
| `ledger_appends` | `ChainVerifies`, `AnchorsFit`, `KeyChangesMarked`, `AcknowledgedIsAnchored`, `AlarmsOnlyShort`, `LossLeavesATrace`, `LatestAnchorFits` | API and worker, two calls at a time, two keys, three records (one before, one at and one after a rotation or a restore), one restore |
| `policy_read` | `ReadingAgrees`, `FreshUnlessOverlapped`, `NatTold` | 51 configurations of four platforms (an entry of each kind the parsers know, before or after a plain one; groups that nest, refer to themselves, are unknown or too large), two threads, one change and one failing command |
| `change` | `SimulationAgrees`, `NothingElseOpened`, `ReversalRestores` | five policies on four platforms; proposals with a number, a position or neither; derived and authored reversals; one refusal before a proposal is queued as it is; one edit by an operator at any moment |
| `topology` | `MetaMeansComplete`, `AnswersAreReal`, `GraphHeals` | the API and the worker; the lab and an inventory of two devices that changes once; two failures or crashes |
| `circuit` | `HungCallsBounded`, `Recovers` | three jobs, two retries, a threshold of three, a reset of two ticks, windows counted up to two; the bound is reached |

The symmetry sets permute jobs, workers, requests, decisions, changes with their threads, calls and
the backend's threads, and are used only by runs without liveness properties. Deadlock is checked
in all runs but the flow's and the executor's: the flow stops when its incident is closed and the
decisions are spent, and the executor when its changes are done.

The type invariant is among the properties of a run for `JobQueue` only; for the other modules it
is part of the inductive invariants proved (section 4).

What the passing runs say, beyond the names:

- `CapacityOvershootBounded`: the capacity is exceeded by at most the number of concurrent
  requests less one, and by the jobs that came back because `complete()` lost its reply.
- `SettledStaysSettled`, `RevivedOnlyAfterLoss`: with leases kept, a settled row is touched only by
  the coroutine that settled it, and once; without, only after a reclaim or a lost reply.
- `AttemptsBounded`: late `fail()` calls do not make a job run for ever; each reclaimed lease
  costs at most one attempt beyond `max_attempts`.
- `RejectionsAreHeard`: a second rejection in one incident has a job of its own too, and takes the
  thread past the proposal it was given on.
- `ResultsAgree`: checkpoint, cache and table never remember different outcomes of a change whose
  lease was held.
- `AlarmsOnlyShort`: the race of a verification with an append (below) is the only false alarm
  there is.
- `NothingLeftBehind`: commands that fail, land where they do not work or do nothing are reversed and
  told of. What may leave a rule nobody is told of is a read that raises after the send
  (`execute/live.py:47`), a result that cannot be handed over or the death of the process, and then
  only when the job is not run again; these are the faults the property excepts.
- `OutcomesAreFinal`: what the engineer is told of a change was so when it was told, and neither a
  replay nor a restart touches the change's rule afterwards. Another change under the same entry
  number may: a reversal by number, or on SR Linux an insertion, can remove a rule that was reported
  as applied, and nobody is told.
- `NotAppliedMeansRestored`: the rule of a change that was rolled back is gone. That the device is
  as it was before (`execute/device.py`) is more than it says, for the same reason.
- `LossLeavesATrace`: the way in which a start hides a loss (below) needs a rotation marker;
  without one, a loss that production runs on can be read off the counts in the anchor file.
- `ReadingAgrees`: for every flow with no unmodelled rule above its match, the rules read give the
  device's verdict, whichever of the commands that read definitions failed. It is stated for
  entries in the syntax the parsers claim (`KnownSyntax`); the exceptions are listed below.
- `FreshUnlessOverlapped`: nothing but a read that another thread holds across the refresh makes a
  refreshed policy old.
- `SimulationAgrees`: it is stated of proposals the device takes at the line where the simulator put
  them (`SameLine`), of numbers IOS and EOS do not refuse, and of rules the policy does not have yet.
- `NothingElseOpened`: it is stated for a change that carried the flow in its simulation; what is
  passed because the flow was permitted anyway is listed below. An entry overwritten on SR Linux may
  have denied more than the evidence, and what it denied is opened too
  (`DecidedByOverwritten`), be it an operator's entry that took the number since the simulation or one
  that was there already, in front of which the simulator inserted.
- `GraphHeals`: whatever failed, the next ingest that runs alone makes the graph NetBox's again.
  Two ingests that for ever write over each other are excluded, not prevented.
- `HungCallsBounded`: the breaker bounds the calls a hanging provider collects by its threshold, the
  jobs and the retries, and by all jobs once more for each half-open window.

### Fairness

`FairSpec` of `JobQueue` assumes that a worker that is up keeps polling (`run_forever`), that a
stopped or crashed one is started again (compose's restart policy), that each coroutine gets to
its end (model calls and device sessions have timeouts), and that time passes: an unbeaten lease
lapses and a delayed row becomes ready. Nothing is assumed of the API, the heartbeats or the
faults; those are bounded in number, and `EveryJobSettles` speaks of what happens after the last.
Weak fairness suffices: a worker that is between polls can always poll.

`FairSpec` of `ApprovalFlow` assumes weak fairness of each resume job's own steps, which is what
`EveryJobSettles` gives the flow; the model's turns are not fair (it may talk for ever), so
`ApprovalsAreExecuted` says that an approval needs none of them, and `RejectionsAreHeard` that a
rejection needs none to reach the specialist.

`FairSpec` of `TopologyGraph` assumes that a process's next step comes: a process that is down is
started again (the restart policy), statements and pages end, and the loop's interval passes; it
survives every exception (`main.py:311`). Failures, crashes and NetBox's changes are not fair and
bounded in number.

`FairSpec` of `CircuitBreaker` assumes that time passes, that an attempt ends (by its timeout at the
latest), and that jobs keep calling. The provider is under no assumption; `Recovers` speaks of one
that is well from some moment on.

### Findings

| Run | What the code does | Where it says otherwise |
| --- | --- | --- |
| `flow_stale` | An approval executes the proposal that is pending when its job gets there, which need not be the one in its sealed evidence: two people decide on the same proposal, the rejection runs first, the specialist proposes anew. | `docs/how-it-works.md:77`, `graph/nodes.py:371` |

Other places in which the code and its documents, or the code and the devices, differ. No run is
kept for them; the runs' properties are stated so as to leave them out, at the place named.

- `execute/device.py:65` empties a dict of sessions all threads of the process share; with two
  changes at once a session may never be closed (`docs/how-it-works.md:281`). `exec_serial` checks
  `SessionsClosed` for one change at a time.
- `jobs/worker.py:93-103` with `jobs/store.py:265`: when `complete()` commits and loses its reply, the
  except clause requeues or buries the job that is done. `CapacityOvershootBounded`,
  `SettledStaysSettled` and `RevivedOnlyAfterLoss` count it. What keeps a change from being repeated
  then is the checkpoint and `apply_once`.
- `execute/idempotent.py:96`: when a lease lapses under a thread at work, two deliveries of one
  approval can both find the rule missing and both send it (`docs/how-it-works.md:78`).
  The executor's properties leave out changes whose lease lapsed.
- `execute/render.py:67` and `:91-96`: removal by number on EOS and SR Linux, and insertion on SR Linux,
  take away whatever entry has the number: another change's applied rule ("struck"), or an
  operator's. "The device is back in its previous state" (`execute/device.py`) is then not so.
- `firewall/asa.py:353`: the executor's reads too may be older ones that another thread held across the
  refresh. A replay can miss its landed rule and send it again ("unseen"), and an outcome be judged
  by what is no longer so ("misjudged").
- `execute/device.py:147`: the reversal covers actions that were skipped because their rule was there
  before (`NewRules` excludes it, and `ReversalRestores` takes a device without the rule).
  A shadowed rule that is there already is skipped, found not to work, and removed.
- `routers/audit.py:60` reads the records before the anchor, and an append in between looks like a
  deletion (`docs/how-it-works.md:374`); hence `AlarmsOnlyShort`.
- `main.py:390`: a start with a new key anchors whatever it finds before it verifies it
  (`docs/how-it-works.md:388`); hence the conditions of `LossLeavesATrace`.
- `verify.py:338` judges the breadth of a rule only when the flow's first match is that rule: where
  the policy, read again, permits the flow already, a proposal that permits everything is passed
  (`docs/how-it-works.md:183`); hence `Carries` in `NothingElseOpened`.
- `tools/topology.py:243`: refusals are counted over the whole incident and never reset, so that a
  later proposal may be queued unverified at once; the gate (`execute/guard.py`) refuses to send it.
- The compensating reversal the simulator accepts can never be confirmed by
  `execute/live.py:102`, which looks for the absence of the rule.
- `execute/render.py:88-94`: SR Linux takes its number from the position, while the simulation prefers
  the one stated in the text (`verify.py:292`); given both, IOS and EOS print two numbers and send a
  command the device does not take (`render.py:54`, `:73`). `SameLine` leaves such proposals out.
- Parsers (`KnownSyntax` leaves these out). ASA: a destination port given by an unknown group is
  read as every port and its definition never fetched (`firewall/asa.py:135`), against
  `asa.py:331`; a service group with bare protocols and ports (`service-object tcp` beside
  `service-object tcp destination eq 443`) is read as the ports only, and one of several protocols
  as every protocol with every port (`asa.py:175`, `objectgroup.py:130`), though the first admits
  more and the second less; a source port is read as the destination's; `inactive` is ignored. IOS: a wildcard
  that is no prefix is misread (`ios.py:41`), an unknown service name is any port (`ios.py:84`), and
  `established`, fragments and time ranges are dropped, on EOS too. SR Linux: a port range is any
  port.
- `firewall/asa.py:353`: a read that another thread held across a refresh is stored after it, so that
  the refreshed caller gets the older policy, or a KeyError. `asa.py:348` does not clear the
  translations, and `asa.py:404` caches a failed read of them as a device without any; `NatTold`
  speaks of those that were read. On EOS and SR Linux the assessment raises a TypeError, which
  `verify.py` takes for a backend without translations.
- `jobs/resilience.py:37`: "Half-open: one probe is allowed", while every caller is let through until
  a result is recorded; `HungCallsBounded` counts them all.
- `main.py:590`: a process that remembers the freshness of an earlier ingest reports no degradation
  when another process's failed ingest has left the graph without metadata (`main.py:598`). A
  degradation noted by the first ingest at start stays for the life of the process.

## 4. Proofs

All theorems hold for any values of the constants that satisfy the modules' named assumptions, thus
for any number of jobs, workers, decisions, changes, threads, processes, calls and faults. Where a
theorem needs more, the hypothesis is part of its statement.

- `JobQueueProofs`. `QueueInv` adds to the properties what a coroutine knows of its row: the row
  has reached its attempt (`TasksBehindRows`), and until the first reclaim it is the row's current
  one, and the row is running or was settled by this coroutine without its hearing of it
  (`UnreclaimedIsCurrent`, `SettledUnheard`). Without the first, a claim could repeat an attempt
  number; without the second, `RevivedOnlyAfterLoss` is not inductive, since nothing says that a
  coroutine that settles a settled row must have lost its lease or a reply. For `MaxLapses = 0`,
  `TasksHoldLiveLeases` is inductive beside it and gives `ExclusiveRun` and `SettledStaysSettled`.
  `AttemptsAreBounded` holds however leases lapse. It is an account (`AttemptBudget`): the attempts
  of a row, the claim it waits for, and the attempts whose late `fail()` can still requeue it
  (`MayRequeue`, a set of numbers below `MaxAttempts`) never exceed `MaxAttempts` and one for each
  lease reclaimed. A claim is paid by the row that waited, a requeue by a number that leaves
  `MayRequeue`, a reclaim by itself.
  `OvershootBounded` (`MaxLapses = 0`): the open jobs that were admitted (`AdmittedKeys`, those with
  a lost reply are counted apart) and the requests that may still insert (`Admissible`) stay below
  the capacity and the number of requests (`RoomKept`), because a request that reads a
  full queue inserts nothing and nothing but an insert adds an admitted row. With a late `fail()`
  that requeues a settled job it is false.
  `ImplementsDelivery` (`MaxLapses = 0`) is the refinement: every statement of the queue is a step of
  `JobDelivery` or none. A job is held while a coroutine has it (`InHands`), so that a `complete()`
  whose reply is lost is a stutter, and the `fail()` after it gives the job up.
- `ApprovalFlowProofs`. `FlowInv`: jobs carry decisions sealed before the jobs existed, runs belong
  to held jobs, and the executions the thread and its copies remember took place. Together they
  carry `NoUnapprovedExecution` through `Execute`, and `RecordsTellWhatHappened` through
  `Record`, which reads a thread any run may have written.
  `ApprovedIsExecuted` needs `Ledgered`, `DecideOnce` and `MaxGiveUps = 0`, and each of the three is
  necessary: `flow_stale` is what happens without the second, and without the third a start job that
  is delivered again makes a new proposal under a decision that is waiting. Its invariant
  (`DecidedInv`) says who may move the thread: the start job goes first (`BeforeTheStart`), at most
  one run is under way (`OneDriver`), a decision that waits has the thread stand still at its own
  proposal (`ThreadWaits`), a run past the interrupt carries the proposal it was decided on
  (`DriversDrive`), and each decision is carried out once (`AppliedOnce`).
  `UsesDelivery`: whatever the endpoints and the runs do, the jobs go through the queue as
  `JobDelivery` says. With `ImplementsDelivery` this puts the flow on the queue: the flow needs no
  more of it than `JobDelivery`, and the queue gives that while leases are kept.
- `DeviceExecutionProofs`. `ExecInv` says that every remembered outcome is true of the device, as far
  as its change was spared (`Truthful`, `MemoryIsTruthful`), and of a change whose lease held that it
  is in one thread's hands (`OneAttempt`), that pending writes to the table agree with the cache, and
  what the program position of the thread lets it rely on (`AloneAtWork`): between `lookup` and
  `return` nobody has stored or told an outcome, and at `send` the rule is not there unless it was
  unseen. The exemptions are per change, so that a lapse or a misread of one says nothing of the
  others; there is no assumption on the number of lapses. The theorems need that no two changes
  add the same rule (`DistinctRules`), and those that speak of an absent rule that it was not there
  before (`NewRules`): `_revert` sends the reversal of every action, the skipped ones too
  (`execute/device.py:147`), so that a rule that was on the device before, hidden by an earlier
  one, is removed by a change that did not send it and is then reported as rolled back.
  `CommandDoes` is what a command can do to the rule of its own change and to any other, and
  `DeviceStep` that the loss of another's rule is always marked. `AutoRollback` is arbitrary in the
  proofs. `ImplementsPromise` (`OutcomesAreFinal`) uses the same invariant: a command is sent only by a
  thread that has the change in its hands, while no outcome was told of it or it was delivered twice
  (`CommandAlters`), a thread returns with the first outcome, which is true or in doubt
  (`ReturnTells`), and reads and lapses only add doubts (`DoubtStep`). `ChangesAreAccountedFor`
  (`NothingLeftBehind`) needs none of `ExecInv`, only `NewRules`: without faults nothing raises,
  and a thread lets go of its change only by telling its outcome (`SurelyTold`).
  `OneThreadCloses` proves the session property for a process with one thread, with any number
  of lapses: losing a session needs concurrency.
- `AuditLedgerProofs`. `LedgerInv`: a call's knowledge is still true (`CallsOK`: the head and the
  count while it holds the lock, the place of its record after that, and that what it listed is a
  beginning of the table, which holds because restores happen with everything down); keys and
  hashes are bounded by what was given out, and the dump is a beginning of the table (`LedgerOK`);
  the last record has the current key once a process is past its rotation marker (`KeysOK`); and
  in production the latest anchor speaks for all when counts increase and no marker came before it
  (`LatestSpeaksForAll`). The one lemma that does most of the work is `QuietStep`: a step that
  changes one call, and extends the table only under the lock, leaves the others' knowledge true.
  `Rolling` is arbitrary in the proofs; `KeyChangesMarked` and `AlarmsOnlyShort` are stated for
  rotations with everything down.

- `ChangeSimulationProofs`. `IInv` says what the policy simulated has to do with the change in hand:
  the lines of the device stay below a bound, evidence is one denied flow, what is verified passed
  the simulation on the policy it carries (`VerifiedOk`), nothing goes past the gate but what passes
  it on the policy read again (`Gated`), and nothing was sent before (`Unsent`). The three action
  properties follow from it and from what insertion and removal do to the order of the lines;
  `OpenedByOverwriting` is what taking an entry's place can open beyond the new rule: a flow nothing
  above that entry matched.
- `FirewallBackendProofs`. `RefreshedIsFresh`: a thread that refreshed while nobody held a read relies
  on every time in the caches and in other threads' hands being one after its refresh (`Reliance`);
  `Keeps` shows that no step brings an earlier one.
  `TranslationsAreTold`: `NatInv` says that what a thread judges by and what is cached come from
  moments the device has been through (`NatRead`), and that once "clear" was said no translation
  touches the flow while the objects are as they were (`Untouched`). What is left is about one
  operand: an object stands for its one line, so that `Expand` is complete or has no networks
  (`ObjectMeans`), and an operand that covers nothing for certain is told (`NotCovered`).
  `PoliciesAreReal` says the same of policies, for every device and without a bound on how its groups
  nest. An expansion that says it is complete is all the device means by the name
  (`CompleteExpansion`), whichever definitions were read, because every name it came to is known and
  was read of the same device. So each reader takes an end, a port or a service for what it means or
  gives the entry up (`AsaReads`, `IosReads`, `EosReads`, `SrlReads`); an element of an entry is
  printed like an entry and stands for itself (`ElementsArePrinted`); so the rules of an entry match
  what the entry admits, unless one is unparsed (`EntryAgrees`). Where no unparsed rule is above the
  first match, the first rule and the first entry are at the same place (`VerdictAgrees`). The only
  invariant it needs is that what a thread has in hand was read (`ReadMade`).
  `Reached` is a recursive function. The library's induction theorems cannot be used, as they take
  an operator; `NaturalInduction` is induction for sets of numbers, which follows from the
  well-foundedness of the naturals and is enough for functions.
- `TopologyGraphProofs`. `GraphInv`: while the graph is not torn there is one writer (`OneWriter`),
  what it has still to write together with the graph is the inventory it read (`WriterOnItsWay`), and
  what is in the graph is of one reading or of the lab (`OfOneReading`). `MetaIsComplete` follows
  because metadata is written when nothing is left; that a statement always finds what its MATCH
  looks for is what the order of the statements is for (`TurnIsReady`): were an edge written before
  its ends, it would be skipped in silence and the metadata would vouch for an incomplete graph.
  `AnswersAlwaysReal` follows because paths and pairs of zones only grow with the graph.
- `CircuitBreakerProofs`. An argument of credit: `Left` has a pair for each attempt that can be made
  before somebody else's result is needed, and the hung calls together with `Left` never exceed the
  credit that failures and half-open windows have given (`Budget`). A call that hangs takes a pair
  from `Left`; one that gives up may give its job a new row, for which a failure is counted, until
  the circuit opens and counts no more.

TLC checked each inductive invariant as an invariant of a small instance before it was proved.

Every safety property the passing runs check is proved. Only model-checked are the five liveness
properties, `EveryJobSettles`, `ApprovalsAreExecuted`, `RejectionsAreHeard`, `GraphHeals` and
`Recovers`: they rest on fairness, hence on ENABLED, which the prover does not handle. Not proved
either is that the model is the code: the reading of what devices print, hashes, and the text of
commands are abstracted as section 2 says.

## 5. Not modelled

Section 1 names every part. Left out altogether: change windows (pure functions of a date; whether
one is open is a free choice in `ApprovalFlow`), login counters (planned), the secret cache, token
and password cryptography, parsing of alert payloads, model adapters, evaluation, metrics, the web
application and deployment.

Inside the modelled parts:

- `DeviceExecution` is one process; two worker processes share the device and the table but not the
  executor. Entries that are no change's rule, and so what a removal by number does to them, are not
  in it.
- `ChangeSimulation` has one source, destination and port to a rule, leaves translation out (it only
  adds refusals), and a device whose other platforms are described by the way they take numbers.
- `FirewallBackend` leaves out the text of commands and the pool of SSH connections.
- `TopologyGraph` takes the pages of one NetBox listing to be of one moment (`netbox.py:103-116` reads
  them one by one; devices and interfaces are two moments). It replaces and never merges
  (`topology_replace_on_ingest`), has no sites and no addresses, and no clock for the age of the
  inventory; the in-memory store is left out.
- `CircuitBreaker` lets a call begun while the provider is well be answered, and takes hung threads
  to be gone with the next answer.

## 6. Plan

1. `LoginCounters` (`auth/store.py`, `auth/ratelimit.py`, `routers/auth.py`): failures counted and
   cleared while passwords are hashed in threads, windows, replayed second factors.
2. `ChangeSchedule` (`schedule.py`): windows over midnight and freezes, as operators against a
   definition by minutes of the week.
3. `MemoryQueue`: the in-memory dispatcher as a second implementation of `JobDelivery`.
4. Proofs: the pieces a liveness argument consists of, as safety: that a queued job whose attempts are
   spent is not queued again, that every ingest that is not disturbed shortens what is left to write,
   and that the circuit's age only stops at its reset.

The set of runs is kept small, one for each question; a module that is added with a question of its
own may take over a run that shows a variant of another.
