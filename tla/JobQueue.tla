------------------------------ MODULE JobQueue ------------------------------
(***************************************************************************)
(* The durable investigation queue: the table investigation_jobs and the   *)
(* statements that change it (app/jobs/store.py), the dispatcher the API   *)
(* enqueues through (app/jobs/dispatcher.py, PostgresDispatcher) and the   *)
(* workers that lease, run and settle the jobs (app/jobs/worker.py).       *)
(*                                                                         *)
(* The pool runs in autocommit, so each SQL statement is one atomic step   *)
(* and anything may happen between two statements of one Python method.    *)
(* A statement that raises has had no effect, or has committed and lost    *)
(* its reply.  Where the second is what another action followed by the end *)
(* of the process or coroutine does (a claim, an INSERT, fail(), a         *)
(* heartbeat), it is left to those steps; complete() has it of its own,    *)
(* since the except clause goes on to fail().                              *)
(* A row is identified by its dedupe key; `id' only orders the claims.     *)
(* Clocks are abstract: a lease is live or lapsed, a queued row is ready   *)
(* or still delayed, and the passing of time is an action of its own.      *)
(***************************************************************************)
EXTENDS Naturals, FiniteSets

CONSTANTS
    Keys,          \* dedupe keys: "start:<thread>", "resume:<thread>:<hash>"
    Workers,       \* worker ids
    Producers,     \* API requests that may be enqueuing at the same time
    NoOwner,       \* lease_owner NULL
    Capacity,      \* settings.queue_capacity
    MaxAttempts,   \* settings.job_max_attempts, stored in every row
    Concurrency,   \* settings.worker_concurrency
    MaxLapses,     \* bound: leases that lapse although a task still beats,
                   \*        and heartbeat loops ended by a database error
    MaxDbErrors,   \* bound: complete() and fail() calls that raise
    MaxRestarts    \* bound: worker crashes and requested stops

ASSUME QueueAssumption ==
    /\ NoOwner \notin Workers
    /\ Capacity \in Nat \ {0}
    /\ MaxAttempts \in Nat \ {0}
    /\ Concurrency \in Nat \ {0}
    /\ MaxLapses \in Nat /\ MaxDbErrors \in Nat /\ MaxRestarts \in Nat
    /\ IsFiniteSet(Producers)

VARIABLES
    rows,       \* the table, by dedupe key ("absent" before the INSERT)
    nextId,     \* the sequence behind the id column
    calls,      \* _enqueue calls of the API, between their statements
    tasks,      \* _run_claimed coroutines of the workers
    polling,    \* per worker: where run_forever is
    stopping,   \* workers whose _stop event is set
    lapses, dbErrors, restarts,   \* faults so far, capped by the bounds
    reclaims,   \* history: per key, how often an expired lease was reclaimed
    lostReplies \* history: per key, how often complete() committed and raised

queueVars == <<rows, nextId, calls, tasks, polling, stopping,
               lapses, dbErrors, restarts, reclaims, lostReplies>>
faults == <<lapses, dbErrors, restarts>>

Status == {"absent", "queued", "running", "succeeded", "dead"}
Active == {"queued", "running"}
Terminal == {"succeeded", "dead"}

Row == [id : Nat, status : Status, attempts : Nat,
        owner : Workers \cup {NoOwner}, lease : {"none", "live", "lapsed"},
        ready : BOOLEAN, error : {"", "lease expired", "raised"}]

Call == [from : Producers, key : Keys, at : {"lookup", "insert"}, full : BOOLEAN]

Task == [worker : Workers, key : Keys, attempt : Nat \ {0},
         at : {"run", "complete", "fail"}, beats : BOOLEAN]

TypeOK ==
    /\ rows \in [Keys -> Row]
    /\ nextId \in Nat \ {0}
    /\ calls \subseteq Call
    /\ tasks \subseteq Task
    /\ polling \in [Workers -> {"poll", "claim", "down"}]
    /\ stopping \subseteq Workers
    /\ lapses \in Nat /\ dbErrors \in Nat /\ restarts \in Nat
    /\ reclaims \in [Keys -> Nat]
    /\ lostReplies \in [Keys -> Nat]

AbsentRow == [id |-> 0, status |-> "absent", attempts |-> 0, owner |-> NoOwner,
              lease |-> "none", ready |-> FALSE, error |-> ""]

\* What the statements write into a row.
Inserted(n) == [AbsentRow EXCEPT !.id = n, !.status = "queued", !.ready = TRUE]
\* Mutant: attempts are left for the failure to count.
LeasedUncounted(r, w) == [r EXCEPT !.status = "running", !.owner = w,
                                   !.lease = "live", !.error = ""]

Leased(r, w) == [r EXCEPT !.status = "running", !.attempts = r.attempts + 1,
                          !.owner = w, !.lease = "live", !.error = ""]

\* Mutant: the reclaim clears the lease and leaves the row running.
ReclaimedRunning(r) == [r EXCEPT !.owner = NoOwner, !.lease = "none", !.ready = TRUE]

Reclaimed(r) == [r EXCEPT !.status = "queued", !.owner = NoOwner, !.lease = "none",
                   !.ready = TRUE, !.error = IF @ = "" THEN "lease expired" ELSE @]
Succeeded(r) == [r EXCEPT !.status = "succeeded", !.owner = NoOwner, !.lease = "none"]

\* Mutant: a status the table and its readers do not know.
BuriedFailed(r) == [r EXCEPT !.status = "failed", !.owner = NoOwner, !.lease = "none",
                             !.error = "raised"]

Buried(r) == [r EXCEPT !.status = "dead", !.owner = NoOwner, !.lease = "none",
                       !.error = "raised"]
Requeued(r) == [r EXCEPT !.status = "queued", !.owner = NoOwner, !.lease = "none",
                         !.error = "raised", !.ready = FALSE]
WithLease(r, l) == [r EXCEPT !.lease = l]
Available(r) == [r EXCEPT !.ready = TRUE]

Init ==
    /\ rows = [k \in Keys |-> AbsentRow]
    /\ nextId = 1
    /\ calls = {}
    /\ tasks = {}
    /\ polling = [w \in Workers |-> "poll"]
    /\ stopping = {}
    /\ lapses = 0 /\ dbErrors = 0 /\ restarts = 0
    /\ reclaims = [k \in Keys |-> 0]
    /\ lostReplies = [k \in Keys |-> 0]

-----------------------------------------------------------------------------
(* The API side: _enqueue is three statements.                             *)

QueueDepth == Cardinality({k \in Keys : rows[k].status \in Active})

\* Mutant: the capacity test is off by one.
NewCallOffByOne(p, k) == [from |-> p, key |-> k, at |-> "lookup",
                          full |-> QueueDepth > Capacity]

NewCall(p, k) == [from |-> p, key |-> k, at |-> "lookup", full |-> QueueDepth >= Capacity]

\* Past the lookup nobody looks at the depth that was read.
Admitted(c) == [c EXCEPT !.at = "insert", !.full = FALSE]

ReadDepth(p, k) ==
    /\ \A c \in calls : c.from # p
    /\ calls' = calls \cup {NewCall(p, k)}
    /\ UNCHANGED <<rows, nextId, tasks, polling, stopping, faults, reclaims, lostReplies>>

\* SELECT by dedupe key, then QueueFull (the call ends) or on to the INSERT.
LookUp(c) ==
    /\ c.at = "lookup"
    /\ calls' = IF rows[c.key].status = "absent" /\ c.full
                THEN calls \ {c}
                ELSE (calls \ {c}) \cup {Admitted(c)}
    /\ UNCHANGED <<rows, nextId, tasks, polling, stopping, faults, reclaims, lostReplies>>

\* Mutant: ON CONFLICT puts the row back in the queue.
InsertRequeues(c) ==
    /\ c.at = "insert"
    /\ calls' = calls \ {c}
    /\ rows' = [rows EXCEPT ![c.key] = Inserted(nextId)]
    /\ nextId' = nextId + 1
    /\ UNCHANGED <<tasks, polling, stopping, faults, reclaims, lostReplies>>

\* INSERT ... ON CONFLICT (dedupe_key) hands back the row that is there.
Insert(c) ==
    /\ c.at = "insert"
    /\ calls' = calls \ {c}
    /\ \/ /\ rows[c.key].status = "absent"
          /\ rows' = [rows EXCEPT ![c.key] = Inserted(nextId)]
          /\ nextId' = nextId + 1
       \/ /\ rows[c.key].status # "absent"
          /\ UNCHANGED <<rows, nextId>>
    /\ UNCHANGED <<tasks, polling, stopping, faults, reclaims, lostReplies>>

-----------------------------------------------------------------------------
(* A worker's loop: while it has a free slot it calls claim(), which is    *)
(* reclaim_expired and then claim_next, two statements.                    *)

TasksOf(w) == {t \in tasks : t.worker = w}

\* Mutant: a running row is reclaimed whether or not its lease has lapsed.
ExpiredAnyRunning(k) == rows[k].status = "running"

Expired(k) == rows[k].status = "running" /\ rows[k].lease = "lapsed"

ReclaimExpired(w) ==
    /\ polling[w] = "poll"
    /\ w \notin stopping
    /\ Cardinality(TasksOf(w)) < Concurrency
    /\ rows' = [k \in Keys |-> IF Expired(k) THEN Reclaimed(rows[k]) ELSE rows[k]]
    /\ reclaims' = [k \in Keys |-> reclaims[k] + (IF Expired(k) THEN 1 ELSE 0)]
    /\ polling' = [polling EXCEPT ![w] = "claim"]
    /\ UNCHANGED <<nextId, calls, tasks, stopping, faults, lostReplies>>

\* Mutant: the claim looks at available_at alone, as long as nobody runs the job.
ClaimableWhateverStatus == {k \in Keys : rows[k].status # "running" /\ rows[k].ready}

\* Mutant: the claim forgets the status altogether.
ClaimableEvenRunning == {k \in Keys : rows[k].status \in Active /\ rows[k].ready}

Claimable == {k \in Keys : rows[k].status = "queued" /\ rows[k].ready}

NewTask(w, k) == [worker |-> w, key |-> k, attempt |-> rows[k].attempts + 1,
                  at |-> "run", beats |-> TRUE]

ClaimNext(w, k) ==
    /\ polling[w] = "claim"
    /\ k \in Claimable
    /\ \A j \in Claimable : rows[k].id <= rows[j].id
    /\ rows' = [rows EXCEPT ![k] = Leased(rows[k], w)]
    /\ tasks' = tasks \cup {NewTask(w, k)}
    /\ polling' = [polling EXCEPT ![w] = "poll"]
    /\ UNCHANGED <<nextId, calls, stopping, faults, reclaims, lostReplies>>

ClaimNone(w) ==
    /\ polling[w] = "claim"
    /\ Claimable = {}
    /\ polling' = [polling EXCEPT ![w] = "poll"]
    /\ UNCHANGED <<rows, nextId, calls, tasks, stopping, faults, reclaims, lostReplies>>

-----------------------------------------------------------------------------
(* A claimed job: _run_claimed and its _heartbeat_loop.                    *)

At(t, where) == [t EXCEPT !.at = where]
Silent(t) == [t EXCEPT !.beats = FALSE]
Replace(t, u) == tasks' = (tasks \ {t}) \cup {u}

\* A lost lease only ends the heartbeat loop; the job goes on running.
Heartbeat(t) ==
    /\ t.beats
    /\ \/ /\ rows[t.key].status = "running" /\ rows[t.key].owner = t.worker
          /\ rows' = [rows EXCEPT ![t.key] = WithLease(rows[t.key], "live")]
          /\ UNCHANGED tasks
       \/ /\ ~(rows[t.key].status = "running" /\ rows[t.key].owner = t.worker)
          /\ Replace(t, Silent(t))
          /\ UNCHANGED rows
    /\ UNCHANGED <<nextId, calls, polling, stopping, faults, reclaims, lostReplies>>

\* The heartbeat statement raises: the loop's task is over, the job is not.
HeartbeatError(t) ==
    /\ t.beats
    /\ lapses < MaxLapses
    /\ lapses' = lapses + 1
    /\ Replace(t, Silent(t))
    /\ UNCHANGED <<rows, nextId, calls, polling, stopping, dbErrors, restarts,
                   reclaims, lostReplies>>

\* runner.run_job returns, or raises.
RunJob(t) ==
    /\ t.at = "run"
    /\ \E where \in {"complete", "fail"} : Replace(t, At(t, where))
    /\ UNCHANGED <<rows, nextId, calls, polling, stopping, faults, reclaims, lostReplies>>

Complete(t) ==
    /\ t.at = "complete"
    /\ rows' = [rows EXCEPT ![t.key] = Succeeded(rows[t.key])]
    /\ tasks' = tasks \ {t}
    /\ UNCHANGED <<nextId, calls, polling, stopping, faults, reclaims, lostReplies>>

\* complete() raises inside the try block, so the job that ran is failed.  The
\* pool is in autocommit: the UPDATE may be in the table when the reply is lost.
CompleteError(t) ==
    /\ t.at = "complete"
    /\ dbErrors < MaxDbErrors
    /\ dbErrors' = dbErrors + 1
    /\ Replace(t, At(t, "fail"))
    /\ \/ UNCHANGED <<rows, lostReplies>>
       \/ /\ rows' = [rows EXCEPT ![t.key] = Succeeded(rows[t.key])]
          /\ lostReplies' = [lostReplies EXCEPT ![t.key] = @ + 1]
    /\ UNCHANGED <<nextId, calls, polling, stopping, lapses, restarts, reclaims>>

\* Mutants: the comparison with max_attempts is off by one, either way.
SpentTooLate(t) == t.attempt > MaxAttempts
SpentTooSoon(t) == t.attempt >= MaxAttempts - 1

Spent(t) == t.attempt >= MaxAttempts

\* fail_job judges by the attempt the task was claimed with, not the row's.
Fail(t) ==
    /\ t.at = "fail"
    /\ \/ /\ Spent(t)
          /\ rows' = [rows EXCEPT ![t.key] = Buried(rows[t.key])]
       \/ /\ ~Spent(t)
          /\ rows' = [rows EXCEPT ![t.key] = Requeued(rows[t.key])]
    /\ tasks' = tasks \ {t}
    /\ UNCHANGED <<nextId, calls, polling, stopping, faults, reclaims, lostReplies>>

\* fail() raises: the coroutine ends and the row is left as it was (leased until
\* the lease lapses; with the UPDATE committed the step is Fail).
FailError(t) ==
    /\ t.at = "fail"
    /\ dbErrors < MaxDbErrors
    /\ dbErrors' = dbErrors + 1
    /\ tasks' = tasks \ {t}
    /\ UNCHANGED <<rows, nextId, calls, polling, stopping, lapses, restarts,
                   reclaims, lostReplies>>

-----------------------------------------------------------------------------
(* Time passing: leases lapse, delayed rows become available.              *)

Beaten(k) == \E t \in tasks : t.key = k /\ t.worker = rows[k].owner /\ t.beats

LapseUnbeaten(k) ==
    /\ rows[k].status = "running" /\ rows[k].lease = "live"
    /\ ~Beaten(k)
    /\ rows' = [rows EXCEPT ![k] = WithLease(rows[k], "lapsed")]
    /\ UNCHANGED <<nextId, calls, tasks, polling, stopping, faults, reclaims, lostReplies>>

\* The holder is alive but its heartbeat comes late (a blocked event loop, a
\* slow database): lease_seconds go by first.
LapseLate(k) ==
    /\ rows[k].status = "running" /\ rows[k].lease = "live"
    /\ Beaten(k)
    /\ lapses < MaxLapses
    /\ lapses' = lapses + 1
    /\ rows' = [rows EXCEPT ![k] = WithLease(rows[k], "lapsed")]
    /\ UNCHANGED <<nextId, calls, tasks, polling, stopping, dbErrors, restarts,
                   reclaims, lostReplies>>

BecomeAvailable(k) ==
    /\ rows[k].status = "queued" /\ ~rows[k].ready
    /\ rows' = [rows EXCEPT ![k] = Available(rows[k])]
    /\ UNCHANGED <<nextId, calls, tasks, polling, stopping, faults, reclaims, lostReplies>>

-----------------------------------------------------------------------------
(* Worker processes: killed, asked to stop, drained, started again.        *)

\* A kill, an exception out of run_forever, or the cancellation of an embedded
\* worker: its coroutines are gone and its rows stay leased to it.
Crash(w) ==
    /\ polling[w] # "down"
    /\ restarts < MaxRestarts
    /\ restarts' = restarts + 1
    /\ tasks' = tasks \ TasksOf(w)
    /\ polling' = [polling EXCEPT ![w] = "down"]
    /\ stopping' = stopping \ {w}
    /\ UNCHANGED <<rows, nextId, calls, lapses, dbErrors, reclaims,
                   lostReplies>>

RequestStop(w) ==
    /\ polling[w] # "down" /\ w \notin stopping
    /\ restarts < MaxRestarts
    /\ restarts' = restarts + 1
    /\ stopping' = stopping \cup {w}
    /\ UNCHANGED <<rows, nextId, calls, tasks, polling, lapses, dbErrors, reclaims,
                   lostReplies>>

\* run_forever left its loop and gathered the jobs in flight.
Stopped(w) ==
    /\ w \in stopping /\ polling[w] = "poll"
    /\ TasksOf(w) = {}
    /\ polling' = [polling EXCEPT ![w] = "down"]
    /\ stopping' = stopping \ {w}
    /\ UNCHANGED <<rows, nextId, calls, tasks, faults, reclaims, lostReplies>>

Start(w) ==
    /\ polling[w] = "down"
    /\ polling' = [polling EXCEPT ![w] = "poll"]
    /\ UNCHANGED <<rows, nextId, calls, tasks, stopping, faults, reclaims, lostReplies>>

-----------------------------------------------------------------------------
Enqueue ==
    \/ \E p \in Producers, k \in Keys : ReadDepth(p, k)
    \/ \E c \in calls : LookUp(c) \/ Insert(c)

Poll(w) == ReclaimExpired(w) \/ ClaimNone(w) \/ (\E k \in Keys : ClaimNext(w, k))

\* The steps of a coroutine that end it sooner or later.
RunTask(t) == RunJob(t) \/ Complete(t) \/ CompleteError(t) \/ Fail(t) \/ FailError(t)

Clock(k) == LapseUnbeaten(k) \/ LapseLate(k) \/ BecomeAvailable(k)

Process(w) == Crash(w) \/ RequestStop(w) \/ Stopped(w) \/ Start(w)

Next ==
    \/ Enqueue
    \/ \E w \in Workers : Poll(w) \/ Process(w)
    \/ \E t \in tasks : RunTask(t) \/ Heartbeat(t) \/ HeartbeatError(t)
    \/ \E k \in Keys : Clock(k)

Spec == Init /\ [][Next]_queueVars

(***************************************************************************)
(* Fairness: run_forever polls for as long as the process lives, a process *)
(* that is down is started again (compose restarts the worker service),    *)
(* every coroutine ends (the model calls and the device sessions it waits  *)
(* for have timeouts) and time passes.  Nothing is assumed of the API, of  *)
(* the heartbeats or of the faults.                                        *)
(***************************************************************************)
Fairness ==
    /\ \A w \in Workers : /\ WF_queueVars(Poll(w))
                          /\ WF_queueVars(Stopped(w))
                          /\ WF_queueVars(Start(w))
    /\ \A w \in Workers, k \in Keys :
          WF_queueVars(\E t \in tasks : t.worker = w /\ t.key = k /\ RunTask(t))
    /\ \A k \in Keys : WF_queueVars(LapseUnbeaten(k) \/ BecomeAvailable(k))

FairSpec == Spec /\ Fairness

-----------------------------------------------------------------------------
(* Properties.                                                             *)

\* A job is claimed at most MaxAttempts times plus once per lease that was
\* reclaimed: late fail() calls of workers that lost their lease, which requeue
\* by the attempt they started with, cannot make it run on (store.fail_job).
AttemptsBounded ==
    \A k \in Keys : rows[k].attempts <= MaxAttempts + reclaims[k]

\* A dead letter spent its attempts: no interleaving of late fail() calls and
\* reclaims buries a job that was claimed fewer than MaxAttempts times, and
\* latest_error then has an error to show (store.fail_job, latest_error).
DeadLetterSpent ==
    \A k \in Keys : rows[k].status = "dead" =>
        rows[k].attempts >= MaxAttempts /\ rows[k].error = "raised"

\* A running row's lease belongs to the worker that made the newest claim, and
\* no two coroutines ever carry the same attempt of a job, however leases lapse
\* and workers fail late ("without double-claiming", store.py docstring).
NewestClaimHoldsLease ==
    /\ \A k \in Keys : rows[k].status = "running" =>
          \A t \in tasks : t.key = k /\ t.attempt = rows[k].attempts
                             => t.worker = rows[k].owner
    /\ \A t, u \in tasks : t.key = u.key /\ t.attempt = u.attempt => t = u

\* While heartbeats keep their leases (MaxLapses = 0) a job is in the hands of
\* one coroutine at a time, through crashes, drains and failing settlements.
ExclusiveRun ==
    \A t, u \in tasks : t.key = u.key => t = u

\* _enqueue checks the depth and inserts in separate statements, so concurrent
\* requests overshoot the capacity, but while heartbeats keep their leases never
\* by a whole request more; beyond that only jobs whose complete() lost its reply
\* come back without being admitted again (worker._run_claimed).
CapacityOvershootBounded ==
    QueueDepth <= Capacity + Cardinality(Producers) - 1
                     + Cardinality({k \in Keys : lostReplies[k] > 0})

\* While heartbeats keep their leases nothing but the coroutine that settled a job
\* changes its verdict, no repeated enqueue and no reclaim; and that one does only
\* as its last step, if its complete() lost the reply and it goes on to fail().
SettledStaysSettled ==
    [][\A k \in Keys : rows[k].status \in Terminal /\ rows'[k].status # rows[k].status
          => /\ rows[k].status = "succeeded" /\ lostReplies[k] > 0
             /\ \E t \in tasks \ tasks' : t.key = k /\ t.at = "fail"]_rows

\* In general a settled job comes back to life, or changes its verdict, only if a
\* lease on it was reclaimed or a reply of complete() lost before (complete_job and
\* fail_job name the row by id alone: whoever once held it can still settle it).
RevivedOnlyAfterLoss ==
    [][\A k \in Keys : rows[k].status \in Terminal /\ rows'[k].status # rows[k].status
          => reclaims[k] > 0 \/ lostReplies[k] > 0]_rows

\* Every job that was enqueued is settled for good once the faults have ended.
EveryJobSettles ==
    <>[](\A k \in Keys : rows[k].status \in {"absent"} \cup Terminal)

-----------------------------------------------------------------------------
(* Strengthenings the proofs need (JobQueueProofs): what the coroutines of *)
(* the workers know about the rows they were claimed from.                 *)

\* A coroutine carries an attempt its row has reached.
TasksBehindRows ==
    \A t \in tasks : /\ rows[t.key].status # "absent"
                     /\ t.attempt <= rows[t.key].attempts

\* A row that complete() settled although the call raised: its coroutine is on
\* its way to fail().
SettledUnheard(t) ==
    /\ t.at = "fail"
    /\ rows[t.key].status = "succeeded" /\ lostReplies[t.key] > 0

\* Until a lease on it is reclaimed, a job with a coroutine is running, or settled
\* unheard, and the coroutine is its newest attempt.
UnreclaimedIsCurrent ==
    \A t \in tasks : reclaims[t.key] = 0 =>
        /\ rows[t.key].attempts = t.attempt
        /\ rows[t.key].status = "running" \/ SettledUnheard(t)

QueueInv ==
    /\ TypeOK
    /\ TasksBehindRows
    /\ NewestClaimHoldsLease
    /\ DeadLetterSpent
    /\ UnreclaimedIsCurrent

\* While heartbeats keep their leases, every coroutine holds a live lease until
\* it settles its row.
HoldsLiveLease(t) ==
    /\ t.beats
    /\ rows[t.key].status = "running" /\ rows[t.key].lease = "live"
    /\ rows[t.key].owner = t.worker

TasksHoldLiveLeases ==
    \A t \in tasks : /\ rows[t.key].attempts = t.attempt
                     /\ HoldsLiveLease(t) \/ SettledUnheard(t)

\* The attempts of a job that can still put it back in the queue: those nobody
\* has claimed yet and those in a coroutine's hands, the last one excepted.
MayRequeue(k) ==
    {n \in 1..(MaxAttempts - 1) :
        n > rows[k].attempts \/ \E t \in tasks : t.key = k /\ t.attempt = n}

\* A row that is not taken is good for one more claim.
ClaimsToCome(k) == IF rows[k].status \in {"absent", "queued"} THEN 1 ELSE 0

\* The claims made, the next one and those that may follow from a requeue are
\* MaxAttempts, and one for each reclaimed lease.
AttemptBudget ==
    \A k \in Keys :
        /\ rows[k].status = "absent" => rows[k].attempts = 0
        /\ rows[k].attempts + ClaimsToCome(k) + Cardinality(MayRequeue(k))
              <= MaxAttempts + reclaims[k]

\* A request carries one call.
OneCallEach == \A c, d \in calls : c.from = d.from => c = d

ActiveKeys == {k \in Keys : rows[k].status \in Active}

\* The requests that may still insert a row: they read a depth below the capacity
\* and are before the lookup, or they are past it and the row is not there.
MayInsert(c) == IF c.at = "lookup" THEN ~c.full ELSE rows[c.key].status = "absent"

Admissible == {p \in Producers : \E c \in calls : c.from = p /\ MayInsert(c)}

\* Rows in the queue that were admitted to it, and requests on their way to one.
LostKeys == {k \in Keys : lostReplies[k] > 0}
AdmittedKeys == ActiveKeys \ LostKeys

RoomKept ==
    /\ IsFiniteSet(AdmittedKeys) /\ IsFiniteSet(LostKeys)
    /\ Cardinality(AdmittedKeys) + Cardinality(Admissible)
          <= Capacity + Cardinality(Producers) - 1

-----------------------------------------------------------------------------
(* The abstract queue this one implements.                                 *)

InHands(k) == \E t \in tasks : t.key = k

DeliveryState ==
    [k \in Keys |-> IF InHands(k) THEN "held"
                   ELSE IF rows[k].status = "absent" THEN "absent"
                   ELSE IF rows[k].status \in Terminal THEN "done" ELSE "waiting"]

DeliveryHolder ==
    [k \in Keys |-> IF InHands(k) THEN (CHOOSE t \in tasks : t.key = k).worker ELSE NoOwner]

Delivery == INSTANCE JobDelivery WITH state <- DeliveryState, holder <- DeliveryHolder

\* While heartbeats keep their leases the queue delivers each job to one worker
\* at a time, and never again once that worker is done with a settled row (store.py
\* docstring: "multiple workers can poll without double-claiming").  A row whose
\* complete() lost its reply is still in the worker's hands.
DeliverySpec == Delivery!Spec
=============================================================================
