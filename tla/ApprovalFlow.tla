---------------------------- MODULE ApprovalFlow ----------------------------
(***************************************************************************)
(* One incident from its alert to the executed change: the API endpoints   *)
(* that start it and decide on it (app/ingress/trigger.py,                 *)
(* app/routers/incidents.py), the jobs they submit, the runs of those jobs *)
(* (app/jobs/runner.py) and the LangGraph thread the runs work on          *)
(* (app/graph/builder.py, app/graph/nodes.py, app/tools/topology.py).      *)
(*                                                                         *)
(* The queue appears as what it promises (JobDelivery): a job is run by    *)
(* one worker at a time and again if that run fails.  Nothing keeps two    *)
(* jobs of the same thread apart.  A run loads the latest checkpoint when  *)
(* it starts, keeps its own copy, and every node it completes becomes the  *)
(* latest checkpoint, whatever other runs wrote meanwhile.                 *)
(***************************************************************************)
EXTENDS Naturals, Sequences, FiniteSets

CONSTANTS
    Decisions,     \* POST .../resume requests
    Workers, NoOwner,
    Ledgered,      \* app.state.pool is there (FALSE: auth disabled, no Postgres)
    DecideOnce,    \* people decide on each proposal once
    MaxProposals,  \* bound: propose_policy_change calls that are queued
    MaxGiveUps     \* bound: runs that fail, crash or exceed their budget

ASSUME FlowAssumption ==
    /\ Ledgered \in BOOLEAN /\ DecideOnce \in BOOLEAN
    /\ MaxProposals \in Nat /\ MaxGiveUps \in Nat
    /\ NoOwner \notin Workers
    /\ {"start", "approve", "reject"} \cap Decisions = {}

Choices == {"approve", "reject"}

\* Mutant: the same approval hash for every decision on the thread.
HashOfThread(d, c) == CHOOSE e \in Decisions : TRUE

\* The approval hash: a sealed record's own, or "memory:<thread>:<decision>".
Hash(d, c) == IF Ledgered THEN d ELSE c

\* Jobs by dedupe key: one start job, one resume job per approval hash.
Resumes == IF Ledgered THEN Decisions ELSE Choices
Jobs == {"start"} \cup Resumes

VARIABLES
    state, holder, \* the queue, as JobDelivery has it
    payload,       \* per resume job: the decision it was enqueued for
    request,       \* per decision: where its endpoint is, what it decided and
                   \* the proposal in the evidence it sealed
    thread,        \* the latest checkpoint of the incident's thread
    run,           \* per job: the run of it, with its copy of the thread
    proposals,     \* proposals queued so far
    applied,       \* executions handed to the executor
    executions,    \* the execution: records of the ledger, in order
    giveUps

queue == <<state, holder>>
flowVars == <<state, holder, payload, request, thread, run, proposals, applied,
              executions, giveUps>>

Queue == INSTANCE JobDelivery WITH Keys <- Jobs

\* pending_actions (0 is none: execute_change can only be reached after a
\* proposal) and the execution field of the graph's values.
Execution == [proposal : 0..MaxProposals, key : Resumes]
NotExecuted == [proposal |-> 0, key |-> "start"]

ExecutionRecord == [of : Execution, by : Decisions]

Thread == [next : {"none", "supervisor", "firewall_specialist", "execute_change", "end"},
           proposal : 0..MaxProposals,
           execution : Execution \cup {NotExecuted}]

Request == [at : {"new", "checked", "sealed", "accepted", "refused"},
            choice : Choices, shown : 0..MaxProposals]

Run == [at : {"idle", "claimed", "graph", "device", "returned", "recorded"},
        mem : Thread]

NoThread == [next |-> "none", proposal |-> 0, execution |-> NotExecuted]
IdleRun == [at |-> "idle", mem |-> NoThread]

\* What a node's Command writes into the thread's values.
GoneTo(t, node) == [t EXCEPT !.next = node]
Pending(t, node, p) == [t EXCEPT !.next = node, !.proposal = p]
Executed(t, e) == [t EXCEPT !.next = "end", !.execution = e]

TypeOK ==
    /\ state \in [Jobs -> {"absent", "waiting", "held", "done"}]
    /\ holder \in [Jobs -> Workers \cup {NoOwner}]
    /\ payload \in [Resumes -> Decisions \cup {"none"}]
    /\ request \in [Decisions -> Request]
    /\ thread \in Thread
    /\ run \in [Jobs -> Run]
    /\ proposals \in 0..MaxProposals
    /\ applied \subseteq Execution
    /\ executions \in Seq(ExecutionRecord)
    /\ giveUps \in Nat

Init ==
    /\ Queue!Init
    /\ payload = [j \in Resumes |-> "none"]
    /\ request = [d \in Decisions |-> [at |-> "new", choice |-> "reject", shown |-> 0]]
    /\ thread = NoThread
    /\ run = [j \in Jobs |-> IdleRun]
    /\ proposals = 0
    /\ applied = {}
    /\ executions = <<>>
    /\ giveUps = 0

-----------------------------------------------------------------------------
(* The API.                                                                *)

\* trigger_incident: a second alert of the same incident finds the job there.
Trigger ==
    /\ Queue!Submit("start")
    /\ UNCHANGED <<payload, request, thread, run, proposals, applied, executions,
                   giveUps>>

MoveTo(d, where) == request' = [request EXCEPT ![d].at = where]

AwaitingApproval == thread.next = "execute_change"

\* Mutant: the endpoint resumes whatever the thread is doing.
CheckUnpaused(d, c) ==
    /\ request[d].at = "new"
    /\ thread.next # "none"
    /\ DecideOnce => \A e \in Decisions :
                        request[e].at # "new" => request[e].shown # thread.proposal
    /\ request' = [request EXCEPT ![d] = [at |-> "checked", choice |-> c,
                                          shown |-> thread.proposal]]
    /\ UNCHANGED <<queue, payload, thread, run, proposals, applied, executions, giveUps>>

\* resume_investigation reads the snapshot once: the 409 (409, 403 and 422
\* change nothing, the person may come back) and the evidence both come from it.
Check(d, c) ==
    /\ request[d].at = "new"
    /\ AwaitingApproval
    /\ DecideOnce => \A e \in Decisions :
                        request[e].at # "new" => request[e].shown # thread.proposal
    /\ request' = [request EXCEPT ![d] = [at |-> "checked", choice |-> c,
                                          shown |-> thread.proposal]]
    /\ UNCHANGED <<queue, payload, thread, run, proposals, applied, executions, giveUps>>

\* append_approval commits; with no pool there is only a warning in the log.
Seal(d) ==
    /\ request[d].at = "checked"
    /\ MoveTo(d, "sealed")
    /\ UNCHANGED <<queue, payload, thread, run, proposals, applied, executions, giveUps>>

\* enqueue_resume: a job with the same key is there already, or is new.
Enqueue(d) ==
    /\ request[d].at = "sealed"
    /\ MoveTo(d, "accepted")
    /\ LET j == Hash(d, request[d].choice)
       IN \/ /\ Queue!Submit(j)
             /\ payload' = [payload EXCEPT ![j] = d]
          \/ /\ state[j] # "absent"
             /\ UNCHANGED <<queue, payload>>
    /\ UNCHANGED <<thread, run, proposals, applied, executions, giveUps>>

\* QueueFull: 503, with the decision already in the ledger.
RefuseFull(d) ==
    /\ request[d].at = "sealed"
    /\ state[Hash(d, request[d].choice)] = "absent"
    /\ MoveTo(d, "refused")
    /\ UNCHANGED <<queue, payload, thread, run, proposals, applied, executions, giveUps>>

-----------------------------------------------------------------------------
(* A run of a job.                                                         *)

Goto(j, where, mem) == run' = [run EXCEPT ![j] = [at |-> where, mem |-> mem]]

\* A node is done: its result is checkpointed and the run goes on, or stops at
\* the interrupt before execute_change or at the end of the graph.
Checkpointed(j, mem) ==
    /\ thread' = mem
    /\ Goto(j, IF mem.next \in {"execute_change", "end"} THEN "returned" ELSE "graph", mem)

HandOut(j, w) ==
    /\ Queue!HandOut(j, w)
    /\ Goto(j, "claimed", NoThread)
    /\ UNCHANGED <<payload, request, thread, proposals, applied, executions, giveUps>>

\* _run_start: ainvoke(initial) starts the graph over, whatever the thread held
\* (only the execution field is not part of the initial values).
LoadStart ==
    /\ run["start"].at = "claimed"
    /\ Checkpointed("start", Pending(thread, "supervisor", 0))
    /\ UNCHANGED <<queue, payload, request, proposals, applied, executions, giveUps>>

\* Mutant: the resume stops at the interrupt it was to go past.
LoadResumeStops(j) ==
    /\ run[j].at = "claimed"
    /\ Goto(j, IF thread.next \in {"execute_change", "end"} THEN "returned" ELSE "graph",
            thread)
    /\ UNCHANGED <<queue, payload, request, thread, proposals, applied, executions,
                   giveUps>>

\* _run_resume: Command(resume) goes on where the latest checkpoint stands, past
\* the interrupt; a finished thread has nothing left to run.
LoadResume(j) ==
    /\ run[j].at = "claimed"
    /\ Goto(j, IF thread.next = "end" THEN "returned" ELSE "graph", thread)
    /\ UNCHANGED <<queue, payload, request, thread, proposals, applied, executions,
                   giveUps>>

\* A model turn of the supervisor: another turn, a delegation, or the end.
SupervisorTurn(j) ==
    /\ run[j].at = "graph" /\ run[j].mem.next = "supervisor"
    /\ \E n \in {"supervisor", "firewall_specialist", "end"} :
          Checkpointed(j, GoneTo(run[j].mem, n))
    /\ UNCHANGED <<queue, payload, request, proposals, applied, executions, giveUps>>

\* A model turn of the specialist: another turn (a simulation that failed too),
\* the end without a change, or a proposal that replaces the pending one.
SpecialistTurn(j) ==
    /\ run[j].at = "graph" /\ run[j].mem.next = "firewall_specialist"
    /\ \/ /\ \E n \in {"firewall_specialist", "end"} :
                Checkpointed(j, GoneTo(run[j].mem, n))
          /\ UNCHANGED proposals
       \/ /\ proposals < MaxProposals
          /\ proposals' = proposals + 1
          /\ Checkpointed(j, Pending(run[j].mem, "execute_change", proposals + 1))
    /\ UNCHANGED <<queue, payload, request, applied, executions, giveUps>>

Approves(j) == request[payload[j]].choice = "approve"

\* execute_change on a rejection: back to the specialist, nothing pending.
Rejecting(j) ==
    /\ run[j].at = "graph" /\ run[j].mem.next = "execute_change"
    /\ ~Approves(j)
    /\ Checkpointed(j, Pending(run[j].mem, "firewall_specialist", 0))
    /\ UNCHANGED <<queue, payload, request, proposals, applied, executions, giveUps>>

\* Mutant: the human decision is not looked at.
ExecuteAnyway(j) ==
    /\ run[j].at = "graph" /\ run[j].mem.next = "execute_change"
    /\ LET e == [proposal |-> run[j].mem.proposal, key |-> j]
       IN /\ applied' = applied \cup {e}
          /\ Goto(j, "device", Executed(run[j].mem, e))
    /\ UNCHANGED <<queue, payload, request, thread, proposals, executions, giveUps>>

\* execute_change on an approval: apply_once under the approval hash.  A result
\* cached under that hash is used again; the cache is a process's own and
\* reaches the table in the background, so after a failed run it may be missing.
Execute(j) ==
    /\ run[j].at = "graph" /\ run[j].mem.next = "execute_change"
    /\ Approves(j)
    /\ \E e \in {x \in applied : x.key = j} \cup
                {[proposal |-> run[j].mem.proposal, key |-> j]} :
          /\ applied' = applied \cup {e}
          /\ Goto(j, "device", Executed(run[j].mem, e))
    /\ UNCHANGED <<queue, payload, request, thread, proposals, executions, giveUps>>

\* The node returned: its result becomes the thread's checkpoint.
Settle(j) ==
    /\ run[j].at = "device"
    /\ Checkpointed(j, run[j].mem)
    /\ UNCHANGED <<queue, payload, request, proposals, applied, executions, giveUps>>

\* Mutant: a record is sealed whether or not anything was executed.
RecordAlways(j) ==
    /\ run[j].at = "returned"
    /\ Goto(j, "recorded", run[j].mem)
    /\ \/ /\ j # "start" /\ Ledgered
          /\ executions' = Append(executions, [of |-> thread.execution, by |-> payload[j]])
       \/ UNCHANGED executions
    /\ UNCHANGED <<queue, payload, request, thread, proposals, applied, giveUps>>

\* record_execution reads the thread again and seals whatever execution it finds
\* on behalf of the job's actor; an append that raises is logged and forgotten.
\* A start job has no such step, and neither has a system without a ledger.
Record(j) ==
    /\ run[j].at = "returned"
    /\ Goto(j, "recorded", run[j].mem)
    /\ \/ /\ j # "start" /\ Ledgered /\ thread.execution # NotExecuted
          /\ executions' = Append(executions, [of |-> thread.execution, by |-> payload[j]])
       \/ UNCHANGED executions
    /\ UNCHANGED <<queue, payload, request, thread, proposals, applied, giveUps>>

Finish(j) ==
    /\ run[j].at = "recorded"
    /\ Queue!Finish(j)
    /\ Goto(j, "idle", NoThread)
    /\ UNCHANGED <<payload, request, thread, proposals, applied, executions, giveUps>>

\* The run raises (a model call, the recursion limit, the incident budget, the
\* settlement itself) or its worker dies: the job is delivered again, or is done
\* with, as a dead letter or settled just before.
GiveUp(j) ==
    /\ run[j].at # "idle"
    /\ giveUps < MaxGiveUps
    /\ giveUps' = giveUps + 1
    /\ Queue!GiveUp(holder[j], {j})
    /\ Goto(j, "idle", NoThread)
    /\ UNCHANGED <<payload, request, thread, proposals, applied, executions>>

-----------------------------------------------------------------------------
Endpoint(d) ==
    \/ \E c \in Choices : Check(d, c)
    \/ Seal(d) \/ Enqueue(d) \/ RefuseFull(d)

GraphStep(j) == SupervisorTurn(j) \/ SpecialistTurn(j)

\* The steps that take a resume job to its end once it is there.
ResumeStep(j) ==
    \/ \E w \in Workers : HandOut(j, w)
    \/ LoadResume(j) \/ Rejecting(j) \/ Execute(j) \/ Settle(j) \/ Record(j) \/ Finish(j)

Next ==
    \/ Trigger
    \/ \E d \in Decisions : Endpoint(d)
    \/ (\E w \in Workers : HandOut("start", w)) \/ LoadStart \/ Record("start")
       \/ Finish("start")
    \/ \E j \in Resumes : ResumeStep(j)
    \/ \E j \in Jobs : GraphStep(j) \/ GiveUp(j)

Spec == Init /\ [][Next]_flowVars

\* Workers poll, run and settle the resume jobs (JobQueue's liveness).
Fairness == \A j \in Resumes : WF_flowVars(ResumeStep(j))

FairSpec == Spec /\ Fairness

-----------------------------------------------------------------------------
(* Properties.                                                             *)

Sealed(d) == request[d].at \in {"sealed", "accepted", "refused"}

\* Nothing reaches the executor except under the hash of a sealed approval: no
\* rejection, restart or stale run applies a change (nodes.execute_change; "Every
\* approve and reject is written to approvals before the graph resumes",
\* docs/how-it-works.md section 8).
NoUnapprovedExecution ==
    \A e \in applied : /\ payload[e.key] \in Decisions
                       /\ Sealed(payload[e.key])
                       /\ request[payload[e.key]].choice = "approve"

\* What is executed under an approval is the proposal its approver was shown
\* (the evidence sealed by resume_investigation against what execute_change runs).
ExecutedAsApproved ==
    \A e \in applied : e.proposal = request[payload[e.key]].shown

\* An execution record tells of something the executor was handed, on behalf of
\* somebody whose decision is sealed (runner.record_execution).
RecordsTellWhatHappened ==
    \A i \in DOMAIN executions : /\ executions[i].of \in applied
                                 /\ Sealed(executions[i].by)

\* An approval that was accepted is executed in the end.
ApprovalsAreExecuted ==
    \A d \in Decisions :
        (request[d].at = "accepted" /\ request[d].choice = "approve")
            ~> (\E e \in applied : payload[e.key] = d)

\* A rejection that was accepted takes the thread past the proposal it was about:
\* the approval does not stay asked for, because the second rejection of an incident
\* has a job of its own (the key is the hash of the sealed record).
RejectionsAreHeard ==
    \A d \in Decisions :
        (request[d].at = "accepted" /\ request[d].choice = "reject")
            ~> ~(AwaitingApproval /\ thread.proposal = request[d].shown)

-----------------------------------------------------------------------------
(* Strengthenings the proofs need (ApprovalFlowProofs).                    *)

\* A resume job carries a decision that was sealed before the job existed.
JobsCarrySealedDecisions ==
    \A j \in Resumes : state[j] # "absent" =>
        payload[j] \in Decisions /\ Sealed(payload[j])

\* Executions belong to jobs that exist.
AppliedByJobs == \A e \in applied : state[e.key] # "absent"

\* A run belongs to a job that a worker holds.
RunsAreHeld == \A j \in Jobs : run[j].at # "idle" => state[j] = "held"

\* The thread and its copies remember executions that took place.
ExecutionsAreReal ==
    /\ thread.execution \in applied \cup {NotExecuted}
    /\ \A j \in Jobs : run[j].mem.execution \in applied \cup {NotExecuted}

FlowInv ==
    /\ TypeOK
    /\ JobsCarrySealedDecisions
    /\ AppliedByJobs
    /\ RunsAreHeld
    /\ ExecutionsAreReal
    /\ NoUnapprovedExecution
    /\ RecordsTellWhatHappened

\* The queue is used as it promises to behave: Queue!Spec is what JobQueue is
\* proved to implement.
HeldByWorkers == \A j \in Jobs : state[j] = "held" => holder[j] \in Workers

\* With a ledger each decision has a job, under its own hash, as soon as it is
\* accepted and not before.
JobsOfDecisions ==
    \A d \in Decisions :
        /\ request[d].at = "accepted" <=> state[d] # "absent"
        /\ state[d] # "absent" => payload[d] = d

\* Where people decide on each proposal once and no run is given up: a job has
\* picked the thread up; a run may write it; a decision waits for its job to.
Loaded(j) == state[j] = "done" \/ run[j].at \in {"graph", "device", "returned", "recorded"}
Driving(j) == run[j].at \in {"graph", "device"}
Awaited(d) == request[d].at \in {"checked", "sealed", "accepted"} /\ ~Loaded(d)

BeforeTheStart ==
    ~Loaded("start") => /\ thread.next = "none"
                        /\ \A d \in Decisions : request[d].at = "new"

OneDecisionEach ==
    \A d, e \in Decisions :
        request[d].at # "new" /\ request[e].at # "new" /\ request[d].shown = request[e].shown
            => d = e

\* One run at a time drives the thread.  As it goes past the interrupt it has
\* the proposal its own decision was shown; elsewhere its copy is the thread.
OneDriver == \A i, j \in Jobs : Driving(i) /\ Driving(j) => i = j

PastTheInterrupt(j) ==
    /\ j \in Decisions
    /\ thread.next = "execute_change" /\ thread.proposal = request[j].shown
    /\ run[j].mem.proposal = request[j].shown

DriversDrive ==
    \A j \in Jobs :
        /\ run[j].at = "device" => PastTheInterrupt(j) /\ run[j].mem.next = "end"
        /\ run[j].at = "graph" =>
              \/ run[j].mem.next = "execute_change" /\ PastTheInterrupt(j)
              \/ run[j].mem.next \in {"supervisor", "firewall_specialist"} /\ thread = run[j].mem

\* Until its job picks the thread up, the thread is what the decision was shown.
ThreadWaits ==
    \A d \in Decisions : Awaited(d) =>
        /\ thread.next = "execute_change" /\ thread.proposal = request[d].shown
        /\ \A j \in Jobs : ~Driving(j)

AppliedOnce ==
    \A e \in applied : run[e.key].at \notin {"claimed", "graph"} /\ state[e.key] # "waiting"

DecidedInv ==
    /\ JobsOfDecisions
    /\ BeforeTheStart
    /\ OneDecisionEach
    /\ OneDriver
    /\ DriversDrive
    /\ ThreadWaits
    /\ AppliedOnce
    /\ ExecutedAsApproved
=============================================================================
