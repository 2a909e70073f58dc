------------------------- MODULE ApprovalFlowProofs -------------------------
(* What ApprovalFlow guarantees for any number of decisions, proposals and *)
(* failing runs, with and without a ledger.                                *)
EXTENDS ApprovalFlow, TLAPS

\* The fields of a thread.
LEMMA ThreadFields ==
    ASSUME NEW t \in Thread
    PROVE  /\ t.execution \in Execution \cup {NotExecuted}
           /\ t.proposal \in 0..MaxProposals
           /\ 0 \in 0..MaxProposals
  BY FlowAssumption DEF Thread

\* Going to another node keeps the rest of the thread.
LEMMA GoneToType ==
    ASSUME NEW t \in Thread,
           NEW n \in {"supervisor", "firewall_specialist", "execute_change", "end"}
    PROVE  /\ GoneTo(t, n) \in Thread /\ GoneTo(t, n).execution = t.execution
           /\ GoneTo(t, n).next = n
  BY DEF Thread, GoneTo

\* A proposal made or withdrawn leaves the thread's execution alone.
LEMMA PendingType ==
    ASSUME NEW t \in Thread,
           NEW n \in {"supervisor", "firewall_specialist", "execute_change", "end"},
           NEW p \in 0..MaxProposals
    PROVE  /\ Pending(t, n, p) \in Thread /\ Pending(t, n, p).execution = t.execution
           /\ Pending(t, n, p).next = n
  BY DEF Thread, Pending

\* An execution is written into the thread as it happened.
LEMMA ExecutedType ==
    ASSUME NEW t \in Thread, NEW e \in Execution
    PROVE  /\ Executed(t, e) \in Thread /\ Executed(t, e).execution = e
           /\ Executed(t, e).next = "end" /\ Executed(t, e).proposal = t.proposal
  BY DEF Thread, Executed

\* No action that changes nothing a property reads can break it.
LEMMA Unchanged == FlowInv /\ UNCHANGED flowVars => FlowInv'
  BY DEF FlowInv, TypeOK, AppliedByJobs, queue, JobsCarrySealedDecisions, AppliedByJobs, RunsAreHeld, ExecutionsAreReal,
         NoUnapprovedExecution, RecordsTellWhatHappened, Sealed, flowVars

\* Before the alert nothing was proposed, decided or executed.
LEMMA InitInv == Init => FlowInv
<1> SUFFICES ASSUME Init PROVE FlowInv
  OBVIOUS
<1>1. NoThread \in Thread /\ IdleRun \in Run /\ NoThread.execution = NotExecuted
  BY FlowAssumption DEF NoThread, Thread, IdleRun, Run, NotExecuted
<1>2. TypeOK
  BY <1>1, FlowAssumption DEF Init, TypeOK, Queue!Init, Request, Choices
<1>3. QED
  BY <1>1, <1>2
     DEF FlowInv, Init, Queue!Init, JobsCarrySealedDecisions, AppliedByJobs, RunsAreHeld, IdleRun,
         ExecutionsAreReal, NoUnapprovedExecution, RecordsTellWhatHappened, Jobs

\* What the ledger's execution records hold.
LEMMA RecordTypes ==
    ASSUME TypeOK
    PROVE  \A i \in DOMAIN executions : /\ executions[i].of \in Execution
                                        /\ executions[i].by \in Decisions
<1>1. ASSUME NEW i \in DOMAIN executions
      PROVE  executions[i] \in ExecutionRecord
  BY <1>1 DEF TypeOK
<1> QED
  BY <1>1 DEF ExecutionRecord

\* A decision that is sealed stays sealed and keeps its choice.
DecisionsKept ==
    /\ request' \in [Decisions -> Request]
    /\ \A e \in Decisions : Sealed(e) => Sealed(e)' /\ request'[e].choice = request[e].choice

\* Deciding on a proposal moves nothing but the decision.
LEMMA RequestStep ==
    ASSUME FlowInv, DecisionsKept,
           UNCHANGED <<state, holder, payload, thread, run, proposals, applied,
                       executions, giveUps>>
    PROVE  FlowInv'
<1> USE DEF FlowInv
<1>1. TypeOK' /\ RunsAreHeld' /\ AppliedByJobs' /\ ExecutionsAreReal'
  BY DEF DecisionsKept, TypeOK, RunsAreHeld, AppliedByJobs, ExecutionsAreReal
<1>2. JobsCarrySealedDecisions' /\ NoUnapprovedExecution'
  BY DEF DecisionsKept, JobsCarrySealedDecisions, NoUnapprovedExecution
<1>3. RecordsTellWhatHappened'
  BY RecordTypes DEF DecisionsKept, RecordsTellWhatHappened
<1> QED
  BY <1>1, <1>2, <1>3

\* Steps of an endpoint: a decision, once sealed, stays what it is.
LEMMA EndpointStep ==
    ASSUME FlowInv, NEW d \in Decisions, Endpoint(d)
    PROVE  FlowInv'
<1> USE DEF FlowInv
<1>1. ASSUME NEW c \in Choices, Check(d, c) PROVE FlowInv'
  <2>1. DecisionsKept
    BY <1>1 DEF Check, TypeOK, Request, Thread, DecisionsKept, Sealed
  <2> QED
    BY <1>1, <2>1, RequestStep DEF Check, queue
<1>2. ASSUME NEW where \in {"sealed", "accepted", "refused"}, MoveTo(d, where)
      PROVE  DecisionsKept /\ Sealed(d)'
  BY <1>2 DEF MoveTo, TypeOK, Request, Sealed, DecisionsKept
<1>3. ASSUME Seal(d) \/ RefuseFull(d) PROVE FlowInv'
  <2>1. DecisionsKept
    BY <1>2, <1>3 DEF Seal, RefuseFull
  <2> QED
    BY <1>3, <2>1, RequestStep DEF Seal, RefuseFull, queue
<1>4. ASSUME Enqueue(d) PROVE FlowInv'
  <2> DEFINE j == Hash(d, request[d].choice)
  <2>1. j \in Resumes
    BY DEF Hash, Resumes, TypeOK, Request
  <2>2. /\ DecisionsKept /\ Sealed(d)'
        /\ UNCHANGED <<thread, run, proposals, applied, executions, giveUps>>
    BY <1>2, <1>4 DEF Enqueue
  <2>4. CASE UNCHANGED <<state, holder, payload>>
    BY <2>2, <2>4, RequestStep
  <2>5. CASE Queue!Submit(j) /\ payload' = [payload EXCEPT ![j] = d]
    <3>1. /\ state[j] = "absent" /\ holder' = holder
          /\ state' = [state EXCEPT ![j] = "waiting"]
      BY <2>5 DEF Queue!Submit
    <3>2. TypeOK'
      BY <2>1, <2>2, <2>5, <3>1 DEF TypeOK, Jobs, DecisionsKept
    <3>3. JobsCarrySealedDecisions'
      BY <2>1, <2>2, <2>5, <3>1 DEF JobsCarrySealedDecisions, TypeOK, Jobs, DecisionsKept
    <3>4. RunsAreHeld'
      BY <2>1, <2>2, <3>1 DEF RunsAreHeld, TypeOK, Jobs
    <3>5. AppliedByJobs' /\ \A e \in applied : e.key # j
      BY <2>1, <2>2, <3>1 DEF AppliedByJobs, TypeOK, Jobs, Execution
    <3>6. ExecutionsAreReal' /\ RecordsTellWhatHappened'
      BY <2>2, RecordTypes DEF ExecutionsAreReal, RecordsTellWhatHappened, DecisionsKept
    <3>7. NoUnapprovedExecution'
      BY <2>1, <2>2, <2>5, <3>5
         DEF NoUnapprovedExecution, TypeOK, Execution, DecisionsKept
    <3> QED
      BY <3>2, <3>3, <3>4, <3>5, <3>6, <3>7
  <2> QED
    BY <1>4, <2>4, <2>5 DEF Enqueue, queue
<1> QED
  BY <1>1, <1>3, <1>4 DEF Endpoint

-----------------------------------------------------------------------------
\* A run that goes on, with a checkpoint or without: as long as its copy of the
\* thread and the thread remember real executions, nothing else is at stake.
LEMMA RunStep ==
    ASSUME FlowInv, NEW j \in Jobs, state[j] = "held",
           NEW at \in {"graph", "device", "returned", "recorded"}, NEW mem \in Thread,
           mem.execution \in applied \cup {NotExecuted},
           run' = [run EXCEPT ![j] = [at |-> at, mem |-> mem]],
           thread' \in {thread, mem},
           proposals' \in 0..MaxProposals,
           UNCHANGED <<state, holder, payload, request, applied, executions, giveUps>>
    PROVE  FlowInv'
<1> USE DEF FlowInv
<1>1. TypeOK'
  BY DEF TypeOK, Run
<1>2. RunsAreHeld' /\ ExecutionsAreReal'
  BY DEF TypeOK, RunsAreHeld, ExecutionsAreReal
<1>3. /\ JobsCarrySealedDecisions' /\ AppliedByJobs' /\ NoUnapprovedExecution'
      /\ RecordsTellWhatHappened'
  BY DEF JobsCarrySealedDecisions, AppliedByJobs, NoUnapprovedExecution,
         RecordsTellWhatHappened, Sealed
<1> QED
  BY <1>1, <1>2, <1>3

\* What a run's guard says of its job, and of the threads it may write.
LEMMA RunFacts ==
    ASSUME FlowInv, NEW j \in Jobs, run[j].at # "idle"
    PROVE  /\ state[j] = "held" /\ j \in DOMAIN run
           /\ run[j].mem \in Thread
           /\ run[j].mem.execution \in applied \cup {NotExecuted}
           /\ run[j] = [at |-> run[j].at, mem |-> run[j].mem]
           /\ thread \in Thread /\ thread.execution \in applied \cup {NotExecuted}
           /\ j \in Resumes => payload[j] \in Decisions /\ Sealed(payload[j])
  BY DEF FlowInv, RunsAreHeld, TypeOK, Run, ExecutionsAreReal, JobsCarrySealedDecisions

\* A node that completes without touching the executor.
LEMMA CheckpointStep ==
    ASSUME FlowInv, NEW j \in Jobs, state[j] = "held",
           NEW mem \in Thread, mem.execution \in applied \cup {NotExecuted},
           Checkpointed(j, mem),
           proposals' \in 0..MaxProposals,
           UNCHANGED <<state, holder, payload, request, applied, executions, giveUps>>
    PROVE  FlowInv'
  BY RunStep DEF Checkpointed, Goto

\* Starting and investigating: LoadStart, the two model nodes, a rejection.
LEMMA InvestigationStep ==
    ASSUME FlowInv, NEW j \in Jobs,
           (j = "start" /\ LoadStart) \/ GraphStep(j) \/ Rejecting(j)
    PROVE  FlowInv'
<1>0. run[j].at # "idle" /\ proposals \in 0..MaxProposals
  BY DEF LoadStart, GraphStep, SupervisorTurn, SpecialistTurn, Rejecting, FlowInv, TypeOK
<1>1. CASE j = "start" /\ LoadStart
  <2> DEFINE mem == Pending(thread, "supervisor", 0)
  <2>0. thread \in Thread /\ 0 \in 0..MaxProposals
    BY FlowAssumption DEF FlowInv, TypeOK
  <2>1. mem \in Thread /\ mem.execution = thread.execution
    BY <2>0, PendingType
  <2> QED
    BY <1>0, <1>1, <2>1, RunFacts, CheckpointStep DEF LoadStart, queue
<1>2. CASE SupervisorTurn(j)
  <2>1. PICK n \in {"supervisor", "firewall_specialist", "end"} :
           Checkpointed(j, GoneTo(run[j].mem, n))
    BY <1>2 DEF SupervisorTurn
  <2> DEFINE mem == GoneTo(run[j].mem, n)
  <2>3. run[j].mem \in Thread
    BY <1>0, RunFacts
  <2>2. mem \in Thread /\ mem.execution = run[j].mem.execution
    BY <2>3, GoneToType
  <2> QED
    BY <1>0, <1>2, <2>1, <2>2, RunFacts, CheckpointStep DEF SupervisorTurn, queue
<1>3. CASE SpecialistTurn(j)
  <2>1. CASE /\ \E n \in {"firewall_specialist", "end"} :
                   Checkpointed(j, GoneTo(run[j].mem, n))
             /\ UNCHANGED proposals
    <3>1. PICK n \in {"firewall_specialist", "end"} :
             Checkpointed(j, GoneTo(run[j].mem, n))
      BY <2>1
    <3> DEFINE mem == GoneTo(run[j].mem, n)
    <3>2. run[j].mem \in Thread /\ n \in {"firewall_specialist", "end"}
      BY <1>0, RunFacts
    <3>3. mem \in Thread /\ mem.execution = run[j].mem.execution
      BY <3>2, GoneToType
    <3> QED
      BY <1>0, <1>3, <2>1, <3>1, <3>3, RunFacts, CheckpointStep DEF SpecialistTurn, queue
  <2>2. CASE /\ proposals < MaxProposals
             /\ proposals' = proposals + 1
             /\ Checkpointed(j, Pending(run[j].mem, "execute_change", proposals + 1))
    <3> DEFINE mem == Pending(run[j].mem, "execute_change", proposals + 1)
    <3>1. proposals + 1 \in 0..MaxProposals
      BY <1>0, <2>2, FlowAssumption
    <3>2. run[j].mem \in Thread
      BY <1>0, RunFacts
    <3>3. mem \in Thread /\ mem.execution = run[j].mem.execution
      BY <3>1, <3>2, PendingType DEF Thread
    <3> QED
      BY <1>0, <1>3, <2>2, <3>1, <3>3, RunFacts, CheckpointStep DEF SpecialistTurn, queue
  <2> QED
    BY <1>3, <2>1, <2>2 DEF SpecialistTurn
<1>4. CASE Rejecting(j)
  <2> DEFINE mem == Pending(run[j].mem, "firewall_specialist", 0)
  <2>1. mem \in Thread /\ mem.execution = run[j].mem.execution
    BY <1>0, RunFacts, ThreadFields, PendingType
  <2> QED
    BY <1>0, <1>4, <2>1, RunFacts, CheckpointStep DEF Rejecting, queue
<1> QED
  BY <1>1, <1>2, <1>3, <1>4 DEF GraphStep

\* The gate: a run executes only under a sealed approval of its own job.
LEMMA ExecuteStep ==
    ASSUME FlowInv, NEW j \in Resumes, Execute(j)
    PROVE  FlowInv'
<1>1. j \in Jobs /\ run[j].at = "graph"
  BY DEF Jobs, Execute
<1>2. PICK e \in {x \in applied : x.key = j} \cup
                 {[proposal |-> run[j].mem.proposal, key |-> j]} :
         /\ applied' = applied \cup {e}
         /\ Goto(j, "device", Executed(run[j].mem, e))
  BY DEF Execute
<1> DEFINE mem == Executed(run[j].mem, e)
<1>3. run[j].mem \in Thread /\ run[j].mem.proposal \in 0..MaxProposals
  BY <1>1, RunFacts, ThreadFields
<1>4. e \in Execution /\ e.key = j
  BY <1>2, <1>3 DEF FlowInv, TypeOK, Execution
<1>5. mem \in Thread /\ mem.execution = e
  BY <1>3, <1>4, ExecutedType
<1>6. /\ UNCHANGED <<state, holder, payload, request, thread, proposals, executions, giveUps>>
      /\ run' = [run EXCEPT ![j] = [at |-> "device", mem |-> mem]]
  BY <1>2 DEF Execute, queue, Goto
<1>7. TypeOK'
  BY <1>1, <1>2, <1>4, <1>5, <1>6 DEF FlowInv, TypeOK, Run
<1>8. RunsAreHeld' /\ ExecutionsAreReal'
  BY <1>1, <1>2, <1>5, <1>6 DEF FlowInv, TypeOK, RunsAreHeld, ExecutionsAreReal
<1>9. JobsCarrySealedDecisions' /\ RecordsTellWhatHappened'
  BY <1>2, <1>6 DEF FlowInv, JobsCarrySealedDecisions, RecordsTellWhatHappened, Sealed
<1>10. AppliedByJobs' /\ NoUnapprovedExecution'
  <2>1. /\ state[j] = "held" /\ payload[j] \in Decisions /\ Sealed(payload[j])
        /\ request[payload[j]].choice = "approve"
    BY <1>1, RunFacts DEF Execute, Approves
  <2> QED
    BY <1>2, <1>4, <1>6, <2>1 DEF FlowInv, AppliedByJobs, NoUnapprovedExecution, Sealed
<1> QED
  BY <1>7, <1>8, <1>9, <1>10 DEF FlowInv

\* The rest of a run: claimed, loaded, checkpointed, recorded, finished, given up.
LEMMA JobStep ==
    ASSUME FlowInv, NEW j \in Jobs,
           \/ j = "start" /\ Trigger
           \/ \E w \in Workers : HandOut(j, w)
           \/ Finish(j) \/ GiveUp(j)
    PROVE  FlowInv'
<1>1. /\ state' \in [Jobs -> {"absent", "waiting", "held", "done"}]
      /\ holder' \in [Jobs -> Workers \cup {NoOwner}]
      /\ run' \in [Jobs -> Run]
      /\ giveUps' \in Nat
      /\ \A i \in Jobs : state[i] # "absent" => state'[i] # "absent"
      /\ \A i \in Resumes : state[i] = "absent" => state'[i] = "absent"
      /\ \A i \in Jobs : run'[i].at # "idle" => state'[i] = "held"
      /\ \A i \in Jobs : run'[i].mem.execution \in applied \cup {NotExecuted}
  <2>0. NoThread \in Thread /\ NoThread.execution = NotExecuted
    BY FlowAssumption DEF NoThread, Thread
  <2>1. CASE j = "start" /\ Trigger
    BY <2>1, FlowAssumption
       DEF Trigger, Queue!Submit, FlowInv, TypeOK, RunsAreHeld, ExecutionsAreReal,
           Jobs, Resumes, Choices
  <2>2. CASE \E w \in Workers : HandOut(j, w)
    BY <2>0, <2>2
       DEF HandOut, Queue!HandOut, Goto, FlowInv, TypeOK, RunsAreHeld,
           ExecutionsAreReal, Run, Jobs
  <2>3. CASE Finish(j)
    BY <2>0, <2>3
       DEF Finish, Queue!Finish, Goto, FlowInv, TypeOK, RunsAreHeld,
           ExecutionsAreReal, Run, Jobs
  <2>4. CASE GiveUp(j)
    <3>1. run[j].at # "idle" /\ run' = [run EXCEPT ![j] = [at |-> "idle", mem |-> NoThread]]
      BY <2>4 DEF GiveUp, Goto
    <3>2. giveUps' \in Nat
      BY <2>4 DEF GiveUp, FlowInv, TypeOK
    <3>3. state[j] = "held"
      BY <3>1, RunFacts
    <3>4. \E s \in {"waiting", "done"} : state' = [state EXCEPT ![j] = s]
      BY <2>4 DEF GiveUp, Queue!GiveUp, Queue!Finish, FlowInv, TypeOK
    <3>5. holder' \in [Jobs -> Workers \cup {NoOwner}]
      BY <2>4 DEF GiveUp, Queue!GiveUp, Queue!Finish, FlowInv, TypeOK
    <3> QED
      BY <2>0, <3>1, <3>2, <3>3, <3>4, <3>5
         DEF FlowInv, TypeOK, RunsAreHeld, ExecutionsAreReal, Run, Jobs
  <2> QED
    BY <2>1, <2>2, <2>3, <2>4
<1>2. UNCHANGED <<payload, request, thread, proposals, applied, executions>>
  BY DEF Trigger, HandOut, Finish, GiveUp
<1>3. TypeOK' /\ RunsAreHeld' /\ ExecutionsAreReal'
  BY <1>1, <1>2 DEF FlowInv, TypeOK, RunsAreHeld, ExecutionsAreReal
<1>4. JobsCarrySealedDecisions' /\ AppliedByJobs'
  BY <1>1, <1>2
     DEF FlowInv, TypeOK, Execution, JobsCarrySealedDecisions, AppliedByJobs, Sealed, Jobs
<1>5. NoUnapprovedExecution' /\ RecordsTellWhatHappened'
  BY <1>2 DEF FlowInv, NoUnapprovedExecution, RecordsTellWhatHappened, Sealed
<1> QED
  BY <1>3, <1>4, <1>5 DEF FlowInv

\* Picking up the thread and putting it down again leave its execution alone.
LEMMA LoadSettleStep ==
    ASSUME FlowInv, NEW j \in Resumes, LoadResume(j) \/ Settle(j)
    PROVE  FlowInv'
<1>1. j \in Jobs /\ run[j].at # "idle" /\ proposals \in 0..MaxProposals
  BY DEF Jobs, LoadResume, Settle, FlowInv, TypeOK
<1>2. CASE LoadResume(j)
  BY <1>1, <1>2, RunFacts, RunStep DEF LoadResume, Goto, queue
<1>3. CASE Settle(j)
  BY <1>1, <1>3, RunFacts, CheckpointStep DEF Settle, queue
<1> QED
  BY <1>2, <1>3

\* What is recorded is an execution the thread remembers.
LEMMA RecordStep ==
    ASSUME FlowInv, NEW j \in Jobs, Record(j)
    PROVE  FlowInv'
<1>1. run[j].at # "idle" /\ proposals \in 0..MaxProposals
  BY DEF Record, FlowInv, TypeOK
<1>2. run' = [run EXCEPT ![j] = [at |-> "recorded", mem |-> run[j].mem]]
  BY DEF Record, Goto
<1>3. UNCHANGED <<state, holder, payload, request, thread, proposals, applied, giveUps>>
  BY DEF Record, queue
<1>4. CASE UNCHANGED executions
  BY <1>1, <1>2, <1>3, <1>4, RunFacts, RunStep
<1>5. CASE /\ j # "start" /\ thread.execution # NotExecuted
           /\ executions' = Append(executions, [of |-> thread.execution, by |-> payload[j]])
  <2> DEFINE r == [of |-> thread.execution, by |-> payload[j]]
  <2>1. thread.execution \in applied /\ j \in Resumes
    BY <1>1, <1>5, RunFacts DEF Jobs
  <2>2. r \in ExecutionRecord /\ r.of \in applied /\ Sealed(r.by)
    BY <1>1, <2>1, RunFacts DEF ExecutionRecord, FlowInv, TypeOK
  <2>3. /\ executions' \in Seq(ExecutionRecord)
        /\ \A i \in DOMAIN executions' : executions'[i] = r \/
              (i \in DOMAIN executions /\ executions'[i] = executions[i])
    BY <1>5, <2>2 DEF FlowInv, TypeOK
  <2>4. TypeOK'
    BY <1>1, <1>2, <1>3, <2>3, RunFacts DEF FlowInv, TypeOK, Run
  <2>5. RunsAreHeld' /\ ExecutionsAreReal'
    BY <1>1, <1>2, <1>3, RunFacts DEF FlowInv, TypeOK, RunsAreHeld, ExecutionsAreReal
  <2>6. JobsCarrySealedDecisions' /\ AppliedByJobs' /\ NoUnapprovedExecution'
    BY <1>3 DEF FlowInv, JobsCarrySealedDecisions, AppliedByJobs,
                NoUnapprovedExecution, Sealed
  <2>7. RecordsTellWhatHappened'
    BY <1>3, <2>2, <2>3 DEF FlowInv, RecordsTellWhatHappened, Sealed
  <2> QED
    BY <2>4, <2>5, <2>6, <2>7 DEF FlowInv
<1> QED
  BY <1>4, <1>5 DEF Record

\* Every step keeps the invariant.
LEMMA FlowInvStep == FlowInv /\ [Next]_flowVars => FlowInv'
<1> SUFFICES ASSUME FlowInv, [Next]_flowVars PROVE FlowInv'
  OBVIOUS
<1>1. "start" \in Jobs /\ Resumes \subseteq Jobs
  BY DEF Jobs
<1>2. CASE UNCHANGED flowVars
  BY <1>2, Unchanged
<1>3. CASE \E d \in Decisions : Endpoint(d)
  BY <1>3, EndpointStep
<1>4. CASE Trigger \/ (\E w \in Workers : HandOut("start", w)) \/ Finish("start")
  BY <1>1, <1>4, JobStep
<1>5. CASE LoadStart
  BY <1>1, <1>5, InvestigationStep
<1>6. CASE Record("start")
  BY <1>1, <1>6, RecordStep
<1>7. ASSUME NEW j \in Resumes, ResumeStep(j) PROVE FlowInv'
  BY <1>1, <1>7, JobStep, LoadSettleStep, InvestigationStep, ExecuteStep, RecordStep
     DEF ResumeStep
<1>8. ASSUME NEW j \in Jobs, GraphStep(j) \/ GiveUp(j) PROVE FlowInv'
  BY <1>8, InvestigationStep, JobStep
<1> QED
  BY <1>2, <1>3, <1>4, <1>5, <1>6, <1>7, <1>8 DEF Next

\* The inductive invariant holds in every reachable state.
LEMMA FlowInvHolds == Spec => []FlowInv
  BY InitInv, FlowInvStep, PTL DEF Spec

\* Every variable keeps its type.
THEOREM FlowTypes == Spec => []TypeOK
<1>1. FlowInv => TypeOK
  BY DEF FlowInv
<1> QED
  BY <1>1, FlowInvHolds, PTL

\* However runs fail and overlap, the executor is handed nothing except under
\* the hash of a sealed approval.
THEOREM OnlyApproved == Spec => []NoUnapprovedExecution
<1>1. FlowInv => NoUnapprovedExecution
  BY DEF FlowInv
<1> QED
  BY <1>1, FlowInvHolds, PTL

\* Every execution record tells of something the executor was handed.
THEOREM HonestRecords == Spec => []RecordsTellWhatHappened
<1>1. FlowInv => RecordsTellWhatHappened
  BY DEF FlowInv
<1> QED
  BY <1>1, FlowInvHolds, PTL

-----------------------------------------------------------------------------
(* With a ledger: a job for each decision.                                 *)

\* With a ledger the resume jobs are the decisions, each under its own hash.
LEMMA LedgeredJobs ==
    ASSUME Ledgered
    PROVE  /\ Resumes = Decisions /\ Jobs = {"start"} \cup Decisions
           /\ "start" \notin Decisions
           /\ \A d \in Decisions, c \in Choices : Hash(d, c) = d
  BY FlowAssumption DEF Resumes, Jobs, Hash

\* A step that neither accepts a decision nor makes a job for one.
LEMMA JobsOfDecisionsKept ==
    ASSUME JobsOfDecisions, UNCHANGED payload,
           \A d \in Decisions : /\ state'[d] = "absent" <=> state[d] = "absent"
                                /\ request'[d].at = "accepted" <=> request[d].at = "accepted"
    PROVE  JobsOfDecisions'
  BY DEF JobsOfDecisions

\* A decision and its job come together, one action at a time.
LEMMA JobsOfDecisionsStep ==
    ASSUME Ledgered, FlowInv, JobsOfDecisions, [Next]_flowVars
    PROVE  JobsOfDecisions'
<1> USE LedgeredJobs
<1>0. /\ request \in [Decisions -> Request] /\ payload \in [Decisions -> Decisions \cup {"none"}]
      /\ state \in [Jobs -> {"absent", "waiting", "held", "done"}]
  BY DEF FlowInv, TypeOK
<1>1. CASE UNCHANGED <<state, payload, request>>
  BY <1>1, JobsOfDecisionsKept
<1>2. ASSUME NEW d \in Decisions, Endpoint(d) PROVE JobsOfDecisions'
  <2>1. CASE (\E c \in Choices : Check(d, c)) \/ Seal(d) \/ RefuseFull(d)
    <3>1. UNCHANGED <<state, payload>>
      BY <2>1 DEF Check, Seal, RefuseFull, queue
    <3>2. /\ request[d].at # "accepted" /\ request'[d].at # "accepted"
          /\ \A e \in Decisions \ {d} : request'[e] = request[e]
      BY <1>0, <2>1 DEF Check, Seal, RefuseFull, MoveTo, Request
    <3> QED
      BY <3>1, <3>2, JobsOfDecisionsKept
  <2>2. CASE Enqueue(d)
    <3>1. request[d].at = "sealed" /\ request[d].choice \in Choices /\ MoveTo(d, "accepted")
      BY <1>0, <2>2 DEF Enqueue, Request
    <3>2. Hash(d, request[d].choice) = d
      BY <3>1
    <3>3. state[d] = "absent"
      BY <3>1 DEF JobsOfDecisions
    <3>4. /\ state' = [state EXCEPT ![d] = "waiting"]
          /\ payload' = [payload EXCEPT ![d] = d]
      BY <2>2, <3>2, <3>3 DEF Enqueue, Queue!Submit
    <3>5. request' = [request EXCEPT ![d].at = "accepted"]
      BY <3>1 DEF MoveTo
    <3> QED
      BY <1>0, <3>4, <3>5 DEF JobsOfDecisions, Request
  <2> QED
    BY <1>2, <2>1, <2>2 DEF Endpoint
<1>3. CASE Trigger
  BY <1>0, <1>3, JobsOfDecisionsKept DEF Trigger, Queue!Submit
<1>4. ASSUME NEW j \in Jobs,
             (\E w \in Workers : HandOut(j, w)) \/ Finish(j) \/ GiveUp(j)
      PROVE  JobsOfDecisions'
  <2>1. UNCHANGED <<payload, request>>
    BY <1>4 DEF HandOut, Finish, GiveUp
  <2>2. state[j] # "absent" /\ state'[j] # "absent" /\ \A i \in Jobs \ {j} : state'[i] = state[i]
    BY <1>0, <1>4
       DEF HandOut, Finish, GiveUp, Queue!HandOut, Queue!Finish, Queue!GiveUp
  <2> QED
    BY <2>1, <2>2, JobsOfDecisionsKept
<1>5. ASSUME NEW j \in Jobs,
             \/ LoadStart \/ LoadResume(j) \/ GraphStep(j) \/ Rejecting(j) \/ Execute(j)
             \/ Settle(j) \/ Record(j)
      PROVE  JobsOfDecisions'
  BY <1>1, <1>5
     DEF LoadStart, LoadResume, GraphStep, SupervisorTurn, SpecialistTurn, Rejecting,
         Execute, Settle, Record, queue
<1> QED
  BY <1>1, <1>2, <1>3, <1>4, <1>5 DEF Next, ResumeStep, flowVars, queue

-----------------------------------------------------------------------------
(* With a ledger, where people decide on each proposal once and no run is  *)
(* given up, what is executed is what was approved.                        *)

Orderly == Ledgered /\ DecideOnce /\ MaxGiveUps = 0

\* What the invariants say of a job that exists, of an execution and of a run
\* that drives the thread.
LEMMA DecidedFacts ==
    ASSUME Orderly, FlowInv, DecidedInv
    PROVE  /\ \A j \in Decisions : state[j] # "absent" => /\ request[j].at = "accepted"
                                                         /\ payload[j] = j
           /\ \A j \in Jobs : run[j].at # "idle" => state[j] = "held"
           /\ \A e \in applied : /\ e.key \in Decisions /\ request[e.key].at = "accepted"
                                 /\ payload[e.key] = e.key
           /\ \A j \in Jobs : Driving(j) => Loaded("start") /\ thread.next # "none"
<1> USE LedgeredJobs DEF Orderly
<1>1. \A j \in Decisions : state[j] # "absent" => request[j].at = "accepted" /\ payload[j] = j
  BY DEF DecidedInv, JobsOfDecisions
<1>2. \A j \in Jobs : run[j].at # "idle" => state[j] = "held"
  BY DEF FlowInv, RunsAreHeld
<1>3. \A e \in applied : e.key \in Decisions /\ state[e.key] # "absent"
  BY DEF FlowInv, TypeOK, AppliedByJobs, Execution
<1>4. ASSUME NEW j \in Jobs, Driving(j) PROVE Loaded("start") /\ thread.next # "none"
  <2>1. Loaded("start")
    <3>1. CASE j = "start"
      BY <1>4, <3>1 DEF Driving, Loaded
    <3>2. CASE j \in Decisions
      BY <1>1, <1>2, <1>4, <3>2 DEF Driving, DecidedInv, BeforeTheStart
    <3> QED
      BY <3>1, <3>2
  <2>2. thread.next # "none"
    BY <1>4 DEF Driving, DecidedInv, DriversDrive, PastTheInterrupt
  <2> QED
    BY <2>1, <2>2
<1> QED
  BY <1>1, <1>2, <1>3, <1>4

\* A decision is taken where the thread waits for one, and nobody drives there:
\* a run that goes past the interrupt does so on a decision already taken on that
\* proposal, and elsewhere the thread is not at execute_change.
LEMMA CheckDecided ==
    ASSUME Orderly, FlowInv, DecidedInv, NEW d \in Decisions, NEW c \in Choices, Check(d, c)
    PROVE  DecidedInv'
<1> USE LedgeredJobs DEF Orderly
<1>0. /\ request \in [Decisions -> Request] /\ run \in [Jobs -> Run]
      /\ request[d].at = "new" /\ thread.next = "execute_change"
      /\ \A e \in Decisions : request[e].at # "new" => request[e].shown # thread.proposal
  BY DEF FlowInv, TypeOK, Check, AwaitingApproval
<1>1. /\ UNCHANGED <<state, payload, thread, run, applied>>
      /\ \A e \in Decisions \ {d} : request'[e] = request[e]
      /\ request'[d].at = "checked" /\ request'[d].shown = thread.proposal
  BY <1>0 DEF Check, queue
<1>2. \A j \in Jobs : ~Driving(j)
  <2> SUFFICES ASSUME NEW j \in Jobs, Driving(j) PROVE FALSE
    OBVIOUS
  <2>1. PastTheInterrupt(j)
    BY <1>0 DEF Driving, DecidedInv, DriversDrive
  <2>2. request[j].at = "accepted"
    BY <2>1, DecidedFacts DEF Driving, PastTheInterrupt
  <2> QED
    BY <1>0, <2>1, <2>2 DEF PastTheInterrupt
<1>3. JobsOfDecisions'
  BY <1>0, <1>1, JobsOfDecisionsKept DEF DecidedInv
<1>4. BeforeTheStart'
  BY <1>0, <1>1 DEF DecidedInv, BeforeTheStart, Loaded
<1>5. OneDecisionEach'
  BY <1>0, <1>1 DEF DecidedInv, OneDecisionEach
<1>6. OneDriver' /\ DriversDrive'
  BY <1>1, <1>2 DEF OneDriver, DriversDrive, Driving
<1>7. ThreadWaits'
  BY <1>0, <1>1, <1>2 DEF DecidedInv, ThreadWaits, Awaited, Loaded, Driving
<1>8. AppliedOnce'
  BY <1>1 DEF DecidedInv, AppliedOnce
<1>9. ExecutedAsApproved'
  BY <1>0, <1>1, DecidedFacts DEF DecidedInv, ExecutedAsApproved
<1> QED
  BY <1>3, <1>4, <1>5, <1>6, <1>7, <1>8, <1>9 DEF DecidedInv

\* Sealing a decision and handing it on: the decision waits as before, or, when
\* the queue is full, no more.
LEMMA EndpointDecided ==
    ASSUME Orderly, FlowInv, DecidedInv, NEW d \in Decisions,
           Seal(d) \/ Enqueue(d) \/ RefuseFull(d), JobsOfDecisions'
    PROVE  DecidedInv'
<1> USE LedgeredJobs DEF Orderly
<1>0. /\ request \in [Decisions -> Request] /\ run \in [Jobs -> Run]
      /\ state \in [Jobs -> {"absent", "waiting", "held", "done"}]
      /\ payload \in [Decisions -> Decisions \cup {"none"}]
  BY DEF FlowInv, TypeOK
<1>1. /\ UNCHANGED <<thread, run, applied>>
      /\ request[d].at \in {"checked", "sealed"}
      /\ \A e \in Decisions \ {d} : request'[e] = request[e]
      /\ request'[d].at \in {"sealed", "accepted", "refused"}
      /\ request'[d].shown = request[d].shown
  BY <1>0 DEF Seal, Enqueue, RefuseFull, MoveTo, Request
<1>2. state[d] = "absent"
  BY <1>1 DEF DecidedInv, JobsOfDecisions
<1>3. /\ state'[d] \in {"absent", "waiting"}
      /\ \A j \in Jobs \ {d} : state'[j] = state[j]
      /\ \A j \in Decisions \ {d} : payload'[j] = payload[j]
  <2>1. request[d].choice \in Choices
    BY <1>0 DEF Request
  <2>2. Hash(d, request[d].choice) = d
    BY <2>1
  <2>3. CASE Enqueue(d)
    BY <1>0, <1>2, <2>2, <2>3 DEF Enqueue, Queue!Submit, queue
  <2>4. CASE Seal(d) \/ RefuseFull(d)
    BY <1>2, <2>4 DEF Seal, RefuseFull, queue
  <2> QED
    BY <2>3, <2>4
<1>4. \A j \in Jobs : /\ Loaded(j)' <=> Loaded(j)
                      /\ Driving(j)' <=> Driving(j)
  BY <1>1, <1>2, <1>3 DEF Loaded, Driving
<1>5. BeforeTheStart'
  BY <1>1, <1>4 DEF DecidedInv, BeforeTheStart
<1>6. OneDecisionEach'
  BY <1>1 DEF DecidedInv, OneDecisionEach
<1>7. OneDriver' /\ DriversDrive'
  <2>1. \A j \in Jobs : PastTheInterrupt(j) => PastTheInterrupt(j)'
    BY <1>1 DEF PastTheInterrupt
  <2> QED
    BY <1>1, <1>4, <2>1 DEF DecidedInv, OneDriver, DriversDrive
<1>8. ThreadWaits'
  BY <1>1, <1>4 DEF DecidedInv, ThreadWaits, Awaited
<1>9. AppliedOnce' /\ ExecutedAsApproved'
  <2>1. \A e \in applied : e.key \in Decisions \ {d} /\ payload[e.key] = e.key
    BY <1>1, DecidedFacts
  <2>2. AppliedOnce'
    BY <1>1, <1>3, <2>1 DEF DecidedInv, AppliedOnce
  <2> QED
    BY <1>1, <1>3, <2>1, <2>2 DEF DecidedInv, ExecutedAsApproved
<1> QED
  BY <1>5, <1>6, <1>7, <1>8, <1>9 DEF DecidedInv

\* The alert, a job handed to a worker and a job done: the thread and those who
\* drive it are left alone.
LEMMA QueueDecided ==
    ASSUME Orderly, FlowInv, DecidedInv, NEW j \in Jobs,
           (j = "start" /\ Trigger) \/ (\E w \in Workers : HandOut(j, w)) \/ Finish(j),
           JobsOfDecisions'
    PROVE  DecidedInv'
<1> USE LedgeredJobs DEF Orderly
<1>0. /\ run \in [Jobs -> Run] /\ state \in [Jobs -> {"absent", "waiting", "held", "done"}]
  BY DEF FlowInv, TypeOK
<1>1. UNCHANGED <<payload, request, thread, applied>>
  BY DEF Trigger, HandOut, Finish
<1>2. \A i \in Jobs \ {j} : run'[i] = run[i] /\ state'[i] = state[i]
  BY <1>0 DEF Trigger, HandOut, Finish, Queue!Submit, Queue!HandOut, Queue!Finish, Goto
<1>3. /\ Loaded(j)' <=> Loaded(j)
      /\ ~Driving(j) /\ ~Driving(j)'
  <2>1. CASE j = "start" /\ Trigger
    BY <1>0, <2>1, DecidedFacts DEF Trigger, Queue!Submit, Loaded, Driving
  <2>2. CASE \E w \in Workers : HandOut(j, w)
    BY <1>0, <2>2, DecidedFacts DEF HandOut, Queue!HandOut, Goto, Loaded, Driving
  <2>3. CASE Finish(j)
    BY <1>0, <2>3 DEF Finish, Queue!Finish, Goto, Loaded, Driving
  <2> QED
    BY <2>1, <2>2, <2>3
<1>4. \A i \in Jobs : /\ Loaded(i)' <=> Loaded(i)
                      /\ Driving(i)' <=> Driving(i)
  BY <1>2, <1>3 DEF Loaded, Driving
<1>5. BeforeTheStart' /\ OneDecisionEach' /\ ThreadWaits'
  <2>1. \A d \in Decisions : Awaited(d)' <=> Awaited(d)
    BY <1>1, <1>4 DEF Awaited
  <2> QED
    BY <1>1, <1>4, <2>1 DEF DecidedInv, BeforeTheStart, OneDecisionEach, ThreadWaits
<1>6. OneDriver' /\ DriversDrive'
  <2>1. ASSUME NEW i \in Jobs, Driving(i) PROVE run'[i] = run[i] /\ i # j
    BY <1>2, <1>3, <2>1
  <2>2. \A i \in Jobs : run'[i].at \in {"graph", "device"} => Driving(i)
    BY <1>4 DEF Driving
  <2>3. \A i \in Jobs : Driving(i) /\ PastTheInterrupt(i) => PastTheInterrupt(i)'
    BY <1>1, <2>1 DEF PastTheInterrupt
  <2> QED
    BY <1>1, <1>4, <2>1, <2>2, <2>3 DEF DecidedInv, OneDriver, DriversDrive, Driving
<1>7. AppliedOnce'
  <2>1. \A e \in applied : run[e.key].at \notin {"claimed", "graph"} /\ state[e.key] # "waiting"
                           /\ e.key \in Decisions
    BY DecidedFacts DEF DecidedInv, AppliedOnce
  <2>2. ASSUME NEW e \in applied, e.key = j
        PROVE  run'[j].at \notin {"claimed", "graph"} /\ state'[j] # "waiting"
    <3>1. state[j] # "waiting" /\ j # "start"
      BY <2>1, <2>2
    <3> QED
      BY <1>0, <3>1 DEF HandOut, Finish, Queue!HandOut, Queue!Finish, Goto
  <2> QED
    BY <1>1, <1>2, <2>1, <2>2 DEF AppliedOnce
<1>8. ExecutedAsApproved'
  BY <1>1 DEF DecidedInv, ExecutedAsApproved
<1> QED
  BY <1>5, <1>6, <1>7, <1>8 DEF DecidedInv

\* The start job begins on a thread nobody has seen yet.
LEMMA LoadStartDecided ==
    ASSUME Orderly, FlowInv, DecidedInv, LoadStart
    PROVE  DecidedInv'
<1> USE LedgeredJobs DEF Orderly
<1> DEFINE mem == Pending(thread, "supervisor", 0)
<1>0. run \in [Jobs -> Run] /\ thread \in Thread /\ 0 \in 0..MaxProposals
  BY FlowAssumption DEF FlowInv, TypeOK
<1>1. mem.next = "supervisor"
  BY <1>0, PendingType
<1>2. /\ UNCHANGED <<state, payload, request, applied>>
      /\ thread' = mem
      /\ run' = [run EXCEPT !["start"] = [at |-> "graph", mem |-> mem]]
  BY <1>1 DEF LoadStart, Checkpointed, Goto, queue
<1>3. /\ state["start"] = "held" /\ ~Loaded("start")
  BY DecidedFacts DEF LoadStart, Loaded
<1>4. \A d \in Decisions : request[d].at = "new"
  BY <1>3 DEF DecidedInv, BeforeTheStart
<1>5. \A j \in Decisions : run[j].at = "idle" /\ run'[j].at = "idle" /\ state[j] = "absent"
  BY <1>0, <1>2, <1>4, DecidedFacts
<1>6. run'["start"].at = "graph" /\ run'["start"].mem = mem
  BY <1>0, <1>2
<1>7. OneDriver' /\ DriversDrive'
  BY <1>1, <1>2, <1>5, <1>6 DEF OneDriver, DriversDrive, Driving
<1>8. BeforeTheStart' /\ OneDecisionEach' /\ JobsOfDecisions' /\ ExecutedAsApproved'
  BY <1>2, <1>6
     DEF DecidedInv, BeforeTheStart, Loaded, OneDecisionEach, JobsOfDecisions, ExecutedAsApproved
<1>9. ThreadWaits'
  BY <1>2, <1>4 DEF ThreadWaits, Awaited
<1>10. AppliedOnce'
  BY <1>2, <1>4, DecidedFacts DEF AppliedOnce
<1> QED
  BY <1>7, <1>8, <1>9, <1>10 DEF DecidedInv

\* A resume picks up the thread its decision was shown: nobody drives it, and no
\* other decision waits there.
LEMMA LoadResumeDecided ==
    ASSUME Orderly, FlowInv, DecidedInv, NEW j \in Decisions, LoadResume(j)
    PROVE  DecidedInv'
<1> USE LedgeredJobs DEF Orderly
<1>0. run \in [Jobs -> Run]
  BY DEF FlowInv, TypeOK
<1>1. /\ run[j].at = "claimed" /\ state[j] = "held" /\ ~Loaded(j)
      /\ request[j].at = "accepted"
  BY DecidedFacts DEF LoadResume, Loaded
<1>2. /\ Awaited(j) /\ thread.next = "execute_change" /\ thread.proposal = request[j].shown
      /\ \A i \in Jobs : ~Driving(i)
  BY <1>1 DEF Awaited, DecidedInv, ThreadWaits
<1>3. /\ UNCHANGED <<state, payload, request, thread, applied>>
      /\ run' = [run EXCEPT ![j] = [at |-> "graph", mem |-> thread]]
  BY <1>2 DEF LoadResume, Goto, queue
<1>4. /\ run'[j].at = "graph" /\ run'[j].mem = thread
      /\ \A i \in Jobs \ {j} : run'[i] = run[i]
  BY <1>0, <1>3
<1>5. Loaded(j)' /\ \A i \in Jobs \ {j} : Loaded(i)' <=> Loaded(i)
  BY <1>3, <1>4 DEF Loaded
<1>6. OneDriver' /\ DriversDrive'
  <2>1. \A i \in Jobs : Driving(i)' => i = j
    BY <1>2, <1>4 DEF Driving
  <2>2. PastTheInterrupt(j)' /\ run'[j].mem.next = "execute_change"
    BY <1>2, <1>3, <1>4 DEF PastTheInterrupt
  <2> QED
    BY <1>4, <2>1, <2>2 DEF OneDriver, DriversDrive, Driving
<1>7. BeforeTheStart'
  BY <1>2, <1>5 DEF DecidedInv, BeforeTheStart
<1>8. OneDecisionEach' /\ JobsOfDecisions' /\ ExecutedAsApproved'
  BY <1>3 DEF DecidedInv, OneDecisionEach, JobsOfDecisions, ExecutedAsApproved
<1>9. ThreadWaits'
  <2> SUFFICES ASSUME NEW d \in Decisions, Awaited(d)' PROVE FALSE
    BY DEF ThreadWaits
  <2>1. d # j /\ Awaited(d)
    BY <1>3, <1>5 DEF Awaited
  <2>2. thread.proposal = request[d].shown
    BY <2>1 DEF DecidedInv, ThreadWaits
  <2> QED
    BY <1>1, <1>2, <2>1, <2>2 DEF DecidedInv, OneDecisionEach, Awaited
<1>10. AppliedOnce'
  BY <1>1, <1>3, <1>4, DecidedFacts DEF DecidedInv, AppliedOnce
<1> QED
  BY <1>6, <1>7, <1>8, <1>9, <1>10 DEF DecidedInv

\* The one driver's node completes: its copy becomes the thread, and it goes on
\* in the investigation or stops.
LEMMA DriverCheckpoints ==
    ASSUME Orderly, FlowInv, DecidedInv, NEW j \in Jobs, Driving(j),
           NEW mem \in Thread, mem.next # "none", Checkpointed(j, mem),
           run[j].at = "device" => mem.next = "end",
           UNCHANGED <<state, payload, request, applied>>
    PROVE  DecidedInv'
<1> USE LedgeredJobs DEF Orderly
<1>0. run \in [Jobs -> Run] /\ state[j] = "held"
  BY DecidedFacts DEF FlowInv, TypeOK, Driving
<1>1. /\ thread' = mem /\ run'[j].mem = mem
      /\ run'[j].at = (IF mem.next \in {"execute_change", "end"} THEN "returned" ELSE "graph")
      /\ \A i \in Jobs \ {j} : run'[i] = run[i]
  BY <1>0 DEF Checkpointed, Goto
<1>2. mem.next \in {"supervisor", "firewall_specialist", "execute_change", "end"}
  BY DEF Thread
<1>3. \A i \in Jobs : Driving(i)' => i = j
  BY <1>1 DEF DecidedInv, OneDriver, Driving
<1>4. Loaded(j) /\ Loaded("start") /\ \A i \in Jobs : Loaded(i)' <=> Loaded(i)
  BY <1>1, DecidedFacts DEF Loaded, Driving
<1>5. OneDriver' /\ DriversDrive'
  BY <1>1, <1>2, <1>3 DEF OneDriver, DriversDrive, Driving
<1>6. BeforeTheStart' /\ OneDecisionEach' /\ JobsOfDecisions' /\ ExecutedAsApproved'
  BY <1>4 DEF DecidedInv, BeforeTheStart, OneDecisionEach, JobsOfDecisions, ExecutedAsApproved
<1>7. ThreadWaits'
  <2>1. \A d \in Decisions : ~Awaited(d)
    BY DEF DecidedInv, ThreadWaits
  <2> QED
    BY <1>4, <2>1 DEF ThreadWaits, Awaited
<1>8. AppliedOnce'
  <2> SUFFICES ASSUME NEW e \in applied
               PROVE  run'[e.key].at \notin {"claimed", "graph"} /\ state[e.key] # "waiting"
    BY DEF AppliedOnce
  <2>1. /\ run[e.key].at \notin {"claimed", "graph"} /\ state[e.key] # "waiting"
        /\ e.key \in Decisions
    BY DecidedFacts DEF DecidedInv, AppliedOnce
  <2>2. CASE e.key = j
    BY <1>1, <2>1, <2>2 DEF Driving
  <2>3. CASE e.key # j
    BY <1>1, <2>1, <2>3
  <2> QED
    BY <2>2, <2>3
<1> QED
  BY <1>5, <1>6, <1>7, <1>8 DEF DecidedInv

\* The nodes of the graph, and the executor's answer put into the thread.
LEMMA NodesDecided ==
    ASSUME Orderly, FlowInv, DecidedInv, NEW j \in Jobs,
           GraphStep(j) \/ Rejecting(j) \/ Settle(j)
    PROVE  DecidedInv'
<1>0. /\ Driving(j) /\ run[j].mem \in Thread
      /\ UNCHANGED <<state, payload, request, applied>>
  BY RunFacts
     DEF GraphStep, SupervisorTurn, SpecialistTurn, Rejecting, Settle, Driving, queue
<1>1. ASSUME run[j].at = "graph", NEW n \in {"supervisor", "firewall_specialist", "end"},
             Checkpointed(j, GoneTo(run[j].mem, n))
      PROVE  DecidedInv'
  <2>1. GoneTo(run[j].mem, n) \in Thread /\ GoneTo(run[j].mem, n).next # "none"
    BY <1>0, <1>1, GoneToType
  <2> QED
    BY <1>0, <1>1, <2>1, DriverCheckpoints
<1>2. ASSUME run[j].at = "graph", NEW n \in {"firewall_specialist", "execute_change"},
             NEW p \in 0..MaxProposals, Checkpointed(j, Pending(run[j].mem, n, p))
      PROVE  DecidedInv'
  <2>1. Pending(run[j].mem, n, p) \in Thread /\ Pending(run[j].mem, n, p).next # "none"
    BY <1>0, <1>2, PendingType
  <2> QED
    BY <1>0, <1>2, <2>1, DriverCheckpoints
<1>3. CASE SupervisorTurn(j)
  BY <1>1, <1>3 DEF SupervisorTurn
<1>4. CASE SpecialistTurn(j)
  <2>1. CASE \E n \in {"firewall_specialist", "end"} : Checkpointed(j, GoneTo(run[j].mem, n))
    BY <1>1, <1>4, <2>1 DEF SpecialistTurn
  <2>2. CASE /\ proposals < MaxProposals
             /\ Checkpointed(j, Pending(run[j].mem, "execute_change", proposals + 1))
    <3>1. proposals + 1 \in 0..MaxProposals
      BY <2>2, FlowAssumption DEF FlowInv, TypeOK
    <3> QED
      BY <1>2, <1>4, <2>2, <3>1 DEF SpecialistTurn
  <2> QED
    BY <1>4, <2>1, <2>2 DEF SpecialistTurn
<1>5. CASE Rejecting(j)
  <2>1. 0 \in 0..MaxProposals
    BY FlowAssumption
  <2> QED
    BY <1>2, <1>5, <2>1 DEF Rejecting
<1>6. CASE Settle(j)
  <2>1. run[j].at = "device" /\ Checkpointed(j, run[j].mem)
    BY <1>6 DEF Settle
  <2>2. run[j].mem.next = "end"
    BY <2>1 DEF DecidedInv, DriversDrive
  <2> QED
    BY <1>0, <2>1, <2>2, DriverCheckpoints
<1> QED
  BY <1>3, <1>4, <1>5, <1>6 DEF GraphStep

\* The change itself: the run that is past the interrupt has the proposal its
\* decision was shown, and nothing was executed under that decision before.
LEMMA ExecuteDecided ==
    ASSUME Orderly, FlowInv, DecidedInv, NEW j \in Decisions, Execute(j)
    PROVE  DecidedInv'
<1> USE LedgeredJobs DEF Orderly
<1> DEFINE e == [proposal |-> run[j].mem.proposal, key |-> j]
           mem == Executed(run[j].mem, e)
<1>0. /\ run \in [Jobs -> Run] /\ run[j].at = "graph" /\ state[j] = "held" /\ payload[j] = j
  BY DecidedFacts DEF Execute, FlowInv, TypeOK
<1>1. /\ PastTheInterrupt(j) /\ Driving(j) /\ \A i \in Jobs \ {j} : ~Driving(i)
  BY <1>0 DEF Execute, DecidedInv, OneDriver, DriversDrive, Driving
<1>2. \A x \in applied : x.key # j
  BY <1>0 DEF DecidedInv, AppliedOnce
<1>3. /\ UNCHANGED <<state, payload, request, thread>>
      /\ applied' = applied \cup {e}
      /\ run' = [run EXCEPT ![j] = [at |-> "device", mem |-> mem]]
  BY <1>2 DEF Execute, Goto, queue
<1>4. /\ mem.next = "end" /\ mem.proposal = run[j].mem.proposal
  <2>1. run[j].mem \in Thread
    BY <1>0, RunFacts
  <2>2. e \in Execution
    BY <2>1 DEF Thread, Execution
  <2> QED
    BY <2>1, <2>2, ExecutedType
<1>5. /\ run'[j].at = "device" /\ run'[j].mem = mem
      /\ \A i \in Jobs \ {j} : run'[i] = run[i]
  BY <1>0, <1>3
<1>6. Loaded(j) /\ \A i \in Jobs : Loaded(i)' <=> Loaded(i)
  BY <1>0, <1>3, <1>5 DEF Loaded
<1>7. OneDriver' /\ DriversDrive'
  <2>1. \A i \in Jobs : Driving(i)' => i = j
    BY <1>1, <1>5 DEF Driving
  <2>2. PastTheInterrupt(j)'
    BY <1>1, <1>3, <1>4, <1>5 DEF PastTheInterrupt
  <2> QED
    BY <1>4, <1>5, <2>1, <2>2 DEF OneDriver, DriversDrive, Driving
<1>8. BeforeTheStart' /\ OneDecisionEach' /\ JobsOfDecisions'
  BY <1>3, <1>6 DEF DecidedInv, BeforeTheStart, OneDecisionEach, JobsOfDecisions
<1>9. ThreadWaits'
  <2>1. \A d \in Decisions : ~Awaited(d)
    BY <1>1 DEF DecidedInv, ThreadWaits
  <2> QED
    BY <1>3, <1>6, <2>1 DEF ThreadWaits, Awaited
<1>10. AppliedOnce'
  BY <1>0, <1>2, <1>3, <1>5, DecidedFacts DEF DecidedInv, AppliedOnce
<1>11. ExecutedAsApproved'
  BY <1>0, <1>1, <1>3 DEF DecidedInv, ExecutedAsApproved, PastTheInterrupt
<1> QED
  BY <1>7, <1>8, <1>9, <1>10, <1>11 DEF DecidedInv

\* The execution record is no business of the thread.
LEMMA RecordDecided ==
    ASSUME Orderly, FlowInv, DecidedInv, NEW j \in Jobs, Record(j)
    PROVE  DecidedInv'
<1> USE LedgeredJobs DEF Orderly
<1>0. run \in [Jobs -> Run] /\ run[j].at = "returned"
  BY DEF Record, FlowInv, TypeOK
<1>1. UNCHANGED <<state, payload, request, thread, applied>>
  BY DEF Record, queue
<1>2. run'[j].at = "recorded" /\ \A i \in Jobs \ {j} : run'[i] = run[i]
  BY <1>0 DEF Record, Goto
<1>3. \A i \in Jobs : /\ Loaded(i)' <=> Loaded(i)
                      /\ Driving(i)' <=> Driving(i)
                      /\ Driving(i) => run'[i] = run[i]
  BY <1>0, <1>1, <1>2 DEF Loaded, Driving
<1>4. OneDriver' /\ DriversDrive'
  <2>1. \A i \in Jobs : run'[i].at \in {"graph", "device"} => Driving(i)
    BY <1>3 DEF Driving
  <2>2. \A i \in Jobs : Driving(i) /\ PastTheInterrupt(i) => PastTheInterrupt(i)'
    BY <1>1, <1>3 DEF PastTheInterrupt
  <2> QED
    BY <1>1, <1>3, <2>1, <2>2 DEF DecidedInv, OneDriver, DriversDrive, Driving
<1>5. BeforeTheStart' /\ OneDecisionEach' /\ JobsOfDecisions' /\ ExecutedAsApproved'
  BY <1>1, <1>3 DEF DecidedInv, BeforeTheStart, OneDecisionEach, JobsOfDecisions,
                    ExecutedAsApproved
<1>6. ThreadWaits'
  BY <1>1, <1>3 DEF DecidedInv, ThreadWaits, Awaited
<1>7. AppliedOnce'
  <2>1. \A x \in applied : /\ run[x.key].at \notin {"claimed", "graph"}
                           /\ state[x.key] # "waiting" /\ x.key \in Jobs
    BY DecidedFacts DEF DecidedInv, AppliedOnce
  <2> QED
    BY <1>1, <1>2, <2>1 DEF AppliedOnce
<1> QED
  BY <1>4, <1>5, <1>6, <1>7 DEF DecidedInv

\* The invariant reads nothing but the flow's variables.
LEMMA DecidedStutters ==
    ASSUME DecidedInv, UNCHANGED flowVars
    PROVE  DecidedInv'
  BY DEF flowVars, queue, DecidedInv, JobsOfDecisions, BeforeTheStart, OneDecisionEach,
         OneDriver, DriversDrive, ThreadWaits, AppliedOnce, ExecutedAsApproved, Loaded,
         Driving, Awaited, PastTheInterrupt

\* Every step keeps the invariant; no run is given up.
LEMMA DecidedStep ==
    ASSUME Orderly, FlowInv, DecidedInv, [Next]_flowVars
    PROVE  DecidedInv'
<1>0. /\ "start" \in Jobs /\ Resumes = Decisions /\ Decisions \subseteq Jobs
      /\ JobsOfDecisions'
  BY LedgeredJobs, JobsOfDecisionsStep DEF Orderly, DecidedInv
<1>1. CASE UNCHANGED flowVars
  BY <1>1, DecidedStutters
<1>2. ASSUME NEW d \in Decisions, Endpoint(d) PROVE DecidedInv'
  BY <1>0, <1>2, CheckDecided, EndpointDecided DEF Endpoint
<1>3. CASE Trigger \/ (\E w \in Workers : HandOut("start", w)) \/ Finish("start")
  BY <1>0, <1>3, QueueDecided
<1>4. CASE LoadStart
  BY <1>4, LoadStartDecided
<1>5. CASE Record("start")
  BY <1>0, <1>5, RecordDecided
<1>6. ASSUME NEW j \in Decisions, ResumeStep(j) PROVE DecidedInv'
  BY <1>0, <1>6, QueueDecided, LoadResumeDecided, NodesDecided, ExecuteDecided, RecordDecided
     DEF ResumeStep
<1>7. ASSUME NEW j \in Jobs, GraphStep(j) PROVE DecidedInv'
  BY <1>7, NodesDecided
<1>8. ASSUME NEW j \in Jobs, GiveUp(j) PROVE FALSE
  BY <1>8 DEF GiveUp, Orderly, FlowInv, TypeOK
<1> QED
  BY <1>0, <1>1, <1>2, <1>3, <1>4, <1>5, <1>6, <1>7, <1>8 DEF Next

\* Before the alert nobody decided, drove or waited.
LEMMA DecidedInit ==
    ASSUME Orderly, Init
    PROVE  DecidedInv
<1> USE LedgeredJobs DEF Orderly
<1>1. /\ \A d \in Decisions : request[d].at = "new" /\ state[d] = "absent"
      /\ \A j \in Jobs : run[j].at = "idle"
      /\ thread.next = "none" /\ applied = {}
  BY DEF Init, Queue!Init, IdleRun, NoThread
<1>2. JobsOfDecisions /\ BeforeTheStart /\ OneDecisionEach /\ ThreadWaits
  BY <1>1 DEF JobsOfDecisions, BeforeTheStart, OneDecisionEach, ThreadWaits, Awaited
<1>3. OneDriver /\ DriversDrive
  BY <1>1 DEF OneDriver, DriversDrive, Driving
<1>4. AppliedOnce /\ ExecutedAsApproved
  BY <1>1 DEF AppliedOnce, ExecutedAsApproved
<1> QED
  BY <1>2, <1>3, <1>4 DEF DecidedInv

\* With a ledger, where people decide on each proposal once and no run has to be
\* given up, what is executed under an approval is the proposal its approver was
\* shown, through any number of proposals, rejections and further turns of the
\* model.
THEOREM ApprovedIsExecuted ==
    Ledgered /\ DecideOnce /\ MaxGiveUps = 0 => (Spec => []ExecutedAsApproved)
<1> SUFFICES ASSUME Orderly PROVE Spec => []ExecutedAsApproved
  BY DEF Orderly
<1>1. Init => DecidedInv
  BY DecidedInit
<1>2. FlowInv /\ DecidedInv /\ [Next]_flowVars => DecidedInv'
  BY DecidedStep
<1>3. DecidedInv => ExecutedAsApproved
  BY DEF DecidedInv
<1> QED
  BY <1>1, <1>2, <1>3, FlowInvHolds, PTL DEF Spec

-----------------------------------------------------------------------------
(* The queue: the flow asks of it what JobDelivery promises and no more.   *)

\* A job that is held is held by a worker.
LEMMA HeldStep ==
    ASSUME FlowInv, HeldByWorkers, [Next]_flowVars
    PROVE  HeldByWorkers' /\ [Queue!Next]_queue
<1>0. /\ state \in [Jobs -> {"absent", "waiting", "held", "done"}]
      /\ "start" \in Jobs /\ Resumes \subseteq Jobs
  BY DEF FlowInv, TypeOK, Jobs
<1>1. ASSUME UNCHANGED queue PROVE HeldByWorkers' /\ [Queue!Next]_queue
  BY <1>1 DEF queue, HeldByWorkers
<1>2. ASSUME NEW j \in Jobs, Queue!Submit(j) PROVE HeldByWorkers' /\ [Queue!Next]_queue
  BY <1>0, <1>2 DEF Queue!Submit, Queue!Next, HeldByWorkers
<1>3. ASSUME NEW j \in Jobs, NEW w \in Workers, Queue!HandOut(j, w)
      PROVE  HeldByWorkers' /\ [Queue!Next]_queue
  BY <1>0, <1>3 DEF Queue!HandOut, Queue!Next, HeldByWorkers, FlowInv, TypeOK
<1>4. ASSUME NEW j \in Jobs, Queue!Finish(j) PROVE HeldByWorkers' /\ [Queue!Next]_queue
  BY <1>0, <1>4 DEF Queue!Finish, Queue!Next, HeldByWorkers, FlowInv, TypeOK
<1>5. ASSUME NEW j \in Jobs, Queue!GiveUp(holder[j], {j})
      PROVE  HeldByWorkers' /\ [Queue!Next]_queue
  <2>1. holder[j] \in Workers /\ {j} \in SUBSET Jobs
    BY <1>5 DEF Queue!GiveUp, HeldByWorkers
  <2>2. Queue!Next
    BY <1>5, <2>1 DEF Queue!Next
  <2>3. HeldByWorkers'
    BY <1>0, <1>5 DEF Queue!GiveUp, HeldByWorkers
  <2> QED
    BY <2>2, <2>3
<1>6. ASSUME NEW d \in Decisions, Endpoint(d) PROVE HeldByWorkers' /\ [Queue!Next]_queue
  <2>1. Hash(d, request[d].choice) \in Jobs
    BY DEF Hash, Jobs, Resumes, FlowInv, TypeOK, Request
  <2> QED
    BY <1>1, <1>2, <1>6, <2>1 DEF Endpoint, Check, Seal, Enqueue, RefuseFull
<1>7. CASE Trigger
  BY <1>0, <1>2, <1>7 DEF Trigger
<1>8. ASSUME NEW j \in Jobs,
             (\E w \in Workers : HandOut(j, w)) \/ Finish(j) \/ GiveUp(j)
      PROVE  HeldByWorkers' /\ [Queue!Next]_queue
  BY <1>3, <1>4, <1>5, <1>8 DEF HandOut, Finish, GiveUp
<1>9. ASSUME NEW j \in Jobs,
             \/ LoadStart \/ LoadResume(j) \/ GraphStep(j) \/ Rejecting(j) \/ Execute(j)
             \/ Settle(j) \/ Record(j)
      PROVE  HeldByWorkers' /\ [Queue!Next]_queue
  <2>1. UNCHANGED queue
    BY <1>9 DEF LoadStart, LoadResume, GraphStep, SupervisorTurn, SpecialistTurn, Rejecting,
                Execute, Settle, Record
  <2> QED
    BY <1>1, <2>1
<1>10. CASE UNCHANGED flowVars
  <2>1. UNCHANGED queue
    BY <1>10 DEF flowVars, queue
  <2> QED
    BY <1>1, <2>1
<1> QED
  BY <1>0, <1>6, <1>7, <1>8, <1>9, <1>10 DEF Next, ResumeStep

\* Whatever the endpoints and the runs do, the jobs go through the queue as
\* JobDelivery says: that is all the flow needs of JobQueue, and JobQueue is
\* proved to give it while leases are kept.
THEOREM UsesDelivery == Spec => Queue!Spec
<1>1. Init => HeldByWorkers /\ Queue!Init
  BY DEF Init, Queue!Init, HeldByWorkers
<1>2. FlowInv /\ HeldByWorkers /\ [Next]_flowVars => HeldByWorkers' /\ [Queue!Next]_(Queue!deliveryVars)
  BY HeldStep DEF queue, Queue!deliveryVars
<1> QED
  BY <1>1, <1>2, FlowInvHolds, PTL DEF Spec, Queue!Spec
=============================================================================
