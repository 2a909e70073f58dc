--------------------------- MODULE JobQueueProofs ---------------------------
(* Theorems about JobQueue, for every number of keys, workers, requests,    *)
(* attempts and faults.                                                     *)
EXTENDS JobQueue, FiniteSetTheorems, TLAPS

\* What a statement writes into a row is a row.
LEMMA RowTypes ==
    /\ AbsentRow \in Row
    /\ \A n \in Nat : Inserted(n) \in Row
    /\ \A r \in Row, w \in Workers : Leased(r, w) \in Row
    /\ \A r \in Row : /\ Reclaimed(r) \in Row
                      /\ Succeeded(r) \in Row
                      /\ Buried(r) \in Row
                      /\ Requeued(r) \in Row
                      /\ Available(r) \in Row
                      /\ WithLease(r, "live") \in Row
                      /\ WithLease(r, "lapsed") \in Row
<1>1. AbsentRow \in Row
  BY DEF Row, Status, AbsentRow
<1>2. ASSUME NEW n \in Nat PROVE Inserted(n) \in Row
  BY DEF Row, Status, Inserted, AbsentRow
<1>3. ASSUME NEW r \in Row, NEW w \in Workers PROVE Leased(r, w) \in Row
  <2> DEFINE n == r.attempts + 1
  <2>1. r.attempts \in Nat
    BY DEF Row
  <2>2. n \in Nat
    BY <2>1
  <2>3. Leased(r, w) = [r EXCEPT !.status = "running", !.attempts = n,
                          !.owner = w, !.lease = "live", !.error = ""]
    BY DEF Leased
  <2> HIDE DEF n
  <2>4. QED
    BY <2>2, <2>3 DEF Row, Status
<1>4. ASSUME NEW r \in Row PROVE Reclaimed(r) \in Row
  BY DEF Row, Status, Reclaimed
<1>5. ASSUME NEW r \in Row PROVE Succeeded(r) \in Row /\ Available(r) \in Row
  BY DEF Row, Status, Succeeded, Available
<1>6. ASSUME NEW r \in Row PROVE Buried(r) \in Row
  BY DEF Row, Status, Buried
<1>7. ASSUME NEW r \in Row PROVE Requeued(r) \in Row
  BY DEF Row, Status, Requeued
<1>8. ASSUME NEW r \in Row PROVE WithLease(r, "live") \in Row
  BY DEF Row, Status, WithLease
<1>9. ASSUME NEW r \in Row PROVE WithLease(r, "lapsed") \in Row
  BY DEF Row, Status, WithLease
<1>10. QED
  BY <1>1, <1>2, <1>3, <1>4, <1>5, <1>6, <1>7, <1>8, <1>9

\* Moving a call or a coroutine on, or ending its heartbeat, leaves one.
LEMMA ActorTypes ==
    /\ \A p \in Producers, k \in Keys : NewCall(p, k) \in Call
    /\ \A c \in Call : Admitted(c) \in Call
    /\ \A t \in Task, a \in {"run", "complete", "fail"} : At(t, a) \in Task
    /\ \A t \in Task : Silent(t) \in Task
    /\ TypeOK => \A w \in Workers, k \in Keys : NewTask(w, k) \in Task
<1>1. \A p \in Producers, k \in Keys : NewCall(p, k) \in Call
  BY DEF Call, NewCall
<1>2. \A c \in Call : Admitted(c) \in Call
  BY DEF Call, Admitted
<1>3. \A t \in Task, a \in {"run", "complete", "fail"} : At(t, a) \in Task
  BY DEF Task, At
<1>4. \A t \in Task : Silent(t) \in Task
  BY DEF Task, Silent
<1>5. ASSUME TypeOK, NEW w \in Workers, NEW k \in Keys PROVE NewTask(w, k) \in Task
  <2>1. rows[k].attempts \in Nat
    BY <1>5 DEF TypeOK, Row
  <2>2. rows[k].attempts + 1 \in Nat \ {0}
    BY <2>1
  <2>3. QED
    BY <2>2 DEF Task, NewTask
<1>6. QED
  BY <1>1, <1>2, <1>3, <1>4, <1>5

\* The empty table, with every worker polling, is well typed.
LEMMA TypeInit == Init => TypeOK
  BY QueueAssumption, RowTypes DEF Init, TypeOK

\* Every step keeps the types.
LEMMA TypeStep == TypeOK /\ [Next]_queueVars => TypeOK'
<1> SUFFICES ASSUME TypeOK, [Next]_queueVars PROVE TypeOK'
  OBVIOUS
<1> USE QueueAssumption DEF TypeOK
<1>1. ASSUME NEW p \in Producers, NEW k \in Keys, ReadDepth(p, k) PROVE TypeOK'
  BY <1>1, ActorTypes DEF ReadDepth, faults
<1>2. ASSUME NEW c \in calls, LookUp(c) PROVE TypeOK'
  BY <1>2, ActorTypes DEF LookUp, faults
<1>3. ASSUME NEW c \in calls, Insert(c) PROVE TypeOK'
  BY <1>3, RowTypes DEF Insert, faults
<1>4. ASSUME NEW w \in Workers, ReclaimExpired(w) PROVE TypeOK'
  BY <1>4, RowTypes DEF ReclaimExpired, faults
<1>5. ASSUME NEW w \in Workers, NEW k \in Keys, ClaimNext(w, k) PROVE TypeOK'
  <2>1. rows' \in [Keys -> Row]
    BY <1>5, RowTypes DEF ClaimNext
  <2>2. QED
    BY <1>5, <2>1, ActorTypes DEF ClaimNext, faults
<1>6. ASSUME NEW w \in Workers, ClaimNone(w) PROVE TypeOK'
  BY <1>6 DEF ClaimNone, faults
<1>7. ASSUME NEW t \in tasks, RunTask(t) PROVE TypeOK'
  <2>1. CASE RunJob(t)
    BY <2>1, ActorTypes DEF RunJob, Replace, faults
  <2>2. CASE Complete(t)
    BY <2>2, RowTypes DEF Complete, faults
  <2>3. CASE CompleteError(t)
    BY <2>3, RowTypes, ActorTypes DEF CompleteError, Replace
  <2>4. CASE Fail(t)
    BY <2>4, RowTypes DEF Fail, faults
  <2>5. CASE FailError(t)
    BY <2>5 DEF FailError
  <2>6. QED
    BY <1>7, <2>1, <2>2, <2>3, <2>4, <2>5 DEF RunTask
<1>8. ASSUME NEW t \in tasks, Heartbeat(t) \/ HeartbeatError(t) PROVE TypeOK'
  <2>1. CASE Heartbeat(t)
    BY <2>1, RowTypes, ActorTypes DEF Heartbeat, Replace, faults
  <2>2. CASE HeartbeatError(t)
    BY <2>2, ActorTypes DEF HeartbeatError, Replace
  <2>3. QED
    BY <1>8, <2>1, <2>2
<1>9. ASSUME NEW k \in Keys, Clock(k) PROVE TypeOK'
  BY <1>9, RowTypes DEF Clock, LapseUnbeaten, LapseLate, BecomeAvailable, faults
<1>10. ASSUME NEW w \in Workers, Process(w) PROVE TypeOK'
  BY <1>10 DEF Process, Crash, RequestStop, Stopped, Start, TasksOf, faults
<1>11. CASE UNCHANGED queueVars
  BY <1>11 DEF queueVars, faults
<1>12. QED
  BY <1>1, <1>2, <1>3, <1>4, <1>5, <1>6, <1>7, <1>8, <1>9, <1>10, <1>11
     DEF Next, Enqueue, Poll

\* Every variable keeps its type (the row, call and coroutine records).
THEOREM TypeCorrect == Spec => []TypeOK
  BY TypeInit, TypeStep, PTL DEF Spec

-----------------------------------------------------------------------------
\* What the proofs need to know of the rows the statements write.
LEMMA RowFields ==
    /\ AbsentRow.status = "absent" /\ AbsentRow.attempts = 0
    /\ \A n \in Nat : Inserted(n).status = "queued" /\ Inserted(n).attempts = 0
    /\ \A r \in Row, w \in Workers :
          /\ Leased(r, w).status = "running" /\ Leased(r, w).owner = w
          /\ Leased(r, w).lease = "live"
          /\ Leased(r, w).attempts = r.attempts + 1
    /\ \A r \in Row :
          /\ Reclaimed(r).status = "queued" /\ Reclaimed(r).attempts = r.attempts
          /\ Succeeded(r).status = "succeeded" /\ Succeeded(r).attempts = r.attempts
          /\ Buried(r).status = "dead" /\ Buried(r).attempts = r.attempts
          /\ Buried(r).error = "raised"
          /\ Requeued(r).status = "queued" /\ Requeued(r).attempts = r.attempts
          /\ Available(r).status = r.status /\ Available(r).attempts = r.attempts
    /\ \A r \in Row, l \in {"live", "lapsed"} :
          /\ WithLease(r, l).status = r.status /\ WithLease(r, l).owner = r.owner
          /\ WithLease(r, l).lease = l
          /\ WithLease(r, l).attempts = r.attempts
  BY DEF Row, AbsentRow, Inserted, Leased, Reclaimed, Succeeded, Buried, Requeued,
         Available, WithLease

\* A coroutine that moves on, or falls silent, is still the same attempt.
LEMMA TaskFields ==
    /\ \A t \in Task, a \in {"run", "complete", "fail"} :
          /\ At(t, a).worker = t.worker /\ At(t, a).key = t.key
          /\ At(t, a).attempt = t.attempt /\ At(t, a).beats = t.beats
          /\ At(t, a).at = a
    /\ \A t \in Task :
          /\ Silent(t).worker = t.worker /\ Silent(t).key = t.key
          /\ Silent(t).attempt = t.attempt /\ Silent(t).at = t.at
    /\ \A w \in Workers, k \in Keys :
          /\ NewTask(w, k).worker = w /\ NewTask(w, k).key = k
          /\ NewTask(w, k).attempt = rows[k].attempts + 1
          /\ NewTask(w, k).beats
  BY DEF Task, At, Silent, NewTask

\* Replacing a coroutine by one with the same worker, key and attempt.
LEMMA SameAttempt ==
    ASSUME QueueInv, NEW t \in tasks, NEW u, TypeOK',
           u.worker = t.worker, u.key = t.key, u.attempt = t.attempt,
           t.at = "fail" => u.at = "fail",
           Replace(t, u), UNCHANGED <<rows, reclaims, lostReplies>>
    PROVE  QueueInv'
<1>1. /\ TasksBehindRows' /\ DeadLetterSpent' /\ UnreclaimedIsCurrent'
  BY DEF QueueInv, TasksBehindRows, DeadLetterSpent, UnreclaimedIsCurrent, SettledUnheard,
         Replace
<1>2. NewestClaimHoldsLease'
  BY DEF QueueInv, NewestClaimHoldsLease, Replace
<1>3. QED
  BY <1>1, <1>2 DEF QueueInv

\* A statement that writes one row: what the coroutines left know of it stays true.
LEMMA RowWritten ==
    ASSUME QueueInv, TypeOK', NEW k \in Keys, NEW r \in Row, rows' = [rows EXCEPT ![k] = r],
           UNCHANGED <<reclaims, lostReplies>>, tasks' \subseteq tasks,
           \A t \in tasks' : t.key = k =>
                /\ r.status # "absent" /\ r.attempts = rows[k].attempts
                /\ reclaims[k] # 0 \/ r.status = rows[k].status,
           r.status = "running" =>
                /\ rows[k].status = "running" /\ r.owner = rows[k].owner
                /\ r.attempts = rows[k].attempts,
           r.status = "dead" => r.attempts >= MaxAttempts /\ r.error = "raised"
    PROVE  QueueInv'
<1>1. /\ rows'[k] = r /\ \A j \in Keys : j # k => rows'[j] = rows[j]
      /\ \A t \in tasks : t.key \in Keys
  BY DEF QueueInv, TypeOK, Task
<1>2. TasksBehindRows'
  BY <1>1 DEF QueueInv, TasksBehindRows
<1>3. NewestClaimHoldsLease'
  <2>1. \A j \in Keys : rows'[j].status = "running" =>
           /\ rows[j].status = "running" /\ rows'[j].owner = rows[j].owner
           /\ rows'[j].attempts = rows[j].attempts
    BY <1>1
  <2> QED
    BY <2>1 DEF QueueInv, NewestClaimHoldsLease
<1>4. DeadLetterSpent'
  BY <1>1 DEF QueueInv, DeadLetterSpent
<1>5. UnreclaimedIsCurrent'
  <2> SUFFICES ASSUME NEW t \in tasks', reclaims[t.key] = 0
               PROVE  /\ rows'[t.key].attempts = t.attempt
                      /\ rows'[t.key].status = "running" \/ SettledUnheard(t)'
    BY DEF UnreclaimedIsCurrent
  <2>1. /\ rows'[t.key].attempts = rows[t.key].attempts
        /\ rows'[t.key].status = rows[t.key].status
    BY <1>1
  <2> QED
    BY <2>1 DEF QueueInv, UnreclaimedIsCurrent, SettledUnheard
<1> QED
  BY <1>2, <1>3, <1>4, <1>5 DEF QueueInv

\* A coroutine whose complete() committed and raised goes on as settled unheard.
LEMMA SettledUnheardNow ==
    ASSUME QueueInv, TypeOK', NEW t \in tasks, Replace(t, At(t, "fail")), UNCHANGED reclaims,
           rows' = [rows EXCEPT ![t.key] = Succeeded(rows[t.key])],
           lostReplies' = [lostReplies EXCEPT ![t.key] = @ + 1]
    PROVE  QueueInv'
<1>0. /\ t \in Task /\ \A u \in tasks : u.key \in Keys
      /\ \A k \in Keys : rows[k] \in Row /\ lostReplies[k] \in Nat
  BY DEF QueueInv, TypeOK, Task
<1>1. /\ rows'[t.key].status = "succeeded" /\ lostReplies'[t.key] > 0
      /\ \A k \in Keys : /\ rows'[k].attempts = rows[k].attempts
                         /\ k # t.key => /\ rows'[k] = rows[k]
                                         /\ lostReplies'[k] = lostReplies[k]
  BY <1>0, RowFields DEF QueueInv, TypeOK
<1>2. \A u \in tasks' : u = At(t, "fail") \/ (u \in tasks /\ u # t)
  BY DEF Replace
<1>3. /\ At(t, "fail").key = t.key /\ At(t, "fail").attempt = t.attempt
      /\ At(t, "fail").worker = t.worker /\ At(t, "fail").at = "fail"
  BY <1>0, TaskFields
<1>4. TasksBehindRows'
  BY <1>0, <1>1, <1>2, <1>3 DEF QueueInv, TasksBehindRows
<1>5. NewestClaimHoldsLease'
  <2>1. \A k \in Keys : rows'[k].status = "running" => rows'[k] = rows[k]
    BY <1>0, <1>1
  <2> QED
    BY <1>2, <1>3, <2>1 DEF QueueInv, NewestClaimHoldsLease
<1>6. DeadLetterSpent'
  BY <1>0, <1>1 DEF QueueInv, DeadLetterSpent
<1>7. UnreclaimedIsCurrent'
  <2> SUFFICES ASSUME NEW u \in tasks', reclaims[u.key] = 0
               PROVE  /\ rows'[u.key].attempts = u.attempt
                      /\ rows'[u.key].status = "running" \/ SettledUnheard(u)'
    BY DEF UnreclaimedIsCurrent
  <2>1. rows[t.key].attempts = t.attempt \/ u.key # t.key
    BY DEF QueueInv, UnreclaimedIsCurrent
  <2>2. CASE u = At(t, "fail")
    BY <1>0, <1>1, <1>3, <2>1, <2>2 DEF SettledUnheard
  <2>3. CASE u \in tasks /\ u # t
    <3>1. /\ rows[u.key].attempts = u.attempt
          /\ rows[u.key].status = "running" \/ SettledUnheard(u)
      BY <2>3 DEF QueueInv, UnreclaimedIsCurrent
    <3>2. u.key # t.key
      BY <2>1, <2>3, <3>1 DEF QueueInv, NewestClaimHoldsLease
    <3> QED
      BY <1>0, <1>1, <2>3, <3>1, <3>2 DEF SettledUnheard
  <2> QED
    BY <1>2, <2>2, <2>3
<1> QED
  BY <1>4, <1>5, <1>6, <1>7 DEF QueueInv

\* The inductive step, action by action.
LEMMA QueueInvStep == QueueInv /\ [Next]_queueVars => QueueInv'
<1> SUFFICES ASSUME QueueInv, [Next]_queueVars, TypeOK' PROVE QueueInv'
  BY TypeStep DEF QueueInv
<1> USE QueueAssumption DEF QueueInv, TypeOK, TasksBehindRows,
        NewestClaimHoldsLease, DeadLetterSpent, UnreclaimedIsCurrent, SettledUnheard
<1>0. /\ \A t \in tasks : t \in Task /\ t.key \in Keys /\ t.attempt \in Nat
      /\ \A k \in Keys : rows[k] \in Row /\ rows[k].attempts \in Nat
  BY DEF Task, Row
<1>1. ASSUME NEW p \in Producers, NEW k \in Keys, ReadDepth(p, k) PROVE QueueInv'
  BY <1>1 DEF ReadDepth
<1>2. ASSUME NEW c \in calls, LookUp(c) PROVE QueueInv'
  BY <1>2 DEF LookUp
<1>3. ASSUME NEW c \in calls, Insert(c) PROVE QueueInv'
  <2>1. c.key \in Keys
    BY DEF Call
  <2>2. CASE rows[c.key].status = "absent"
    <3>1. \A t \in tasks : t.key # c.key
      BY <2>2
    <3>2. /\ rows' = [rows EXCEPT ![c.key] = Inserted(nextId)]
          /\ UNCHANGED <<tasks, reclaims, lostReplies>>
      BY <1>3, <2>2 DEF Insert
    <3>3. Inserted(nextId) \in Row /\ Inserted(nextId).status = "queued"
      BY RowTypes, RowFields
    <3>4. QED
      BY <2>1, <3>1, <3>2, <3>3, RowWritten
  <2>3. CASE rows[c.key].status # "absent"
    BY <1>3, <2>3 DEF Insert
  <2>4. QED
    BY <2>2, <2>3
<1>4. ASSUME NEW w \in Workers, ReclaimExpired(w) PROVE QueueInv'
  BY <1>0, <1>4, RowFields DEF ReclaimExpired, Expired
<1>5. ASSUME NEW w \in Workers, NEW k \in Keys, ClaimNext(w, k) PROVE QueueInv'
  BY <1>0, <1>5, RowFields, TaskFields DEF ClaimNext, Claimable
<1>6. ASSUME NEW w \in Workers, ClaimNone(w) PROVE QueueInv'
  BY <1>6 DEF ClaimNone
<1>7. ASSUME NEW t \in tasks, RunJob(t) PROVE QueueInv'
  <2>1. PICK a \in {"run", "complete", "fail"} : Replace(t, At(t, a))
    BY <1>7 DEF RunJob
  <2>2. UNCHANGED <<rows, reclaims, lostReplies>> /\ t.at = "run"
    BY <1>7 DEF RunJob
  <2>3. QED
    BY <1>0, <2>1, <2>2, SameAttempt, TaskFields
<1>17. ASSUME NEW t \in tasks, CompleteError(t) PROVE QueueInv'
  <2>1. Replace(t, At(t, "fail")) /\ UNCHANGED reclaims
    BY <1>17 DEF CompleteError
  <2>2. CASE UNCHANGED <<rows, lostReplies>>
    BY <1>0, <2>1, <2>2, SameAttempt, TaskFields
  <2>3. CASE /\ rows' = [rows EXCEPT ![t.key] = Succeeded(rows[t.key])]
             /\ lostReplies' = [lostReplies EXCEPT ![t.key] = @ + 1]
    BY <2>1, <2>3, SettledUnheardNow
  <2> QED
    BY <1>17, <2>2, <2>3 DEF CompleteError
<1>8. ASSUME NEW t \in tasks, Complete(t) PROVE QueueInv'
  <2>1. \A u \in tasks : u # t /\ u.key = t.key => reclaims[u.key] # 0
    OBVIOUS
  <2>2. /\ rows' = [rows EXCEPT ![t.key] = Succeeded(rows[t.key])]
        /\ UNCHANGED <<reclaims, lostReplies>> /\ tasks' = tasks \ {t}
    BY <1>8 DEF Complete
  <2>3. /\ Succeeded(rows[t.key]) \in Row
        /\ Succeeded(rows[t.key]).status = "succeeded"
        /\ Succeeded(rows[t.key]).attempts = rows[t.key].attempts
    BY <1>0, RowTypes, RowFields
  <2> QED
    BY <1>0, <2>1, <2>2, <2>3, RowWritten
<1>9. ASSUME NEW t \in tasks, Fail(t) PROVE QueueInv'
  <2>0. \A u \in tasks : u # t /\ u.key = t.key => reclaims[u.key] # 0
    OBVIOUS
  <2>1. UNCHANGED <<reclaims, lostReplies>> /\ tasks' = tasks \ {t}
    BY <1>9 DEF Fail
  <2>2. CASE Spent(t)
    <3>1. rows' = [rows EXCEPT ![t.key] = Buried(rows[t.key])]
      BY <1>9, <2>2 DEF Fail
    <3>2. rows[t.key].attempts >= MaxAttempts
      BY <2>2, <1>0 DEF Spent
    <3>3. /\ Buried(rows[t.key]) \in Row
          /\ Buried(rows[t.key]).status = "dead" /\ Buried(rows[t.key]).error = "raised"
          /\ Buried(rows[t.key]).attempts = rows[t.key].attempts
      BY <1>0, RowTypes, RowFields
    <3>4. QED
      BY <1>0, <2>0, <2>1, <3>1, <3>2, <3>3, RowWritten
  <2>3. CASE ~Spent(t)
    <3>1. rows' = [rows EXCEPT ![t.key] = Requeued(rows[t.key])]
      BY <1>9, <2>3 DEF Fail
    <3>2. /\ Requeued(rows[t.key]) \in Row
          /\ Requeued(rows[t.key]).status = "queued"
          /\ Requeued(rows[t.key]).attempts = rows[t.key].attempts
      BY <1>0, RowTypes, RowFields
    <3>3. QED
      BY <1>0, <2>0, <2>1, <3>1, <3>2, RowWritten
  <2>4. QED
    BY <1>9, <2>2, <2>3 DEF Fail
<1>10. ASSUME NEW t \in tasks, FailError(t) PROVE QueueInv'
  BY <1>10 DEF FailError
<1>11. ASSUME NEW t \in tasks, Heartbeat(t) PROVE QueueInv'
  <2>1. CASE rows[t.key].status = "running" /\ rows[t.key].owner = t.worker
    <3>1. /\ rows' = [rows EXCEPT ![t.key] = WithLease(rows[t.key], "live")]
          /\ UNCHANGED <<tasks, reclaims, lostReplies>>
      BY <1>11, <2>1 DEF Heartbeat
    <3>2. /\ WithLease(rows[t.key], "live") \in Row
          /\ WithLease(rows[t.key], "live").status = rows[t.key].status
          /\ WithLease(rows[t.key], "live").owner = rows[t.key].owner
          /\ WithLease(rows[t.key], "live").attempts = rows[t.key].attempts
      BY <1>0, RowTypes, RowFields
    <3>3. QED
      BY <1>0, <2>1, <3>1, <3>2, RowWritten
  <2>2. CASE ~(rows[t.key].status = "running" /\ rows[t.key].owner = t.worker)
    <3>1. Replace(t, Silent(t)) /\ UNCHANGED <<rows, reclaims, lostReplies>>
      BY <1>11, <2>2 DEF Heartbeat
    <3>2. QED
      BY <1>0, <3>1, SameAttempt, TaskFields
  <2>3. QED
    BY <2>1, <2>2
<1>12. ASSUME NEW t \in tasks, HeartbeatError(t) PROVE QueueInv'
  BY <1>0, <1>12, SameAttempt, TaskFields DEF HeartbeatError
<1>13. ASSUME NEW k \in Keys, Clock(k) PROVE QueueInv'
  <2>1. UNCHANGED <<tasks, reclaims, lostReplies>>
    BY <1>13 DEF Clock, LapseUnbeaten, LapseLate, BecomeAvailable
  <2>2. CASE /\ rows[k].status = "running"
             /\ rows' = [rows EXCEPT ![k] = WithLease(rows[k], "lapsed")]
    <3>1. /\ WithLease(rows[k], "lapsed") \in Row
          /\ WithLease(rows[k], "lapsed").status = rows[k].status
          /\ WithLease(rows[k], "lapsed").owner = rows[k].owner
          /\ WithLease(rows[k], "lapsed").attempts = rows[k].attempts
      BY <1>0, RowTypes, RowFields
    <3>2. QED
      BY <1>0, <2>1, <2>2, <3>1, RowWritten
  <2>3. CASE rows[k].status = "queued" /\ rows' = [rows EXCEPT ![k] = Available(rows[k])]
    <3>1. /\ Available(rows[k]) \in Row /\ Available(rows[k]).status = rows[k].status
          /\ Available(rows[k]).attempts = rows[k].attempts
      BY <1>0, RowTypes, RowFields
    <3>2. QED
      BY <1>0, <2>1, <2>3, <3>1, RowWritten
  <2>4. QED
    BY <1>13, <2>2, <2>3 DEF Clock, LapseUnbeaten, LapseLate, BecomeAvailable
<1>14. ASSUME NEW w \in Workers, Process(w) PROVE QueueInv'
  BY <1>14 DEF Process, Crash, RequestStop, Stopped, Start, TasksOf
<1>15. CASE UNCHANGED queueVars
  BY <1>15 DEF queueVars
<1>16. QED
  BY <1>1, <1>2, <1>3, <1>4, <1>5, <1>6, <1>7, <1>8, <1>9, <1>10, <1>11, <1>12,
     <1>13, <1>14, <1>15, <1>17 DEF Next, Enqueue, Poll, RunTask

\* Only the settlement of one of its coroutines moves a settled row.
LEMMA SettledMovesByTask ==
    ASSUME TypeOK, [Next]_queueVars, NEW k \in Keys, rows[k].status \in Terminal,
           rows'[k].status # rows[k].status
    PROVE  \E t \in tasks : (Complete(t) \/ CompleteError(t) \/ Fail(t)) /\ t.key = k
<1> USE DEF TypeOK, Terminal
<1>0. \A j \in Keys : rows[j] \in Row
  OBVIOUS
<1>1. ASSUME Enqueue PROVE FALSE
  BY <1>1 DEF Enqueue, ReadDepth, LookUp, Insert
<1>2. ASSUME NEW w \in Workers, Poll(w) PROVE FALSE
  BY <1>2 DEF Poll, ReclaimExpired, Expired, ClaimNone, ClaimNext, Claimable
<1>3. ASSUME NEW w \in Workers, Process(w) PROVE FALSE
  BY <1>3 DEF Process, Crash, RequestStop, Stopped, Start
<1>4. ASSUME NEW j \in Keys, Clock(j) PROVE FALSE
  BY <1>4 DEF Clock, LapseUnbeaten, LapseLate, BecomeAvailable
<1>5. ASSUME NEW t \in tasks, Heartbeat(t) \/ HeartbeatError(t) PROVE FALSE
  <2>1. \A r \in Row : WithLease(r, "live").status = r.status
    BY RowFields
  <2>2. QED
    BY <1>0, <1>5, <2>1 DEF Heartbeat, HeartbeatError
<1>6. ASSUME NEW t \in tasks, RunJob(t) \/ FailError(t) PROVE FALSE
  BY <1>6 DEF RunJob, FailError
<1>7. ASSUME NEW t \in tasks, Complete(t) \/ CompleteError(t) \/ Fail(t) PROVE t.key = k
  BY <1>7 DEF Complete, CompleteError, Fail
<1>8. ASSUME UNCHANGED queueVars PROVE FALSE
  BY <1>8 DEF queueVars
<1>9. QED
  BY <1>1, <1>2, <1>3, <1>4, <1>5, <1>6, <1>7, <1>8 DEF Next, RunTask

\* The inductive invariant holds in every reachable state.
LEMMA QueueInvHolds == Spec => []QueueInv
<1>1. Init => QueueInv
  <2> SUFFICES ASSUME Init PROVE QueueInv
    OBVIOUS
  <2>1. TypeOK
    BY TypeInit
  <2>2. tasks = {} /\ \A k \in Keys : rows[k].status = "absent"
    BY RowFields DEF Init
  <2>3. QED
    BY <2>1, <2>2 DEF QueueInv, TasksBehindRows, NewestClaimHoldsLease,
                      DeadLetterSpent, UnreclaimedIsCurrent
<1>2. QED
  BY <1>1, QueueInvStep, PTL DEF Spec

\* However leases lapse and workers fail late, a running row's lease belongs to
\* the newest claim and no attempt is carried twice.
THEOREM NewestClaim == Spec => []NewestClaimHoldsLease
<1>1. QueueInv => NewestClaimHoldsLease
  BY DEF QueueInv
<1>2. QED
  BY <1>1, QueueInvHolds, PTL

\* No job is buried before it was claimed MaxAttempts times.
THEOREM DeadLetters == Spec => []DeadLetterSpent
<1>1. QueueInv => DeadLetterSpent
  BY DEF QueueInv
<1>2. QED
  BY <1>1, QueueInvHolds, PTL

\* However leases lapse, a settled job changes again only after a lease on it was
\* reclaimed or a reply of complete() was lost.
THEOREM Revival == Spec => RevivedOnlyAfterLoss
<1>1. QueueInv /\ [Next]_queueVars =>
        [\A k \in Keys : rows[k].status \in Terminal /\ rows'[k].status # rows[k].status
            => reclaims[k] > 0 \/ lostReplies[k] > 0]_rows
  <2> SUFFICES ASSUME QueueInv, [Next]_queueVars, NEW k \in Keys,
                      rows[k].status \in Terminal, rows'[k].status # rows[k].status
               PROVE  reclaims[k] > 0 \/ lostReplies[k] > 0
    OBVIOUS
  <2>1. PICK t \in tasks : t.key = k
    BY SettledMovesByTask DEF QueueInv
  <2>2. reclaims[k] # 0 \/ lostReplies[k] > 0
    BY <2>1 DEF QueueInv, UnreclaimedIsCurrent, SettledUnheard, Terminal
  <2>3. QED
    BY <2>2 DEF QueueInv, TypeOK
<1>2. QED
  BY <1>1, QueueInvHolds, PTL DEF Spec, RevivedOnlyAfterLoss

-----------------------------------------------------------------------------
(* While heartbeats keep their leases: MaxLapses = 0.                      *)

\* With no late heartbeat, a coroutine keeps a live lease on its newest attempt.
LEMMA TimelyStep ==
    ASSUME MaxLapses = 0, QueueInv, TasksHoldLiveLeases, [Next]_queueVars
    PROVE  TasksHoldLiveLeases'
<1> USE QueueAssumption DEF QueueInv, TypeOK, TasksHoldLiveLeases, HoldsLiveLease, SettledUnheard
<1>0. /\ \A t \in tasks : t \in Task /\ t.key \in Keys /\ t.worker \in Workers
      /\ \A k \in Keys : rows[k] \in Row
      /\ \A t, u \in tasks : t.key = u.key => t = u
  BY DEF Task, NewestClaimHoldsLease
<1>1. CASE Enqueue
  <2>1. UNCHANGED tasks
    BY <1>1 DEF Enqueue, ReadDepth, LookUp, Insert
  <2>2. UNCHANGED lostReplies /\ \A t \in tasks : rows'[t.key] = rows[t.key]
    BY <1>0, <1>1 DEF Enqueue, ReadDepth, LookUp, Insert, Call
  <2>3. QED
    BY <2>1, <2>2
<1>2. ASSUME NEW w \in Workers, ReclaimExpired(w) \/ ClaimNone(w)
      PROVE TasksHoldLiveLeases'
  <2>1. \A t \in tasks : ~Expired(t.key)
    BY DEF Expired
  <2>2. UNCHANGED lostReplies /\ \A t \in tasks : rows'[t.key] = rows[t.key]
    BY <1>0, <1>2, <2>1 DEF ReclaimExpired, ClaimNone
  <2>3. UNCHANGED tasks
    BY <1>2 DEF ReclaimExpired, ClaimNone
  <2>4. QED
    BY <2>2, <2>3
<1>3. ASSUME NEW w \in Workers, NEW k \in Keys, ClaimNext(w, k)
      PROVE TasksHoldLiveLeases'
  BY <1>0, <1>3, RowFields, TaskFields DEF ClaimNext, Claimable
<1>4. ASSUME NEW t \in tasks, RunJob(t) \/ CompleteError(t)
      PROVE TasksHoldLiveLeases'
  <2>1. PICK a \in {"run", "complete", "fail"} : Replace(t, At(t, a))
    BY <1>4 DEF RunJob, CompleteError
  <2>2. HoldsLiveLease(t) /\ t \in Task
    BY <1>0, <1>4 DEF RunJob, CompleteError
  <2>3. CASE UNCHANGED <<rows, lostReplies>>
    BY <1>0, <2>1, <2>2, <2>3, TaskFields DEF Replace
  <2>4. CASE /\ CompleteError(t)
             /\ rows' = [rows EXCEPT ![t.key] = Succeeded(rows[t.key])]
             /\ lostReplies' = [lostReplies EXCEPT ![t.key] = @ + 1]
    <3>1. Replace(t, At(t, "fail"))
      BY <2>4 DEF CompleteError
    <3>2. /\ rows'[t.key].status = "succeeded" /\ lostReplies'[t.key] > 0
          /\ rows'[t.key].attempts = t.attempt
          /\ At(t, "fail").key = t.key /\ At(t, "fail").at = "fail"
          /\ At(t, "fail").attempt = t.attempt
      BY <1>0, <2>4, RowFields, TaskFields
    <3>3. \A u \in tasks \ {t} : /\ rows'[u.key] = rows[u.key]
                                 /\ lostReplies'[u.key] = lostReplies[u.key]
      BY <1>0, <2>4
    <3> QED
      BY <3>1, <3>2, <3>3 DEF Replace
  <2> QED
    BY <1>4, <2>3, <2>4 DEF RunJob, CompleteError
<1>5. ASSUME NEW t \in tasks, Complete(t) \/ Fail(t) \/ FailError(t)
      PROVE TasksHoldLiveLeases'
  <2>1. tasks' = tasks \ {t}
    BY <1>5 DEF Complete, Fail, FailError
  <2>2. UNCHANGED lostReplies /\ \A u \in tasks' : rows'[u.key] = rows[u.key]
    BY <1>0, <1>5, <2>1 DEF Complete, Fail, FailError
  <2>3. QED
    BY <2>1, <2>2
<1>6. ASSUME NEW t \in tasks, Heartbeat(t) PROVE TasksHoldLiveLeases'
  <2>0. UNCHANGED lostReplies
    BY <1>6 DEF Heartbeat
  <2>1. CASE HoldsLiveLease(t)
    <3>1. rows' = [rows EXCEPT ![t.key] = WithLease(rows[t.key], "live")] /\ UNCHANGED tasks
      BY <1>6, <2>1 DEF Heartbeat
    <3> QED
      BY <1>0, <2>0, <3>1, RowFields
  <2>2. CASE SettledUnheard(t)
    <3>1. UNCHANGED rows /\ Replace(t, Silent(t))
      BY <1>6, <2>2 DEF Heartbeat
    <3> QED
      BY <1>0, <2>0, <2>2, <3>1, TaskFields DEF Replace
  <2> QED
    BY <2>1, <2>2
<1>7. ASSUME NEW t \in tasks, HeartbeatError(t) PROVE FALSE
  BY <1>7 DEF HeartbeatError
<1>8. ASSUME NEW k \in Keys, Clock(k) PROVE TasksHoldLiveLeases'
  <2>1. ~LapseLate(k)
    BY DEF LapseLate
  <2>2. \A t \in tasks : t.key # k /\ rows'[t.key] = rows[t.key]
    BY <1>0, <1>8, <2>1 DEF Clock, LapseUnbeaten, BecomeAvailable, Beaten
  <2>3. UNCHANGED <<tasks, lostReplies>>
    BY <1>8, <2>1 DEF Clock, LapseUnbeaten, BecomeAvailable
  <2>4. QED
    BY <2>2, <2>3
<1>9. ASSUME NEW w \in Workers, Process(w) PROVE TasksHoldLiveLeases'
  BY <1>9 DEF Process, Crash, RequestStop, Stopped, Start, TasksOf
<1>10. CASE UNCHANGED queueVars
  BY <1>10 DEF queueVars
<1>11. QED
  BY <1>1, <1>2, <1>3, <1>4, <1>5, <1>6, <1>7, <1>8, <1>9, <1>10
     DEF Next, Poll, RunTask

\* With no late heartbeat, every coroutine holds a live lease in every state.
LEMMA TimelyHolds == MaxLapses = 0 => (Spec => [](QueueInv /\ TasksHoldLiveLeases))
<1> SUFFICES ASSUME MaxLapses = 0 PROVE Spec => [](QueueInv /\ TasksHoldLiveLeases)
  OBVIOUS
<1>1. Init => TasksHoldLiveLeases
  BY DEF Init, TasksHoldLiveLeases
<1>2. QueueInv /\ TasksHoldLiveLeases /\ [Next]_queueVars => TasksHoldLiveLeases'
  BY TimelyStep
<1>3. QED
  BY <1>1, <1>2, QueueInvHolds, PTL DEF Spec

\* If heartbeats keep their leases, a job is in the hands of one coroutine.
THEOREM Exclusive == MaxLapses = 0 => (Spec => []ExclusiveRun)
<1> SUFFICES ASSUME MaxLapses = 0 PROVE Spec => []ExclusiveRun
  OBVIOUS
<1>1. QueueInv /\ TasksHoldLiveLeases => ExclusiveRun
  BY DEF QueueInv, TasksHoldLiveLeases, NewestClaimHoldsLease, ExclusiveRun
<1>2. QED
  BY <1>1, TimelyHolds, PTL

\* If heartbeats keep their leases, only the coroutine that settled a job changes
\* its verdict, as its last step, after complete() lost its reply.
THEOREM Settled == MaxLapses = 0 => (Spec => SettledStaysSettled)
<1> SUFFICES ASSUME MaxLapses = 0 PROVE Spec => SettledStaysSettled
  OBVIOUS
<1>1. QueueInv /\ TasksHoldLiveLeases /\ [Next]_queueVars =>
        [\A k \in Keys : rows[k].status \in Terminal /\ rows'[k].status # rows[k].status
            => /\ rows[k].status = "succeeded" /\ lostReplies[k] > 0
               /\ \E t \in tasks \ tasks' : t.key = k /\ t.at = "fail"]_rows
  <2> SUFFICES ASSUME QueueInv, TasksHoldLiveLeases, [Next]_queueVars, NEW k \in Keys,
                      rows[k].status \in Terminal, rows'[k].status # rows[k].status
               PROVE  /\ rows[k].status = "succeeded" /\ lostReplies[k] > 0
                      /\ \E t \in tasks \ tasks' : t.key = k /\ t.at = "fail"
    OBVIOUS
  <2>1. PICK t \in tasks : (Complete(t) \/ CompleteError(t) \/ Fail(t)) /\ t.key = k
    BY SettledMovesByTask DEF QueueInv
  <2>2. SettledUnheard(t)
    BY <2>1 DEF TasksHoldLiveLeases, HoldsLiveLease, Terminal
  <2>3. tasks' = tasks \ {t}
    BY <2>1, <2>2 DEF SettledUnheard, Complete, CompleteError, Fail
  <2> QED
    BY <2>1, <2>2, <2>3 DEF SettledUnheard
<1>2. QED
  BY <1>1, TimelyHolds, PTL DEF Spec, SettledStaysSettled

-----------------------------------------------------------------------------
(* The budget of attempts, however leases lapse.                           *)

\* The counters of a row are numbers.
LEMMA RowCounts ==
    TypeOK => \A k \in Keys : rows[k].attempts \in Nat /\ reclaims[k] \in Nat
<1>1. \A r \in Row : r.attempts \in Nat
  BY DEF Row
<1> QED
  BY <1>1 DEF TypeOK

\* The attempts that may still requeue a job are a finite set.
LEMMA MayRequeueFinite ==
    ASSUME NEW k \in Keys
    PROVE  /\ IsFiniteSet(1..(MaxAttempts - 1))
           /\ Cardinality(1..(MaxAttempts - 1)) = MaxAttempts - 1
           /\ IsFiniteSet(MayRequeue(k)) /\ Cardinality(MayRequeue(k)) \in Nat
<1>1. 1 \in Int /\ MaxAttempts - 1 \in Int
  BY QueueAssumption
<1>2. /\ IsFiniteSet(1..(MaxAttempts - 1))
      /\ Cardinality(1..(MaxAttempts - 1)) = MaxAttempts - 1
  BY <1>1, FS_Interval, QueueAssumption
<1>3. MayRequeue(k) \in SUBSET (1..(MaxAttempts - 1))
  BY DEF MayRequeue
<1> QED
  BY <1>2, <1>3, FS_Subset, FS_CardinalityType

\* A step that hands out no second coroutine of an attempt, and pays for what it
\* adds to the claims with a claim to come or a reclaimed lease.
LEMMA BudgetKept ==
    ASSUME TypeOK, TypeOK', AttemptBudget, NEW k \in Keys,
           \A t \in tasks' : t.key = k =>
               t.attempt > rows[k].attempts
                 \/ \E u \in tasks : u.key = k /\ u.attempt = t.attempt,
           rows'[k].attempts >= rows[k].attempts,
           rows'[k].attempts + ClaimsToCome(k)' + reclaims[k]
               <= rows[k].attempts + ClaimsToCome(k) + reclaims'[k]
    PROVE  rows'[k].attempts + ClaimsToCome(k)' + Cardinality(MayRequeue(k)')
               <= MaxAttempts + reclaims'[k]
<1>1. rows[k].attempts \in Nat /\ rows'[k].attempts \in Nat
      /\ reclaims[k] \in Nat /\ reclaims'[k] \in Nat
  BY DEF TypeOK, Row
<1>2. MayRequeue(k)' \in SUBSET MayRequeue(k)
  BY <1>1, QueueAssumption DEF MayRequeue
<1>3. /\ Cardinality(MayRequeue(k)') <= Cardinality(MayRequeue(k))
      /\ Cardinality(MayRequeue(k)) \in Nat /\ Cardinality(MayRequeue(k)') \in Nat
  BY <1>2, MayRequeueFinite, FS_Subset, FS_CardinalityType
<1>4. rows[k].attempts + ClaimsToCome(k) + Cardinality(MayRequeue(k))
          <= MaxAttempts + reclaims[k]
  BY DEF AttemptBudget
<1>5. ClaimsToCome(k) \in Nat /\ ClaimsToCome(k)' \in Nat /\ MaxAttempts \in Nat
  BY QueueAssumption DEF ClaimsToCome
<1> HIDE DEF ClaimsToCome, MayRequeue
<1> QED
  BY <1>1, <1>3, <1>4, <1>5

\* A coroutine that fails before the last attempt spends the requeue it had.
LEMMA BudgetOfRequeue ==
    ASSUME QueueInv, TypeOK', AttemptBudget, NEW t \in tasks, ~Spent(t),
           rows' = [rows EXCEPT ![t.key] = Requeued(rows[t.key])],
           tasks' = tasks \ {t}, UNCHANGED reclaims
    PROVE  rows'[t.key].attempts + ClaimsToCome(t.key)' + Cardinality(MayRequeue(t.key)')
               <= MaxAttempts + reclaims'[t.key]
<1> DEFINE k == t.key
           n == t.attempt
<1>1. k \in Keys /\ n \in Nat \ {0} /\ n < MaxAttempts /\ n <= rows[k].attempts
  BY QueueAssumption DEF QueueInv, TypeOK, Task, Spent, TasksBehindRows
<1>2. rows[k] \in Row /\ rows[k].attempts \in Nat /\ reclaims[k] \in Nat
  BY <1>1, RowCounts DEF QueueInv, TypeOK
<1>3. rows'[k].attempts = rows[k].attempts /\ rows'[k].status = "queued"
  BY <1>1, <1>2, RowFields DEF QueueInv, TypeOK
<1>4. n \in MayRequeue(k)
  BY <1>1, QueueAssumption DEF MayRequeue
<1>5. MayRequeue(k)' \in SUBSET (MayRequeue(k) \ {n})
  <2>1. \A u \in tasks' : u.key = k => u \in tasks /\ u.attempt # n
    BY DEF QueueInv, NewestClaimHoldsLease
  <2>2. ASSUME NEW m \in MayRequeue(k)' PROVE m \in MayRequeue(k) /\ m # n
    <3>1. /\ m \in 1..(MaxAttempts - 1)
          /\ m > rows'[k].attempts \/ \E u \in tasks' : u.key = k /\ u.attempt = m
      BY <2>2 DEF MayRequeue
    <3>2. CASE m > rows'[k].attempts
      BY <1>1, <1>2, <1>3, <3>1, <3>2 DEF MayRequeue
    <3>3. CASE \E u \in tasks' : u.key = k /\ u.attempt = m
      BY <2>1, <3>1, <3>3 DEF MayRequeue
    <3> QED
      BY <3>1, <3>2, <3>3
  <2> QED
    BY <2>2
<1>6. /\ IsFiniteSet(MayRequeue(k)) /\ Cardinality(MayRequeue(k)) \in Nat
  BY <1>1, MayRequeueFinite
<1>7. /\ IsFiniteSet(MayRequeue(k) \ {n})
      /\ Cardinality(MayRequeue(k) \ {n}) = Cardinality(MayRequeue(k)) - 1
  BY <1>4, <1>6, FS_RemoveElement
<1>8. /\ Cardinality(MayRequeue(k)') <= Cardinality(MayRequeue(k)) - 1
      /\ Cardinality(MayRequeue(k)') \in Nat
  BY <1>5, <1>7, FS_Subset, FS_CardinalityType
<1>9. rows[k].attempts + ClaimsToCome(k) + Cardinality(MayRequeue(k))
          <= MaxAttempts + reclaims[k]
  BY <1>1 DEF AttemptBudget
<1>10. ClaimsToCome(k) \in Nat /\ ClaimsToCome(k)' = 1 /\ MaxAttempts \in Nat
  BY <1>3, QueueAssumption DEF ClaimsToCome
<1> HIDE DEF ClaimsToCome, MayRequeue, k
<1>11. rows'[k].attempts + ClaimsToCome(k)' + Cardinality(MayRequeue(k)')
           <= MaxAttempts + reclaims'[k]
  BY <1>2, <1>3, <1>6, <1>8, <1>9, <1>10
<1> QED
  BY <1>11 DEF k

\* No step that counts a claim or a requeue.
LEMMA BudgetUntouched ==
    ASSUME QueueInv, TypeOK', AttemptBudget, UNCHANGED reclaims,
           \A t \in tasks' : \E u \in tasks : u.key = t.key /\ u.attempt = t.attempt,
           \A k \in Keys : /\ rows'[k].attempts = rows[k].attempts
                           /\ rows'[k].status = rows[k].status
    PROVE  AttemptBudget'
<1>1. TypeOK
  BY DEF QueueInv
<1> SUFFICES ASSUME NEW k \in Keys
             PROVE  /\ rows'[k].status = "absent" => rows'[k].attempts = 0
                    /\ rows'[k].attempts + ClaimsToCome(k)' + Cardinality(MayRequeue(k)')
                          <= MaxAttempts + reclaims'[k]
  BY DEF AttemptBudget
<1>2. ClaimsToCome(k)' = ClaimsToCome(k) /\ ClaimsToCome(k) \in Nat
  BY DEF ClaimsToCome
<1>3. rows[k].attempts \in Nat /\ reclaims[k] \in Nat
  BY <1>1, RowCounts
<1>4. /\ \A t \in tasks' : t.key = k =>
            t.attempt > rows[k].attempts
              \/ \E u \in tasks : u.key = k /\ u.attempt = t.attempt
      /\ rows'[k].attempts >= rows[k].attempts
      /\ rows'[k].attempts + ClaimsToCome(k)' + reclaims[k]
            <= rows[k].attempts + ClaimsToCome(k) + reclaims'[k]
  BY <1>2, <1>3
<1> QED
  BY <1>1, <1>4, BudgetKept DEF AttemptBudget

\* A row changes: what its statement takes from the budget was there.
LEMMA BudgetStep == QueueInv /\ AttemptBudget /\ [Next]_queueVars => AttemptBudget'
<1> SUFFICES ASSUME QueueInv, AttemptBudget, [Next]_queueVars, TypeOK' PROVE AttemptBudget'
  BY TypeStep DEF QueueInv
<1>0. /\ TypeOK
      /\ \A t \in tasks : t \in Task /\ t.key \in Keys /\ t.attempt \in Nat
      /\ \A k \in Keys : /\ rows[k] \in Row /\ rows[k].attempts \in Nat
                         /\ reclaims[k] \in Nat
  <2>1. \A t \in Task : t.key \in Keys /\ t.attempt \in Nat
    BY DEF Task
  <2> QED
    BY <2>1, RowCounts DEF QueueInv, TypeOK
<1> DEFINE Balanced(k) ==
              /\ rows'[k].status = "absent" => rows'[k].attempts = 0
              /\ rows'[k].attempts >= rows[k].attempts
              /\ rows'[k].attempts + ClaimsToCome(k)' + reclaims[k]
                    <= rows[k].attempts + ClaimsToCome(k) + reclaims'[k]
           Handed(k) == \A t \in tasks' : t.key = k =>
                            t.attempt > rows[k].attempts
                              \/ \E u \in tasks : u.key = k /\ u.attempt = t.attempt
<1>1. ASSUME \A k \in Keys : Balanced(k) /\ Handed(k) PROVE AttemptBudget'
  BY <1>0, <1>1, BudgetKept DEF AttemptBudget
<1>2. ASSUME NEW k \in Keys, rows'[k] = rows[k], reclaims'[k] = reclaims[k] PROVE Balanced(k)
  BY <1>0, <1>2 DEF ClaimsToCome, AttemptBudget
<1>3. ASSUME tasks' \subseteq tasks PROVE \A k \in Keys : Handed(k)
  BY <1>3
<1>4. ASSUME NEW c \in calls, Insert(c) PROVE AttemptBudget'
  <2>1. c.key \in Keys /\ UNCHANGED <<tasks, reclaims>>
    BY <1>0, <1>4 DEF Insert, TypeOK, Call
  <2>2. CASE rows[c.key].status = "absent"
    <3>1. rows' = [rows EXCEPT ![c.key] = Inserted(nextId)] /\ nextId \in Nat
      BY <1>0, <1>4, <2>2 DEF Insert, TypeOK
    <3>2. rows'[c.key].attempts = 0 /\ rows'[c.key].status = "queued"
      BY <1>0, <2>1, <3>1, RowFields DEF TypeOK
    <3>3. rows[c.key].attempts = 0
      BY <2>1, <2>2 DEF AttemptBudget
    <3>4. Balanced(c.key)
      BY <1>0, <2>1, <2>2, <3>2, <3>3 DEF ClaimsToCome
    <3>5. \A k \in Keys : Balanced(k)
      BY <1>0, <1>2, <2>1, <3>1, <3>4 DEF TypeOK
    <3> QED
      BY <1>1, <1>3, <2>1, <3>5
  <2>3. CASE rows[c.key].status # "absent"
    BY <1>1, <1>2, <1>3, <1>4, <2>1, <2>3 DEF Insert
  <2> QED
    BY <2>2, <2>3
<1>5. ASSUME NEW w \in Workers, ReclaimExpired(w) PROVE AttemptBudget'
  <2>1. ASSUME NEW k \in Keys, Expired(k) PROVE Balanced(k)
    <3>1. rows'[k] = Reclaimed(rows[k]) /\ reclaims'[k] = reclaims[k] + 1
      BY <1>5, <2>1 DEF ReclaimExpired
    <3> QED
      BY <1>0, <2>1, <3>1, RowFields DEF ClaimsToCome, Expired
  <2>2. ASSUME NEW k \in Keys, ~Expired(k) PROVE Balanced(k)
    <3>1. rows'[k] = rows[k] /\ reclaims'[k] = reclaims[k] + 0
      BY <1>5, <2>2 DEF ReclaimExpired
    <3> QED
      BY <1>0, <1>2, <3>1
  <2> QED
    BY <1>1, <1>3, <1>5, <2>1, <2>2 DEF ReclaimExpired
<1>6. ASSUME NEW w \in Workers, NEW j \in Keys, ClaimNext(w, j) PROVE AttemptBudget'
  <2>1. /\ rows' = [rows EXCEPT ![j] = Leased(rows[j], w)] /\ UNCHANGED reclaims
        /\ rows[j].status = "queued" /\ tasks' = tasks \cup {NewTask(w, j)}
    BY <1>6 DEF ClaimNext, Claimable
  <2>2. Balanced(j)
    BY <1>0, <2>1, RowFields DEF ClaimsToCome, TypeOK
  <2>3. \A k \in Keys : Balanced(k)
    BY <1>0, <1>2, <2>1, <2>2 DEF TypeOK
  <2>4. \A k \in Keys : Handed(k)
    BY <1>0, <2>1, TaskFields
  <2> QED
    BY <1>1, <2>3, <2>4
<1>7. ASSUME NEW t \in tasks, Complete(t) PROVE AttemptBudget'
  <2>1. /\ rows' = [rows EXCEPT ![t.key] = Succeeded(rows[t.key])]
        /\ UNCHANGED reclaims /\ tasks' = tasks \ {t}
    BY <1>7 DEF Complete
  <2>2. Balanced(t.key)
    BY <1>0, <2>1, RowFields DEF ClaimsToCome, TypeOK
  <2>3. \A k \in Keys : Balanced(k)
    BY <1>0, <1>2, <2>1, <2>2 DEF TypeOK
  <2> QED
    BY <1>1, <1>3, <2>1, <2>3
<1>8. ASSUME NEW t \in tasks, Fail(t) PROVE AttemptBudget'
  <2>1. UNCHANGED reclaims /\ tasks' = tasks \ {t}
    BY <1>8 DEF Fail
  <2>2. CASE Spent(t)
    <3>1. rows' = [rows EXCEPT ![t.key] = Buried(rows[t.key])]
      BY <1>8, <2>2 DEF Fail
    <3>2. Balanced(t.key)
      BY <1>0, <2>1, <3>1, RowFields DEF ClaimsToCome, TypeOK
    <3>3. \A k \in Keys : Balanced(k)
      BY <1>0, <1>2, <2>1, <3>1, <3>2 DEF TypeOK
    <3> QED
      BY <1>1, <1>3, <2>1, <3>3
  <2>3. CASE ~Spent(t)
    <3>1. rows' = [rows EXCEPT ![t.key] = Requeued(rows[t.key])]
      BY <1>8, <2>3 DEF Fail
    <3>2. rows'[t.key].attempts + ClaimsToCome(t.key)' + Cardinality(MayRequeue(t.key)')
              <= MaxAttempts + reclaims'[t.key]
      BY <2>1, <2>3, <3>1, BudgetOfRequeue
    <3>3. rows'[t.key].status # "absent"
      BY <1>0, <3>1, RowFields DEF TypeOK
    <3>4. ASSUME NEW k \in Keys, k # t.key
          PROVE  /\ rows'[k].status = "absent" => rows'[k].attempts = 0
                 /\ rows'[k].attempts + ClaimsToCome(k)' + Cardinality(MayRequeue(k)')
                       <= MaxAttempts + reclaims'[k]
      <4>1. rows'[k] = rows[k]
        BY <1>0, <3>1, <3>4 DEF TypeOK
      <4>2. Balanced(k) /\ Handed(k)
        BY <1>2, <1>3, <2>1, <4>1
      <4> QED
        BY <1>0, <4>2, BudgetKept
    <3> QED
      BY <3>2, <3>3, <3>4 DEF AttemptBudget
  <2> QED
    BY <2>2, <2>3
<1>9. ASSUME NEW t \in tasks, RunJob(t) \/ HeartbeatError(t) PROVE AttemptBudget'
  <2>1. UNCHANGED <<rows, reclaims>>
    BY <1>9 DEF RunJob, HeartbeatError
  <2>2. \E u : Replace(t, u) /\ u.key = t.key /\ u.attempt = t.attempt
    BY <1>0, <1>9, TaskFields DEF RunJob, HeartbeatError
  <2> QED
    BY <2>1, <2>2, BudgetUntouched DEF Replace
<1>18. ASSUME NEW t \in tasks, CompleteError(t) PROVE AttemptBudget'
  <2>1. /\ UNCHANGED reclaims /\ Replace(t, At(t, "fail"))
        /\ At(t, "fail").key = t.key /\ At(t, "fail").attempt = t.attempt
    BY <1>0, <1>18, TaskFields DEF CompleteError
  <2>2. CASE UNCHANGED rows
    BY <2>1, <2>2, BudgetUntouched DEF Replace
  <2>3. CASE rows' = [rows EXCEPT ![t.key] = Succeeded(rows[t.key])]
    <3>1. Balanced(t.key)
      BY <1>0, <2>1, <2>3, RowFields DEF ClaimsToCome, TypeOK
    <3>2. \A k \in Keys : Balanced(k)
      BY <1>0, <1>2, <2>1, <2>3, <3>1 DEF TypeOK
    <3>3. \A k \in Keys : Handed(k)
      BY <2>1 DEF Replace
    <3> QED
      BY <1>1, <3>2, <3>3
  <2> QED
    BY <1>18, <2>2, <2>3 DEF CompleteError
<1>10. ASSUME NEW t \in tasks, Heartbeat(t) PROVE AttemptBudget'
  <2>1. CASE /\ rows' = [rows EXCEPT ![t.key] = WithLease(rows[t.key], "live")]
             /\ UNCHANGED <<tasks, reclaims>>
    BY <1>0, <2>1, BudgetUntouched, RowFields DEF TypeOK
  <2>2. CASE Replace(t, Silent(t)) /\ UNCHANGED <<rows, reclaims>>
    BY <1>0, <2>2, BudgetUntouched, TaskFields DEF Replace
  <2> QED
    BY <1>10, <2>1, <2>2 DEF Heartbeat
<1>11. ASSUME NEW k \in Keys, Clock(k) PROVE AttemptBudget'
  <2>1. UNCHANGED <<tasks, reclaims>>
    BY <1>11 DEF Clock, LapseUnbeaten, LapseLate, BecomeAvailable
  <2>2. CASE rows' = [rows EXCEPT ![k] = WithLease(rows[k], "lapsed")]
    BY <1>0, <2>1, <2>2, BudgetUntouched, RowFields DEF TypeOK
  <2>3. CASE rows' = [rows EXCEPT ![k] = Available(rows[k])]
    BY <1>0, <2>1, <2>3, BudgetUntouched, RowFields DEF TypeOK
  <2> QED
    BY <1>11, <2>2, <2>3 DEF Clock, LapseUnbeaten, LapseLate, BecomeAvailable
<1>12. ASSUME UNCHANGED <<rows, reclaims>>, tasks' \subseteq tasks PROVE AttemptBudget'
  BY <1>12, BudgetUntouched
<1>13. ASSUME NEW t \in tasks, FailError(t) PROVE AttemptBudget'
  BY <1>12, <1>13 DEF FailError
<1>14. ASSUME NEW w \in Workers, ClaimNone(w) \/ Process(w) PROVE AttemptBudget'
  BY <1>12, <1>14 DEF ClaimNone, Process, Crash, RequestStop, Stopped, Start
<1>15. ASSUME NEW p \in Producers, NEW k \in Keys, ReadDepth(p, k) PROVE AttemptBudget'
  BY <1>12, <1>15 DEF ReadDepth
<1>16. ASSUME NEW c \in calls, LookUp(c) PROVE AttemptBudget'
  BY <1>12, <1>16 DEF LookUp
<1>17. CASE UNCHANGED queueVars
  BY <1>12, <1>17 DEF queueVars
<1> QED
  BY <1>4, <1>5, <1>6, <1>7, <1>8, <1>9, <1>10, <1>11, <1>13, <1>14, <1>15, <1>16, <1>17,
     <1>18 DEF Next, Enqueue, Poll, RunTask

\* A new table has the whole budget.
LEMMA BudgetInit == Init => AttemptBudget
<1> SUFFICES ASSUME Init, NEW k \in Keys
             PROVE  /\ rows[k].status = "absent" => rows[k].attempts = 0
                    /\ rows[k].attempts + ClaimsToCome(k) + Cardinality(MayRequeue(k))
                          <= MaxAttempts + reclaims[k]
  BY DEF AttemptBudget
<1>1. rows[k].status = "absent" /\ rows[k].attempts = 0 /\ reclaims[k] = 0
  BY RowFields DEF Init
<1>2. MayRequeue(k) \in SUBSET (1..(MaxAttempts - 1))
  BY DEF MayRequeue
<1>3. Cardinality(MayRequeue(k)) <= MaxAttempts - 1 /\ Cardinality(MayRequeue(k)) \in Nat
  BY <1>2, MayRequeueFinite, FS_Subset
<1>4. ClaimsToCome(k) = 1
  BY <1>1 DEF ClaimsToCome
<1> QED
  BY <1>1, <1>3, <1>4, QueueAssumption

\* However leases lapse and workers fail late, a job is claimed at most
\* MaxAttempts times plus once per lease that was reclaimed.
THEOREM AttemptsAreBounded == Spec => []AttemptsBounded
<1>1. QueueInv /\ AttemptBudget => AttemptsBounded
  <2> SUFFICES ASSUME QueueInv, AttemptBudget, NEW k \in Keys
               PROVE  rows[k].attempts <= MaxAttempts + reclaims[k]
    BY DEF AttemptsBounded
  <2>1. rows[k].attempts \in Nat /\ reclaims[k] \in Nat /\ ClaimsToCome(k) \in Nat
        /\ Cardinality(MayRequeue(k)) \in Nat /\ MaxAttempts \in Nat
    BY RowCounts, MayRequeueFinite, QueueAssumption DEF QueueInv, ClaimsToCome
  <2>2. rows[k].attempts + ClaimsToCome(k) + Cardinality(MayRequeue(k))
            <= MaxAttempts + reclaims[k]
    BY DEF AttemptBudget
  <2> QED
    BY <2>1, <2>2
<1> QED
  BY <1>1, QueueInvHolds, BudgetInit, BudgetStep, PTL DEF Spec

-----------------------------------------------------------------------------
(* Admission, while heartbeats keep their leases.                          *)

\* No statement deletes a row.
LEMMA RowsStay ==
    ASSUME QueueInv, [Next]_queueVars, NEW k \in Keys, rows[k].status # "absent"
    PROVE  rows'[k].status # "absent"
<1>0. /\ TypeOK /\ rows[k] \in Row
      /\ \A t \in tasks : t.key \in Keys
      /\ \A c \in calls : c.key \in Keys
  BY DEF QueueInv, TypeOK, Task, Call
<1>1. ASSUME Enqueue PROVE rows'[k].status # "absent"
  BY <1>0, <1>1 DEF Enqueue, ReadDepth, LookUp, Insert, TypeOK
<1>2. ASSUME NEW w \in Workers, Poll(w) PROVE rows'[k].status # "absent"
  <2>1. CASE ReclaimExpired(w)
    BY <1>0, <2>1, RowFields DEF ReclaimExpired
  <2>2. CASE ClaimNone(w)
    BY <2>2 DEF ClaimNone
  <2>3. ASSUME NEW j \in Keys, ClaimNext(w, j) PROVE rows'[k].status # "absent"
    BY <1>0, <2>3, RowFields DEF ClaimNext, TypeOK
  <2> QED
    BY <1>2, <2>1, <2>2, <2>3 DEF Poll
<1>3. ASSUME NEW t \in tasks, RunTask(t) \/ Heartbeat(t) \/ HeartbeatError(t)
      PROVE  rows'[k].status # "absent"
  BY <1>0, <1>3, RowFields
     DEF RunTask, RunJob, Complete, CompleteError, Fail, FailError, Heartbeat, HeartbeatError,
         TypeOK
<1>4. ASSUME NEW j \in Keys, Clock(j) PROVE rows'[k].status # "absent"
  BY <1>0, <1>4, RowFields DEF Clock, LapseUnbeaten, LapseLate, BecomeAvailable, TypeOK
<1>5. ASSUME NEW w \in Workers, Process(w) PROVE rows'[k].status # "absent"
  BY <1>5 DEF Process, Crash, RequestStop, Stopped, Start
<1>6. CASE UNCHANGED queueVars
  BY <1>6 DEF queueVars
<1> QED
  BY <1>1, <1>2, <1>3, <1>4, <1>5, <1>6 DEF Next

\* The workers leave the calls alone.
LEMMA CallsByEnqueue ==
    ASSUME [Next]_queueVars PROVE Enqueue \/ UNCHANGED calls
  BY DEF Next, Poll, ReclaimExpired, ClaimNone, ClaimNext, RunTask, RunJob, Complete,
         CompleteError, Fail, FailError, Heartbeat, HeartbeatError, Clock, LapseUnbeaten,
         LapseLate, BecomeAvailable, Process, Crash, RequestStop, Stopped, Start, queueVars

\* A request goes on with its one call.
LEMMA CallsStep == QueueInv /\ OneCallEach /\ [Next]_queueVars => OneCallEach'
<1> SUFFICES ASSUME QueueInv, OneCallEach, [Next]_queueVars PROVE OneCallEach'
  OBVIOUS
<1>1. ASSUME NEW p \in Producers, NEW k \in Keys, ReadDepth(p, k) PROVE OneCallEach'
  BY <1>1 DEF ReadDepth, OneCallEach, NewCall
<1>2. ASSUME NEW c \in calls, LookUp(c) PROVE OneCallEach'
  <2>1. Admitted(c).from = c.from
    BY DEF QueueInv, TypeOK, Call, Admitted
  <2> QED
    BY <1>2, <2>1 DEF LookUp, OneCallEach
<1>3. ASSUME NEW c \in calls, Insert(c) PROVE OneCallEach'
  BY <1>3 DEF Insert, OneCallEach
<1> QED
  BY <1>1, <1>2, <1>3, CallsByEnqueue DEF Enqueue, OneCallEach

\* Which replies were lost is only added to.
LEMMA LostStay ==
    ASSUME QueueInv, [Next]_queueVars
    PROVE  /\ LostKeys \subseteq LostKeys'
           /\ \E k : LostKeys' \subseteq LostKeys \cup {k}
<1>0. lostReplies \in [Keys -> Nat]
  BY DEF QueueInv, TypeOK
<1>1. CASE UNCHANGED lostReplies
  BY <1>1 DEF LostKeys
<1>2. ASSUME NEW t \in tasks, lostReplies' = [lostReplies EXCEPT ![t.key] = @ + 1]
      PROVE  LostKeys \subseteq LostKeys' /\ LostKeys' \subseteq LostKeys \cup {t.key}
  BY <1>0, <1>2 DEF LostKeys
<1>3. \/ UNCHANGED lostReplies
      \/ \E t \in tasks : lostReplies' = [lostReplies EXCEPT ![t.key] = @ + 1]
  BY DEF Next, Enqueue, ReadDepth, LookUp, Insert, Poll, ReclaimExpired, ClaimNone, ClaimNext,
         RunTask, RunJob, Complete, CompleteError, Fail, FailError, Heartbeat, HeartbeatError,
         Clock, LapseUnbeaten, LapseLate, BecomeAvailable, Process, Crash, RequestStop,
         Stopped, Start, queueVars
<1> QED
  BY <1>1, <1>2, <1>3

\* Only an INSERT adds to the queue, unless a reply of complete() was lost.
LEMMA OnlyInsertsAdd ==
    ASSUME MaxLapses = 0, QueueInv, TasksHoldLiveLeases, [Next]_queueVars,
           ~\E c \in calls : Insert(c)
    PROVE  AdmittedKeys' \subseteq AdmittedKeys
<1> SUFFICES ASSUME NEW k \in Keys, rows[k].status \notin Active, rows'[k].status \in Active,
                    k \notin LostKeys
             PROVE  FALSE
  BY LostStay DEF AdmittedKeys, ActiveKeys
<1>0. /\ TypeOK /\ rows[k] \in Row
      /\ \A t \in tasks : t.key \in Keys /\ rows[t.key].status # "absent"
      /\ \A t \in tasks : t.key = k => rows[k].status = "running"
  BY DEF QueueInv, TypeOK, Task, TasksBehindRows, TasksHoldLiveLeases, HoldsLiveLease,
         SettledUnheard, LostKeys
<1>1. rows[k].status \in Status
  <2>1. \A r \in Row : r.status \in Status
    BY DEF Row
  <2> QED
    BY <1>0, <2>1
<1>2. CASE rows[k].status \in Terminal
  <2>1. rows'[k].status # rows[k].status
    BY <1>2 DEF Active, Terminal
  <2>2. PICK t \in tasks : t.key = k
    BY <1>0, <1>2, <2>1, SettledMovesByTask
  <2> QED
    BY <1>0, <1>2, <2>2 DEF Terminal
<1>3. CASE rows[k].status = "absent"
  <2>1. rows'[k] # rows[k]
    BY <1>3 DEF Active
  <2>2. ASSUME NEW w \in Workers, Poll(w) PROVE FALSE
    BY <1>0, <1>3, <2>1, <2>2
       DEF Poll, ReclaimExpired, ClaimNone, ClaimNext, Claimable, Expired, TypeOK
  <2>3. ASSUME NEW t \in tasks, RunTask(t) \/ Heartbeat(t) \/ HeartbeatError(t) PROVE FALSE
    BY <1>0, <1>3, <2>1, <2>3
       DEF RunTask, RunJob, Complete, CompleteError, Fail, FailError, Heartbeat, HeartbeatError,
           TypeOK
  <2>4. ASSUME NEW j \in Keys, Clock(j) PROVE FALSE
    BY <1>0, <1>3, <2>1, <2>4 DEF Clock, LapseUnbeaten, LapseLate, BecomeAvailable, TypeOK
  <2>5. ASSUME NEW w \in Workers, Process(w) PROVE FALSE
    BY <2>1, <2>5 DEF Process, Crash, RequestStop, Stopped, Start
  <2>6. ASSUME Enqueue PROVE FALSE
    BY <2>1, <2>6 DEF Enqueue, ReadDepth, LookUp
  <2>7. ASSUME UNCHANGED queueVars PROVE FALSE
    BY <2>1, <2>7 DEF queueVars
  <2> QED
    BY <2>2, <2>3, <2>4, <2>5, <2>6, <2>7 DEF Next
<1> QED
  BY <1>1, <1>2, <1>3 DEF Status, Active, Terminal

\* Requests are finitely many.
LEMMA AdmissibleFinite ==
    /\ IsFiniteSet(Admissible) /\ Cardinality(Admissible) \in Nat
    /\ Cardinality(Producers) \in Nat
    /\ Cardinality(Admissible) <= Cardinality(Producers)
<1>1. Admissible \in SUBSET Producers
  BY DEF Admissible
<1> QED
  BY <1>1, QueueAssumption, FS_Subset, FS_CardinalityType

\* Jobs in the queue are admitted ones, or came back.
LEMMA DepthOfRoom ==
    ASSUME RoomKept
    PROVE  /\ IsFiniteSet(ActiveKeys) /\ QueueDepth \in Nat
           /\ Cardinality(AdmittedKeys) \in Nat /\ Cardinality(LostKeys) \in Nat
           /\ Cardinality(AdmittedKeys) <= QueueDepth
           /\ QueueDepth <= Cardinality(AdmittedKeys) + Cardinality(LostKeys)
<1>1. IsFiniteSet(AdmittedKeys) /\ IsFiniteSet(LostKeys)
  BY DEF RoomKept
<1>2. /\ IsFiniteSet(AdmittedKeys \cup LostKeys)
      /\ Cardinality(AdmittedKeys \cup LostKeys) =
            Cardinality(AdmittedKeys) + Cardinality(LostKeys)
                - Cardinality(AdmittedKeys \cap LostKeys)
  BY <1>1, FS_Union
<1>3. AdmittedKeys \cap LostKeys = {} /\ Cardinality({}) = 0
  BY FS_EmptySet DEF AdmittedKeys
<1>4. ActiveKeys \in SUBSET (AdmittedKeys \cup LostKeys) /\ AdmittedKeys \in SUBSET ActiveKeys
  BY DEF AdmittedKeys
<1>5. /\ IsFiniteSet(ActiveKeys)
      /\ Cardinality(ActiveKeys) <= Cardinality(AdmittedKeys \cup LostKeys)
  BY <1>2, <1>4, FS_Subset
<1>6. Cardinality(AdmittedKeys) <= Cardinality(ActiveKeys)
  BY <1>4, <1>5, FS_Subset
<1>7. QueueDepth = Cardinality(ActiveKeys)
  BY DEF QueueDepth, ActiveKeys
<1>8. /\ Cardinality(AdmittedKeys) \in Nat /\ Cardinality(LostKeys) \in Nat
      /\ Cardinality(ActiveKeys) \in Nat
  BY <1>1, <1>5, FS_CardinalityType
<1>9. Cardinality(AdmittedKeys \cup LostKeys) = Cardinality(AdmittedKeys) + Cardinality(LostKeys)
  BY <1>2, <1>3, <1>8
<1> QED
  BY <1>5, <1>6, <1>7, <1>8, <1>9

\* Lost replies stay finitely many.
LEMMA LostFinite ==
    ASSUME QueueInv, [Next]_queueVars, IsFiniteSet(LostKeys) PROVE IsFiniteSet(LostKeys')
<1>1. PICK k : LostKeys' \subseteq LostKeys \cup {k}
  BY LostStay
<1>2. IsFiniteSet(LostKeys \cup {k})
  BY FS_AddElement
<1>3. LostKeys' \in SUBSET (LostKeys \cup {k})
  BY <1>1
<1> QED
  BY <1>2, <1>3, FS_Subset

\* Fewer admitted jobs and fewer requests leave room.
LEMMA RoomShrinks ==
    ASSUME RoomKept, AdmittedKeys' \subseteq AdmittedKeys, Admissible' \subseteq Admissible,
           IsFiniteSet(LostKeys')
    PROVE  RoomKept'
<1>1. /\ IsFiniteSet(AdmittedKeys')
      /\ Cardinality(AdmittedKeys') <= Cardinality(AdmittedKeys)
      /\ Cardinality(AdmittedKeys) \in Nat /\ Cardinality(AdmittedKeys') \in Nat
  BY FS_Subset, FS_CardinalityType DEF RoomKept
<1>2. /\ Cardinality(Admissible') <= Cardinality(Admissible)
      /\ Cardinality(Admissible) \in Nat /\ Cardinality(Admissible') \in Nat
  BY AdmissibleFinite, FS_Subset, FS_CardinalityType
<1>3. Cardinality(AdmittedKeys) + Cardinality(Admissible)
          <= Capacity + Cardinality(Producers) - 1
  BY DEF RoomKept
<1>4. Cardinality(AdmittedKeys') + Cardinality(Admissible')
          <= Capacity + Cardinality(Producers) - 1
  BY <1>1, <1>2, <1>3, AdmissibleFinite, QueueAssumption
<1> QED
  BY <1>1, <1>4 DEF RoomKept

\* A call that is gone, or moved past the lookup, admits nobody new.
LEMMA RequestsSpent ==
    ASSUME QueueInv, [Next]_queueVars, ~\E p \in Producers, k \in Keys : ReadDepth(p, k)
    PROVE  Admissible' \subseteq Admissible
<1>1. \A c \in calls : c.key \in Keys /\ c \in Call
  BY DEF QueueInv, TypeOK, Call
<1>2. \A c \in calls : MayInsert(c)' => MayInsert(c)
  BY <1>1, RowsStay DEF MayInsert
<1>3. CASE calls' \subseteq calls
  BY <1>2, <1>3 DEF Admissible
<1>4. ASSUME NEW c \in calls, LookUp(c) PROVE Admissible' \subseteq Admissible
  <2>1. Admitted(c).from = c.from /\ Admitted(c).key = c.key /\ Admitted(c).at = "insert"
    BY <1>1 DEF Admitted, Call
  <2>2. CASE calls' = calls \ {c}
    BY <1>3, <2>2
  <2>3. CASE calls' = (calls \ {c}) \cup {Admitted(c)} /\ ~(rows[c.key].status = "absent" /\ c.full)
    <3>1. MayInsert(Admitted(c))' => MayInsert(c)
      BY <1>4, <2>1, <2>3 DEF LookUp, MayInsert
    <3> QED
      BY <1>2, <2>1, <2>3, <3>1 DEF Admissible
  <2> QED
    BY <1>4, <2>2, <2>3 DEF LookUp
<1>5. ASSUME NEW c \in calls, Insert(c) PROVE Admissible' \subseteq Admissible
  BY <1>3, <1>5 DEF Insert
<1> QED
  BY <1>3, <1>4, <1>5, CallsByEnqueue DEF Enqueue

\* An INSERT takes the place of its request.
LEMMA RoomInsert ==
    ASSUME QueueInv, OneCallEach, RoomKept, NEW c \in calls, Insert(c), [Next]_queueVars
    PROVE  RoomKept'
<1>0. /\ c.key \in Keys /\ c.from \in Producers /\ calls' = calls \ {c}
      /\ c.at = "insert" /\ UNCHANGED lostReplies
  BY DEF QueueInv, TypeOK, Call, Insert
<1>1. Admissible' \subseteq Admissible /\ c.from \notin Admissible'
  <2>1. ~\E p \in Producers, k \in Keys : ReadDepth(p, k)
    BY <1>0 DEF ReadDepth, NewCall
  <2> QED
    BY <1>0, <2>1, RequestsSpent DEF Admissible, OneCallEach
<1>2. UNCHANGED LostKeys /\ IsFiniteSet(LostKeys)
  BY <1>0 DEF LostKeys, RoomKept
<1>3. CASE rows[c.key].status # "absent"
  <2>1. UNCHANGED rows
    BY <1>3 DEF Insert
  <2>2. AdmittedKeys' \subseteq AdmittedKeys
    BY <1>2, <2>1 DEF ActiveKeys, AdmittedKeys
  <2> QED
    BY <1>1, <1>2, <2>2, RoomShrinks
<1>4. CASE rows[c.key].status = "absent"
  <2>1. c.from \in Admissible
    BY <1>0, <1>4 DEF Admissible, MayInsert
  <2>2. AdmittedKeys' \in SUBSET (AdmittedKeys \cup {c.key})
    BY <1>2, <1>4 DEF Insert, ActiveKeys, AdmittedKeys, QueueInv, TypeOK
  <2>3. IsFiniteSet(AdmittedKeys) /\ Cardinality(AdmittedKeys) \in Nat
    BY FS_CardinalityType DEF RoomKept
  <2>4. /\ IsFiniteSet(AdmittedKeys \cup {c.key})
        /\ Cardinality(AdmittedKeys \cup {c.key}) <= Cardinality(AdmittedKeys) + 1
        /\ Cardinality(AdmittedKeys \cup {c.key}) \in Nat
    <3>1. /\ IsFiniteSet(AdmittedKeys \cup {c.key})
          /\ Cardinality(AdmittedKeys \cup {c.key}) =
                IF c.key \in AdmittedKeys THEN Cardinality(AdmittedKeys)
                                         ELSE Cardinality(AdmittedKeys) + 1
      BY <2>3, FS_AddElement
    <3> QED
      BY <2>3, <3>1
  <2>5. /\ IsFiniteSet(AdmittedKeys') /\ Cardinality(AdmittedKeys') \in Nat
        /\ Cardinality(AdmittedKeys') <= Cardinality(AdmittedKeys) + 1
    BY <2>2, <2>3, <2>4, FS_Subset, FS_CardinalityType
  <2>6. /\ IsFiniteSet(Admissible \ {c.from})
        /\ Cardinality(Admissible \ {c.from}) = Cardinality(Admissible) - 1
    BY <2>1, AdmissibleFinite, FS_RemoveElement
  <2>7. Admissible' \in SUBSET (Admissible \ {c.from})
    BY <1>1
  <2>8. /\ Cardinality(Admissible') <= Cardinality(Admissible) - 1
        /\ Cardinality(Admissible') \in Nat /\ Cardinality(Admissible) \in Nat
    BY <2>6, <2>7, AdmissibleFinite, FS_Subset, FS_CardinalityType
  <2>9. Cardinality(AdmittedKeys) + Cardinality(Admissible)
            <= Capacity + Cardinality(Producers) - 1
    BY DEF RoomKept
  <2> QED
    BY <1>2, <2>3, <2>5, <2>8, <2>9, AdmissibleFinite, QueueAssumption DEF RoomKept
<1> QED
  BY <1>3, <1>4

\* A request that reads a depth below the capacity can be one of all of them.
LEMMA RoomRead ==
    ASSUME QueueInv, RoomKept, NEW p \in Producers, NEW k \in Keys, ReadDepth(p, k)
    PROVE  RoomKept'
<1>1. UNCHANGED <<rows, lostReplies>> /\ calls' = calls \cup {NewCall(p, k)}
  BY DEF ReadDepth
<1>2. /\ NewCall(p, k).from = p /\ NewCall(p, k).full = (QueueDepth >= Capacity)
      /\ NewCall(p, k).at = "lookup"
  BY DEF NewCall
<1>3. UNCHANGED <<LostKeys, AdmittedKeys>> /\ IsFiniteSet(LostKeys)
  BY <1>1 DEF ActiveKeys, LostKeys, AdmittedKeys, RoomKept
<1>4. CASE QueueDepth >= Capacity
  <2>1. Admissible' \subseteq Admissible
    BY <1>1, <1>2, <1>4 DEF Admissible, MayInsert
  <2> QED
    BY <1>3, <2>1, RoomShrinks
<1>5. CASE ~(QueueDepth >= Capacity)
  <2>1. Admissible' \in SUBSET Producers
    BY DEF Admissible
  <2>2. Cardinality(Admissible') <= Cardinality(Producers) /\ Cardinality(Admissible') \in Nat
        /\ Cardinality(Producers) \in Nat
    BY <2>1, QueueAssumption, FS_Subset, FS_CardinalityType
  <2>3. Cardinality(AdmittedKeys) <= Capacity - 1 /\ Cardinality(AdmittedKeys) \in Nat
    BY <1>5, DepthOfRoom, QueueAssumption
  <2>4. Cardinality(AdmittedKeys') + Cardinality(Admissible')
            <= Capacity + Cardinality(Producers) - 1
    BY <1>3, <2>2, <2>3, QueueAssumption
  <2> QED
    BY <1>3, <2>4 DEF RoomKept
<1> QED
  BY <1>4, <1>5

\* The room is kept by every step.
LEMMA RoomStep ==
    ASSUME MaxLapses = 0, QueueInv, TasksHoldLiveLeases, OneCallEach, RoomKept,
           [Next]_queueVars
    PROVE  RoomKept'
<1>1. CASE \E c \in calls : Insert(c)
  BY <1>1, RoomInsert
<1>2. CASE \E p \in Producers, k \in Keys : ReadDepth(p, k)
  BY <1>2, RoomRead
<1>3. CASE /\ ~\E c \in calls : Insert(c)
           /\ ~\E p \in Producers, k \in Keys : ReadDepth(p, k)
  <2>1. AdmittedKeys' \subseteq AdmittedKeys
    BY <1>3, OnlyInsertsAdd
  <2>2. Admissible' \subseteq Admissible
    BY <1>3, RequestsSpent
  <2>3. IsFiniteSet(LostKeys')
    BY LostFinite DEF RoomKept
  <2> QED
    BY <2>1, <2>2, <2>3, RoomShrinks
<1> QED
  BY <1>1, <1>2, <1>3

\* If heartbeats keep their leases, concurrent requests overshoot the capacity by
\* less than their number, although each reads the depth and inserts in two steps,
\* and by the jobs that came back because complete() lost its reply.
THEOREM OvershootBounded == MaxLapses = 0 => (Spec => []CapacityOvershootBounded)
<1> SUFFICES ASSUME MaxLapses = 0 PROVE Spec => []CapacityOvershootBounded
  OBVIOUS
<1>1. Init => OneCallEach /\ RoomKept
  <2> SUFFICES ASSUME Init PROVE OneCallEach /\ RoomKept
    OBVIOUS
  <2>1. AdmittedKeys = {} /\ LostKeys = {} /\ Admissible = {} /\ OneCallEach
    BY RowFields DEF Init, ActiveKeys, AdmittedKeys, LostKeys, Admissible, Active, OneCallEach
  <2>2. Cardinality({}) = 0 /\ IsFiniteSet({})
    BY FS_EmptySet
  <2> QED
    BY <2>1, <2>2, AdmissibleFinite, QueueAssumption DEF RoomKept
<1>2. QueueInv /\ OneCallEach /\ [Next]_queueVars => OneCallEach'
  BY CallsStep
<1>3. /\ QueueInv /\ TasksHoldLiveLeases /\ OneCallEach /\ RoomKept
      /\ [Next]_queueVars
      => RoomKept'
  BY RoomStep
<1>4. RoomKept => CapacityOvershootBounded
  <2> SUFFICES ASSUME RoomKept PROVE CapacityOvershootBounded
    OBVIOUS
  <2>1. Cardinality(AdmittedKeys) <= Capacity + Cardinality(Producers) - 1
    BY DepthOfRoom, AdmissibleFinite, QueueAssumption DEF RoomKept
  <2> QED
    BY <2>1, DepthOfRoom, AdmissibleFinite, QueueAssumption
       DEF CapacityOvershootBounded, LostKeys
<1> QED
  BY <1>1, <1>2, <1>3, <1>4, TimelyHolds, PTL DEF Spec

-----------------------------------------------------------------------------
(* The queue implements JobDelivery, while heartbeats keep their leases.   *)

\* What the mapped state says of each job.
DeliveryMeans ==
    /\ DeliveryState = [k \in Keys |-> DeliveryState[k]]
    /\ DeliveryHolder = [k \in Keys |-> DeliveryHolder[k]]
    /\ \A k \in Keys :
          /\ DeliveryState[k] = IF InHands(k) THEN "held"
                               ELSE IF rows[k].status = "absent" THEN "absent"
                               ELSE IF rows[k].status \in Terminal THEN "done" ELSE "waiting"
          /\ \A t \in tasks : t.key = k => DeliveryHolder[k] = t.worker
          /\ ~InHands(k) => DeliveryHolder[k] = NoOwner

LEMMA DeliveryMeansIt == QueueInv /\ TasksHoldLiveLeases => DeliveryMeans
<1> SUFFICES ASSUME QueueInv, TasksHoldLiveLeases PROVE DeliveryMeans
  OBVIOUS
<1>1. /\ DeliveryState = [k \in Keys |-> DeliveryState[k]]
      /\ DeliveryHolder = [k \in Keys |-> DeliveryHolder[k]]
  BY DEF DeliveryState, DeliveryHolder
<1>2. ASSUME NEW k \in Keys
      PROVE  DeliveryState[k] = IF InHands(k) THEN "held"
                                ELSE IF rows[k].status = "absent" THEN "absent"
                                ELSE IF rows[k].status \in Terminal THEN "done" ELSE "waiting"
  BY DEF DeliveryState, Terminal
<1>3. ASSUME NEW k \in Keys
      PROVE  /\ \A t \in tasks : t.key = k => DeliveryHolder[k] = t.worker
             /\ ~InHands(k) => DeliveryHolder[k] = NoOwner
  <2>1. \A t, u \in tasks : t.key = u.key => t = u
    BY DEF QueueInv, TasksHoldLiveLeases, NewestClaimHoldsLease
  <2> QED
    BY <2>1 DEF DeliveryHolder, InHands
<1> QED
  BY <1>1, <1>2, <1>3 DEF DeliveryMeans

\* A job that stays on its side of the table, or in the hands it was in.
StaysPut(k) ==
    /\ ~InHands(k) => /\ rows[k].status \in Terminal <=> rows'[k].status \in Terminal
                      /\ rows[k].status = "absent" <=> rows'[k].status = "absent"
    /\ InHands(k) => InHands(k)'
    /\ \A t \in tasks' : t.key = k => \E u \in tasks : u.key = k /\ u.worker = t.worker

LEMMA PutIsKept ==
    ASSUME DeliveryMeans, DeliveryMeans', NEW k \in Keys, StaysPut(k)
    PROVE  DeliveryState'[k] = DeliveryState[k] /\ DeliveryHolder'[k] = DeliveryHolder[k]
<1>0. InHands(k) <=> InHands(k)'
  BY DEF StaysPut, InHands
<1>1. DeliveryState'[k] = DeliveryState[k]
  BY <1>0 DEF DeliveryMeans, StaysPut
<1>2. DeliveryHolder'[k] = DeliveryHolder[k]
  BY <1>0 DEF DeliveryMeans, StaysPut, InHands
<1> QED
  BY <1>1, <1>2

LEMMA AllPutIsStutter ==
    ASSUME DeliveryMeans, DeliveryMeans', \A k \in Keys : StaysPut(k)
    PROVE  UNCHANGED Delivery!deliveryVars
<1>1. \A k \in Keys : DeliveryState'[k] = DeliveryState[k] /\ DeliveryHolder'[k] = DeliveryHolder[k]
  BY PutIsKept
<1> QED
  BY <1>1 DEF DeliveryMeans, Delivery!deliveryVars

\* The jobs S are let go of by the worker that held them.
LEMMA GivenUp ==
    ASSUME QueueInv, DeliveryMeans, DeliveryMeans', NEW w \in Workers, NEW S \in SUBSET Keys,
           \A k \in S : /\ rows'[k].status # "absent"
                        /\ \E t \in tasks : t.key = k /\ t.worker = w
                        /\ ~InHands(k)',
           \A k \in Keys \ S : StaysPut(k)
    PROVE  Delivery!Next
<1> DEFINE D == {k \in S : rows'[k].status \in Terminal}
<1>1. \A k \in S : DeliveryState[k] = "held" /\ DeliveryHolder[k] = w
  BY DEF DeliveryMeans, InHands
<1>2. \A k \in S : /\ DeliveryState'[k] = IF k \in D THEN "done" ELSE "waiting"
                   /\ DeliveryHolder'[k] = NoOwner
  BY DEF DeliveryMeans
<1>3. \A k \in Keys \ S : /\ DeliveryState'[k] = DeliveryState[k]
                          /\ DeliveryHolder'[k] = DeliveryHolder[k]
  BY PutIsKept
<1>4. D \in SUBSET S
  OBVIOUS
<1> HIDE DEF D
<1>5. \A k \in Keys :
         /\ DeliveryState'[k] = IF k \in D THEN "done"
                                ELSE IF k \in S THEN "waiting" ELSE DeliveryState[k]
         /\ DeliveryHolder'[k] = IF k \in S THEN NoOwner ELSE DeliveryHolder[k]
  BY <1>2, <1>3, <1>4
<1>6. /\ DeliveryState' = [k \in Keys |-> DeliveryState'[k]]
      /\ DeliveryHolder' = [k \in Keys |-> DeliveryHolder'[k]]
  BY DEF DeliveryMeans
<1>7. /\ DeliveryState' = [k \in Keys |-> IF k \in D THEN "done"
                                          ELSE IF k \in S THEN "waiting" ELSE DeliveryState[k]]
      /\ DeliveryHolder' = [k \in Keys |-> IF k \in S THEN NoOwner ELSE DeliveryHolder[k]]
  BY <1>5, <1>6
<1>8. Delivery!GiveUp(w, S)
  BY <1>1, <1>4, <1>7 DEF Delivery!GiveUp
<1> QED
  BY <1>8 DEF Delivery!Next

\* Each step of the queue is a step of the delivery, or none.
LEMMA DeliveryStep ==
    ASSUME MaxLapses = 0, QueueInv, TasksHoldLiveLeases, DeliveryMeans, DeliveryMeans',
           [Next]_queueVars
    PROVE  [Delivery!Next]_(Delivery!deliveryVars)
<1>0. /\ TypeOK
      /\ \A t \in tasks : /\ t \in Task /\ t.key \in Keys /\ t.worker \in Workers
                          /\ rows[t.key].status \notin {"absent", "queued"}
      /\ \A t, u \in tasks : t.key = u.key => t = u
      /\ \A k \in Keys : rows[k] \in Row
  BY DEF QueueInv, TypeOK, Task, TasksHoldLiveLeases, HoldsLiveLease, SettledUnheard,
         NewestClaimHoldsLease
<1>1. ASSUME NEW k \in Keys, rows'[k] = rows[k], UNCHANGED tasks PROVE StaysPut(k)
  BY <1>1 DEF StaysPut, InHands
<1>2. ASSUME UNCHANGED <<rows, tasks>> PROVE UNCHANGED Delivery!deliveryVars
  BY <1>1, <1>2, AllPutIsStutter
<1>3. ASSUME NEW c \in calls, Insert(c) PROVE [Delivery!Next]_(Delivery!deliveryVars)
  <2>1. CASE rows[c.key].status # "absent"
    BY <1>2, <1>3, <2>1 DEF Insert
  <2>2. CASE rows[c.key].status = "absent"
    <3>1. /\ c.key \in Keys /\ nextId \in Nat /\ UNCHANGED tasks
          /\ rows' = [rows EXCEPT ![c.key] = Inserted(nextId)]
      BY <1>0, <1>3, <2>2 DEF Insert, TypeOK, Call
    <3>2. ~InHands(c.key) /\ ~InHands(c.key)' /\ rows'[c.key].status = "queued"
      BY <1>0, <2>2, <3>1, RowFields DEF InHands, TypeOK
    <3>3. /\ DeliveryState[c.key] = "absent" /\ DeliveryHolder[c.key] = NoOwner
          /\ DeliveryState'[c.key] = "waiting" /\ DeliveryHolder'[c.key] = NoOwner
      BY <2>2, <3>1, <3>2 DEF DeliveryMeans, Terminal
    <3>4. \A j \in Keys \ {c.key} : /\ DeliveryState'[j] = DeliveryState[j]
                                    /\ DeliveryHolder'[j] = DeliveryHolder[j]
      BY <1>0, <1>1, <3>1, PutIsKept DEF TypeOK
    <3>5. Delivery!Submit(c.key)
      BY <3>1, <3>3, <3>4 DEF DeliveryMeans, Delivery!Submit
    <3> QED
      BY <3>1, <3>5 DEF Delivery!Next
  <2> QED
    BY <2>1, <2>2
<1>4. ASSUME NEW w \in Workers, ReclaimExpired(w) PROVE UNCHANGED Delivery!deliveryVars
  <2>1. ASSUME NEW k \in Keys PROVE StaysPut(k)
    <3>1. CASE Expired(k)
      <4>1. rows'[k] = Reclaimed(rows[k]) /\ UNCHANGED tasks
        BY <1>4, <3>1 DEF ReclaimExpired
      <4> QED
        BY <1>0, <3>1, <4>1, RowFields DEF Expired, StaysPut, InHands, Terminal
    <3>2. CASE ~Expired(k)
      BY <1>1, <1>4, <3>2 DEF ReclaimExpired
    <3> QED
      BY <3>1, <3>2
  <2> QED
    BY <2>1, AllPutIsStutter
<1>5. ASSUME NEW w \in Workers, NEW k \in Keys, ClaimNext(w, k)
      PROVE  [Delivery!Next]_(Delivery!deliveryVars)
  <2>1. /\ rows[k].status = "queued" /\ rows' = [rows EXCEPT ![k] = Leased(rows[k], w)]
        /\ tasks' = tasks \cup {NewTask(w, k)}
    BY <1>5 DEF ClaimNext, Claimable
  <2>2. ~InHands(k) /\ InHands(k)' /\ rows'[k].status = "running"
    BY <1>0, <2>1, TaskFields, RowFields DEF InHands, TypeOK
  <2>3. DeliveryState[k] = "waiting" /\ DeliveryState'[k] = "held" /\ DeliveryHolder'[k] = w
    BY <2>1, <2>2, TaskFields DEF DeliveryMeans, Terminal
  <2>4. ASSUME NEW j \in Keys \ {k} PROVE StaysPut(j)
    BY <1>0, <2>1, TaskFields DEF StaysPut, InHands, TypeOK
  <2>5. \A j \in Keys \ {k} : /\ DeliveryState'[j] = DeliveryState[j]
                              /\ DeliveryHolder'[j] = DeliveryHolder[j]
    BY <2>4, PutIsKept
  <2>6. Delivery!HandOut(k, w)
    BY <2>3, <2>5 DEF DeliveryMeans, Delivery!HandOut
  <2> QED
    BY <2>6 DEF Delivery!Next
<1>6. ASSUME NEW t \in tasks, NEW u, Replace(t, u), u.key = t.key, u.worker = t.worker,
             \A k \in Keys : k # t.key => rows'[k] = rows[k]
      PROVE  UNCHANGED Delivery!deliveryVars
  <2>1. ASSUME NEW k \in Keys PROVE StaysPut(k)
    BY <1>0, <1>6 DEF StaysPut, InHands, Replace
  <2> QED
    BY <2>1, AllPutIsStutter
<1>7. ASSUME NEW t \in tasks, RunJob(t) \/ CompleteError(t) PROVE UNCHANGED Delivery!deliveryVars
  <2>1. PICK a \in {"run", "complete", "fail"} : Replace(t, At(t, a))
    BY <1>7 DEF RunJob, CompleteError
  <2>2. \A k \in Keys : k # t.key => rows'[k] = rows[k]
    BY <1>0, <1>7 DEF RunJob, CompleteError, TypeOK
  <2> QED
    BY <1>0, <1>6, <2>1, <2>2, TaskFields
<1>8. ASSUME NEW t \in tasks, NEW k \in Keys, k # t.key, tasks' = tasks \ {t},
             rows'[k] = rows[k]
      PROVE  StaysPut(k)
  BY <1>8 DEF StaysPut, InHands
<1>9. ASSUME NEW t \in tasks, tasks' = tasks \ {t} PROVE ~InHands(t.key)'
  BY <1>0, <1>9 DEF InHands
<1>10. ASSUME NEW t \in tasks, Complete(t) \/ Fail(t) \/ FailError(t) PROVE Delivery!Next
  <2>1. /\ tasks' = tasks \ {t} /\ rows'[t.key].status # "absent"
        /\ \A k \in Keys \ {t.key} : rows'[k] = rows[k]
    BY <1>0, <1>10, RowFields DEF Complete, Fail, FailError, TypeOK
  <2>2. \A k \in Keys \ {t.key} : StaysPut(k)
    BY <1>8, <2>1
  <2> DEFINE S == {t.key}
  <2>3. S \in SUBSET Keys /\ t.worker \in Workers
    BY <1>0
  <2>4. ~InHands(t.key)'
    BY <1>9, <2>1
  <2>5. \A k \in S : /\ rows'[k].status # "absent"
                     /\ \E u \in tasks : u.key = k /\ u.worker = t.worker
                     /\ ~InHands(k)'
    BY <2>1, <2>4
  <2>6. \A k \in Keys \ S : StaysPut(k)
    BY <2>2
  <2> HIDE DEF S
  <2> QED
    BY <2>3, <2>5, <2>6, GivenUp
<1>12. ASSUME NEW t \in tasks, Heartbeat(t) PROVE UNCHANGED Delivery!deliveryVars
  <2>1. CASE rows' = [rows EXCEPT ![t.key] = WithLease(rows[t.key], "live")] /\ UNCHANGED tasks
    <3>1. ASSUME NEW k \in Keys PROVE rows'[k].status = rows[k].status
      BY <1>0, <2>1, RowFields DEF TypeOK
    <3> QED
      BY <2>1, <3>1, AllPutIsStutter DEF StaysPut, InHands
  <2>2. CASE Replace(t, Silent(t)) /\ UNCHANGED rows
    BY <1>0, <1>6, <2>2, TaskFields
  <2> QED
    BY <1>12, <2>1, <2>2 DEF Heartbeat
<1>13. ASSUME NEW t \in tasks, HeartbeatError(t) PROVE FALSE
  BY <1>13, QueueAssumption DEF HeartbeatError, QueueInv, TypeOK
<1>14. ASSUME NEW j \in Keys, Clock(j) PROVE UNCHANGED Delivery!deliveryVars
  <2>1. /\ UNCHANGED tasks
        /\ \/ rows' = [rows EXCEPT ![j] = WithLease(rows[j], "lapsed")]
           \/ rows' = [rows EXCEPT ![j] = Available(rows[j])]
    BY <1>14 DEF Clock, LapseUnbeaten, LapseLate, BecomeAvailable
  <2>2. ASSUME NEW k \in Keys PROVE rows'[k].status = rows[k].status
    <3>1. \A r \in Row : /\ WithLease(r, "lapsed").status = r.status
                         /\ Available(r).status = r.status
      BY RowFields
    <3> QED
      BY <1>0, <2>1, <3>1 DEF TypeOK
  <2> QED
    BY <2>1, <2>2, AllPutIsStutter DEF StaysPut, InHands
<1>15. ASSUME NEW w \in Workers, Crash(w) PROVE Delivery!Next
  <2> DEFINE S == {k \in Keys : \E t \in TasksOf(w) : t.key = k}
  <2>1. UNCHANGED rows /\ tasks' = tasks \ TasksOf(w)
    BY <1>15 DEF Crash
  <2>2. \A k \in S : /\ rows'[k].status # "absent"
                     /\ \E t \in tasks : t.key = k /\ t.worker = w
                     /\ ~InHands(k)'
    BY <1>0, <2>1 DEF TasksOf, InHands
  <2>3. \A k \in Keys \ S : StaysPut(k)
    BY <2>1 DEF StaysPut, InHands
  <2> HIDE DEF S
  <2>4. S \in SUBSET Keys
    BY DEF S
  <2> QED
    BY <2>2, <2>3, <2>4, GivenUp
<1>16. ASSUME NEW w \in Workers, ClaimNone(w) \/ RequestStop(w) \/ Stopped(w) \/ Start(w)
       PROVE  UNCHANGED Delivery!deliveryVars
  BY <1>2, <1>16 DEF ClaimNone, RequestStop, Stopped, Start
<1>17. ASSUME NEW p \in Producers, NEW k \in Keys, ReadDepth(p, k)
       PROVE  UNCHANGED Delivery!deliveryVars
  BY <1>2, <1>17 DEF ReadDepth
<1>18. ASSUME NEW c \in calls, LookUp(c) PROVE UNCHANGED Delivery!deliveryVars
  BY <1>2, <1>18 DEF LookUp
<1>19. CASE UNCHANGED queueVars
  BY <1>2, <1>19 DEF queueVars
<1>20. ASSUME NEW t \in tasks, RunTask(t) PROVE [Delivery!Next]_(Delivery!deliveryVars)
  BY <1>7, <1>10, <1>20 DEF RunTask
<1>21. ASSUME NEW w \in Workers, Poll(w) \/ Process(w)
       PROVE  [Delivery!Next]_(Delivery!deliveryVars)
  BY <1>4, <1>5, <1>15, <1>16, <1>21 DEF Poll, Process
<1> QED
  BY <1>3, <1>12, <1>13, <1>14, <1>17, <1>18, <1>19, <1>20, <1>21 DEF Next, Enqueue

\* If heartbeats keep their leases, the queue delivers each job to one worker at
\* a time, again after it was given up, and never again once that worker is done
\* with a settled row, whatever settlements fail and whichever replies are lost.
THEOREM ImplementsDelivery == MaxLapses = 0 => (Spec => DeliverySpec)
<1> SUFFICES ASSUME MaxLapses = 0 PROVE Spec => DeliverySpec
  OBVIOUS
<1>1. Init => Delivery!Init
  <2> SUFFICES ASSUME Init PROVE Delivery!Init
    OBVIOUS
  <2>1. tasks = {} /\ \A k \in Keys : rows[k].status = "absent"
    BY RowFields DEF Init
  <2>2. ASSUME NEW k \in Keys PROVE DeliveryState[k] = "absent" /\ DeliveryHolder[k] = NoOwner
    <3>1. ~InHands(k)
      BY <2>1 DEF InHands
    <3> QED
      BY <2>1, <3>1 DEF DeliveryState, DeliveryHolder, Terminal
  <2>3. /\ DeliveryState = [k \in Keys |-> DeliveryState[k]]
        /\ DeliveryHolder = [k \in Keys |-> DeliveryHolder[k]]
    BY DEF DeliveryState, DeliveryHolder
  <2> QED
    BY <2>2, <2>3 DEF Delivery!Init
<1>2. QueueInv /\ TasksHoldLiveLeases => DeliveryMeans
  BY DeliveryMeansIt
<1>3. /\ QueueInv /\ TasksHoldLiveLeases /\ DeliveryMeans /\ DeliveryMeans'
      /\ [Next]_queueVars
      => [Delivery!Next]_(Delivery!deliveryVars)
  BY DeliveryStep
<1> QED
  BY <1>1, <1>2, <1>3, TimelyHolds, PTL DEF Spec, DeliverySpec, Delivery!Spec
=============================================================================
