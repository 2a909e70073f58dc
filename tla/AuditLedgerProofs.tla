-------------------------- MODULE AuditLedgerProofs --------------------------
(***************************************************************************)
(* LedgerInv of AuditLedger is an inductive invariant, for any number of   *)
(* processes, calls, keys, records and restores.                           *)
(***************************************************************************)
EXTENDS AuditLedger, TLAPS

USE DEF Genesis

-----------------------------------------------------------------------------
(* Types.  What each action makes of a call is a call again.               *)

LEMMA IdleType == Idle \in Call
<1>1. <<>> \in Seq(Record)
  OBVIOUS
<1> QED BY <1>1 DEF Idle, Call

LEMMA OpenedType ==
    ASSUME NEW kind \in {"decision", "startup", "verify"}, NEW p \in Processes,
           NEW where \in {"lock", "list"}
    PROVE  Opened(kind, p, where) \in Call
BY IdleType DEF Opened, Idle, Call

LEMMA GotoType ==
    ASSUME NEW k \in Call, NEW where \in {"head", "list"}
    PROVE  [k EXCEPT !.at = where] \in Call
BY DEF Call

LEMMA HeadHashType ==
    ASSUME NEW s \in Seq(Record)
    PROVE  HeadHash(s) \in {Genesis} \cup Hashes
<1>1. CASE s = <<>>
  BY <1>1 DEF HeadHash
<1>2. CASE s # <<>>
  <2>1. Len(s) \in DOMAIN s
    BY <1>2
  <2>2. s[Len(s)] \in Record
    BY <2>1
  <2> QED BY <1>2, <2>2 DEF HeadHash, Record
<1> QED BY <1>1, <1>2

LEMMA ReadHeadType ==
    ASSUME TypeOK, NEW k \in Call
    PROVE  [k EXCEPT !.at = "insert", !.prev = HeadHash(rows), !.count = Len(rows)] \in Call
<1>1. HeadHash(rows) \in {Genesis} \cup Hashes
  BY HeadHashType DEF TypeOK
<1>2. Len(rows) \in Nat
  BY DEF TypeOK
<1> QED BY <1>1, <1>2 DEF Call

LEMMA NewHash == ASSUME TypeOK, sealed < MaxRecords PROVE sealed + 1 \in Hashes
BY LedgerAssumption DEF TypeOK, Hashes

LEMMA SealedType ==
    ASSUME TypeOK, NEW c \in Calls, sealed < MaxRecords, call[c].by \in Processes
    PROVE  Sealed(c, Key(c)) \in Record
<1>1. call[c].prev \in {Genesis} \cup Hashes
  BY DEF TypeOK, Call
<1>2. Key(c) \in Keys
  BY DEF TypeOK, Key, Process
<1> QED BY <1>1, <1>2, NewHash DEF Sealed, Record

LEMMA CommitType ==
    ASSUME TypeOK, NEW k \in Call, sealed < MaxRecords
    PROVE  [k EXCEPT !.at = "anchor", !.hash = sealed + 1] \in Call
BY NewHash DEF Call

LEMMA ListType ==
    ASSUME TypeOK, NEW k \in Call
    PROVE  [k EXCEPT !.at = "compare", !.seen = rows] \in Call
BY DEF Call, TypeOK

LEMMA AnchorType ==
    ASSUME TypeOK, NEW c \in Calls, call[c].by \in Processes, call[c].hash \in Hashes
    PROVE  SealAnchor(c) \in Anchor
<1>1. Key(c) \in Keys
  BY DEF TypeOK, Key, Process
<1>2. call[c].count + 1 \in Nat \ {0}
  BY DEF TypeOK, Call
<1> QED BY <1>1, <1>2 DEF SealAnchor, Anchor

\* Call c becomes k, and the others stay.
Becomes(c, k) == call' = [call EXCEPT ![c] = k]

LEMMA BecomesType ==
    ASSUME TypeOK, NEW c \in Calls, NEW k \in Call, Becomes(c, k)
    PROVE  /\ call' \in [Calls -> Call]
           /\ call'[c] = k
           /\ \A d \in Calls : d # c => call'[d] = call[d]
BY DEF TypeOK, Becomes

\* What a call's record says of it, in the words of the type.
LEMMA CallFacts ==
    ASSUME TypeOK, CallsOK, NEW c \in Calls
    PROVE  /\ call[c] \in Call
           /\ call[c].at # "idle" => call[c].by \in Processes /\ Key(c) \in Keys
           /\ call[c].at = "anchor" => call[c].hash \in Hashes
<1>1. call[c] \in Call
  BY DEF TypeOK
<1>2. CallOK(c)
  BY DEF CallsOK
<1>3. ASSUME call[c].at # "idle" PROVE call[c].by \in Processes /\ Key(c) \in Keys
  BY <1>2, <1>3 DEF CallOK, TypeOK, Process, Key
<1>4. ASSUME call[c].at = "anchor" PROVE call[c].hash \in Hashes
  <2>1. call[c].count + 1 \in DOMAIN rows /\ rows[call[c].count + 1].hash = call[c].hash
    BY <1>2, <1>4 DEF CallOK
  <2>2. rows[call[c].count + 1] \in Record
    BY <2>1 DEF TypeOK
  <2> QED BY <2>1, <2>2 DEF Record
<1> QED BY <1>1, <1>3, <1>4

LEMMA RaiseType ==
    ASSUME TypeOK, NEW c \in Calls, Raise(c)
    PROVE  call' \in [Calls -> Call] /\ process' \in [Processes -> Process]
<1>1. call' \in [Calls -> Call]
  BY IdleType DEF Raise, End, TypeOK
<1>2. process' \in [Processes -> Process]
  BY DEF Raise, TypeOK, Process
<1> QED BY <1>1, <1>2

LEMMA ReleaseType == ASSUME TypeOK, NEW c \in Calls, Release(c) PROVE lock' \in Calls \cup {"free"}
BY DEF Release, TypeOK

\* Every step keeps the types.
LEMMA TypeStep == TypeOK /\ CallsOK /\ [Next]_vars => TypeOK'
<1> SUFFICES ASSUME TypeOK, CallsOK, [Next]_vars PROVE TypeOK'
  OBVIOUS
<1>1. CASE UNCHANGED vars
  BY <1>1 DEF TypeOK, vars
<1>2. ASSUME NEW c \in Calls, Lock(c) PROVE TypeOK'
  <2>1. call' \in [Calls -> Call]
    BY <1>2, GotoType DEF Lock, Goto, TypeOK
  <2> QED BY <1>2, <2>1 DEF Lock, TypeOK
<1>3. ASSUME NEW c \in Calls, ReadHead(c) PROVE TypeOK'
  <2>0. call[c] \in Call
    BY DEF TypeOK
  <2>1. CASE Release(c) /\ Goto(c, "list")
    <3>1. call' \in [Calls -> Call]
      BY <2>0, <2>1, GotoType DEF Goto, TypeOK
    <3> QED BY <1>3, <2>1, <3>1, ReleaseType DEF ReadHead, TypeOK
  <2>2. CASE /\ call' = [call EXCEPT ![c] = [@ EXCEPT !.at = "insert", !.prev = HeadHash(rows),
                                                      !.count = Len(rows)]]
             /\ UNCHANGED lock
    <3>1. call' \in [Calls -> Call]
      BY <2>0, <2>2, ReadHeadType DEF TypeOK
    <3> QED BY <1>3, <2>2, <3>1 DEF ReadHead, TypeOK
  <2> QED BY <1>3, <2>1, <2>2 DEF ReadHead
<1>4. ASSUME NEW c \in Calls, Commit(c) PROVE TypeOK'
  <2>0. call[c] \in Call /\ call[c].by \in Processes
    BY <1>4, CallFacts DEF Commit, At
  <2>1. call' \in [Calls -> Call]
    BY <1>4, <2>0, CommitType DEF Commit, TypeOK
  <2>2. rows' \in Seq(Record)
    BY <1>4, <2>0, SealedType DEF Commit, TypeOK
  <2>3. sealed' \in 0..MaxRecords
    BY <1>4, LedgerAssumption DEF Commit, TypeOK
  <2> QED BY <1>4, <2>1, <2>2, <2>3, ReleaseType DEF Commit, TypeOK
<1>5. ASSUME NEW c \in Calls, Abort(c) PROVE TypeOK'
  BY <1>5, RaiseType, ReleaseType DEF Abort, TypeOK
<1>6. ASSUME NEW c \in Calls, WriteAnchor(c) PROVE TypeOK'
  <2>0. call[c] \in Call /\ call[c].by \in Processes /\ call[c].hash \in Hashes
    BY <1>6, CallFacts DEF WriteAnchor, At
  <2>1. call' \in [Calls -> Call]
    BY <1>6, <2>0, GotoType, IdleType DEF WriteAnchor, Goto, End, TypeOK
  <2>2. anchors' \in Seq(Anchor)
    BY <1>6, <2>0, AnchorType DEF WriteAnchor, TypeOK
  <2>3. acknowledged' \subseteq Hashes
    BY <1>6, <2>0 DEF WriteAnchor, TypeOK
  <2> QED BY <1>6, <2>1, <2>2, <2>3 DEF WriteAnchor, TypeOK
<1>7. ASSUME NEW c \in Calls, SinkFails(c) PROVE TypeOK'
  BY <1>7, RaiseType DEF SinkFails, TypeOK
<1>8. ASSUME NEW c \in Calls, List(c) PROVE TypeOK'
  <2>0. call[c] \in Call
    BY DEF TypeOK
  <2>1. call' \in [Calls -> Call]
    BY <1>8, <2>0, ListType DEF List, TypeOK
  <2> QED BY <1>8, <2>1 DEF List, TypeOK
<1>9. ASSUME NEW c \in Calls, Compare(c) PROVE TypeOK'
  <2>1. call' \in [Calls -> Call]
    BY <1>9, IdleType DEF Compare, End, TypeOK
  <2>2. process' \in [Processes -> Process]
    BY <1>9 DEF Compare, TypeOK, Process
  <2>3. verdicts' \subseteq Verdicts
    BY <1>9 DEF Compare, TypeOK, Verdicts, Verdict, CheckAgainst
  <2> QED BY <1>9, <2>1, <2>2, <2>3 DEF Compare, TypeOK
<1>10. ASSUME NEW p \in Processes, Crash(p) PROVE TypeOK'
  <2>1. call' \in [Calls -> Call]
    BY <1>10, IdleType DEF Crash, TypeOK
  <2>2. process' \in [Processes -> Process]
    BY <1>10 DEF Crash, TypeOK, Process
  <2>3. lock' \in Calls \cup {"free"}
    BY <1>10 DEF Crash, TypeOK
  <2> QED BY <1>10, <2>1, <2>2, <2>3 DEF Crash, TypeOK
<1>11. ASSUME NEW p \in Processes, NEW c \in Calls, Start(p, c) PROVE TypeOK'
  <2>1. call' \in [Calls -> Call]
    BY <1>11, OpenedType DEF Start, TypeOK
  <2>2. process' \in [Processes -> Process]
    BY <1>11 DEF Start, TypeOK, Process
  <2> QED BY <1>11, <2>1, <2>2 DEF Start, TypeOK
<1>12. ASSUME NEW p \in Processes, NEW c \in Calls, AppendApproval(p, c) PROVE TypeOK'
  <2>1. call' \in [Calls -> Call]
    BY <1>12, OpenedType DEF AppendApproval, TypeOK
  <2> QED BY <1>12, <2>1 DEF AppendApproval, TypeOK
<1>13. ASSUME NEW p \in Processes, NEW c \in Calls, Verify(p, c) PROVE TypeOK'
  <2>1. call' \in [Calls -> Call]
    BY <1>13, OpenedType DEF Verify, TypeOK
  <2> QED BY <1>13, <2>1 DEF Verify, TypeOK
<1>14. CASE RotateKey
  BY <1>14, LedgerAssumption DEF RotateKey, TypeOK, Keys
<1>15. CASE Backup
  BY <1>15 DEF Backup, TypeOK
<1>16. CASE Restore
  BY <1>16, LedgerAssumption DEF Restore, TypeOK
<1> QED
  BY <1>1, <1>2, <1>3, <1>4, <1>5, <1>6, <1>7, <1>8, <1>9, <1>10, <1>11, <1>12,
     <1>13, <1>14, <1>15, <1>16 DEF Next, CallStep, ProcessStep, OperatorStep

-----------------------------------------------------------------------------
(* Beginnings of the ledger                                                *)

LEMMA PrefixRefl == ASSUME NEW s \in Seq(Record) PROVE Prefix(s, s)
BY DEF Prefix

LEMMA PrefixTrans ==
    ASSUME NEW s \in Seq(Record), NEW t \in Seq(Record), NEW u \in Seq(Record),
           Prefix(s, t), Prefix(t, u)
    PROVE  Prefix(s, u)
BY DEF Prefix

LEMMA PrefixAppend ==
    ASSUME NEW s \in Seq(Record), NEW r \in Record
    PROVE  /\ Prefix(s, Append(s, r))
           /\ Len(Append(s, r)) = Len(s) + 1
           /\ Append(s, r)[Len(s) + 1] = r
           /\ Len(s) + 1 \in DOMAIN Append(s, r)
BY DEF Prefix

LEMMA PrefixAt ==
    ASSUME NEW s \in Seq(Record), NEW t \in Seq(Record), Prefix(s, t), NEW i \in DOMAIN s
    PROVE  i \in DOMAIN t /\ t[i] = s[i]
BY DEF Prefix

-----------------------------------------------------------------------------
(* Calls.  A step changes one call; it must leave the others what they     *)
(* have read.                                                              *)

LEMMA OtherCall ==
    ASSUME TypeOK, TypeOK', NEW c \in Calls, CallOK(c), call'[c] = call[c],
           lock' = c <=> lock = c,
           call[c].at # "idle" => process'[call[c].by].at = process[call[c].by].at,
           Prefix(rows, rows'), call[c].at = "insert" => rows' = rows
    PROVE  CallOK(c)'
<1> DEFINE k == call[c]
<1>1. k \in Call
  BY DEF TypeOK
<1>2. k.at = "anchor" => /\ k.count + 1 \in DOMAIN rows'
                         /\ rows'[k.count + 1] = rows[k.count + 1]
  BY PrefixAt DEF CallOK, TypeOK
<1>3. k.at = "compare" => Prefix(k.seen, rows')
  <2>1. k.seen \in Seq(Record)
    BY <1>1 DEF Call
  <2> QED BY <2>1, PrefixTrans DEF CallOK, TypeOK
<1>4. k.at = "insert" => k.prev = HeadHash(rows)' /\ k.count = Len(rows)'
  BY DEF CallOK, HeadHash
<1>5. /\ k.kind = "startup" => process'[k.by].at = "starting"
      /\ k.kind \in {"decision", "verify"} => process'[k.by].at = "up"
  BY DEF CallOK
<1> QED BY <1>1, <1>2, <1>3, <1>4, <1>5 DEF CallOK

\* The same for a step that leaves the table, the lock and the processes alone.
LEMMA QuietStep ==
    ASSUME TypeOK, TypeOK', CallsOK, NEW c \in Calls, NEW k,
           call' = [call EXCEPT ![c] = k],
           \A d \in Calls : d # c => (lock' = d <=> lock = d),
           \A d \in Calls : (d # c /\ call[d].at # "idle") =>
               process'[call[d].by].at = process[call[d].by].at,
           Prefix(rows, rows'), rows' = rows \/ lock = c,
           CallOK(c)',
           k.kind = "startup" => (call[c].kind = "startup" /\ k.by = call[c].by) \/
                \A d \in Calls : d # c => ~(call[d].kind = "startup" /\ call[d].by = k.by)
    PROVE  CallsOK'
<1>1. call'[c] = k /\ \A d \in Calls : d # c => call'[d] = call[d]
  BY DEF TypeOK
<1>2. ASSUME NEW d \in Calls PROVE CallOK(d)'
  <2>1. CASE d = c
    BY <2>1
  <2>2. CASE d # c
    <3>1. CallOK(d)
      BY DEF CallsOK
    <3>2. call[d].at = "insert" => lock = d
      BY <3>1 DEF CallOK
    <3> QED BY <1>1, <2>2, <3>1, <3>2, OtherCall
  <2> QED BY <2>1, <2>2
<1>3. OneCallPerStart'
  BY <1>1 DEF CallsOK, OneCallPerStart
<1> QED BY <1>2, <1>3 DEF CallsOK

LEMMA RowsStay == ASSUME TypeOK, rows' = rows PROVE Prefix(rows, rows')
BY PrefixRefl DEF TypeOK

\* Processes that are down have no calls.
LEMMA NoCallsOfDown ==
    ASSUME TypeOK, CallsOK, NEW c \in Calls, call[c].at # "idle"
    PROVE  call[c].by \in Processes /\ process[call[c].by].at # "down"
<1>1. CallOK(c) /\ call[c] \in Call
  BY DEF CallsOK, TypeOK
<1> QED BY <1>1 DEF CallOK, Call

LEMMA RaiseCalls ==
    ASSUME TypeOK, TypeOK', CallsOK, NEW c \in Calls, Raise(c), call[c].at # "idle",
           \/ Release(c)
           \/ lock' = lock /\ call[c].at = "anchor",
           rows' = rows
    PROVE  CallsOK'
<1>1. CallOK(c) /\ OneCallPerStart
  BY DEF CallsOK
<1>2. \A d \in Calls : d # c => (lock' = d <=> lock = d)
  BY LedgerAssumption DEF Release
<1>3. lock' # c
  BY <1>1, LedgerAssumption DEF Release, CallOK
<1>4. ASSUME NEW d \in Calls, d # c, call[d].at # "idle"
      PROVE  process'[call[d].by].at = process[call[d].by].at
  <2>0. CallOK(d) /\ call[d] \in Call
    BY DEF CallsOK, TypeOK
  <2>1. CASE call[c].kind = "startup"
    <3>1. process[call[c].by].at = "starting"
      BY <1>1, <2>1 DEF CallOK
    <3>2. call[d].by # call[c].by
      BY <1>1, <1>4, <2>0, <2>1, <3>1 DEF CallOK, OneCallPerStart, Call
    <3>3. call[d].by \in Processes /\ call[c].by \in Processes
      BY <1>1, <1>4, <2>0 DEF CallOK
    <3> QED BY <2>1, <3>2, <3>3 DEF Raise, TypeOK
  <2>2. CASE call[c].kind # "startup"
    BY <2>2 DEF Raise
  <2> QED BY <2>1, <2>2
<1>5. CallOK(c)'
  <2>1. call'[c] = Idle
    BY DEF Raise, End, TypeOK
  <2> QED BY <1>3, <2>1 DEF CallOK, Idle
<1>6. Idle.kind # "startup"
  BY DEF Idle
<1>7. call' = [call EXCEPT ![c] = Idle]
  BY DEF Raise, End
<1> QED BY <1>2, <1>4, <1>5, <1>6, <1>7, RowsStay, QuietStep

LEMMA CallsStep == TypeOK /\ TypeOK' /\ CallsOK /\ [Next]_vars => CallsOK'
<1> SUFFICES ASSUME TypeOK, TypeOK', CallsOK, [Next]_vars PROVE CallsOK'
  OBVIOUS
<1>1. CASE UNCHANGED vars
  BY <1>1 DEF CallsOK, CallOK, OneCallPerStart, HeadHash, Prefix, vars
<1>2. ASSUME NEW c \in Calls, Lock(c) PROVE CallsOK'
  <2>1. CallOK(c) /\ call[c] \in Call
    BY DEF CallsOK, TypeOK
  <2>2. call' = [call EXCEPT ![c] = [call[c] EXCEPT !.at = "head"]]
    BY <1>2 DEF Lock, Goto
  <2>3. CallOK(c)'
    BY <1>2, <2>1, <2>2 DEF CallOK, Lock, At, TypeOK, Call
  <2>4. \A d \in Calls : d # c => (lock' = d <=> lock = d)
    BY <1>2, LedgerAssumption DEF Lock
  <2> QED BY <1>2, <2>1, <2>2, <2>3, <2>4, RowsStay, QuietStep DEF Lock, Call
<1>3. ASSUME NEW c \in Calls, ReadHead(c) PROVE CallsOK'
  <2>1. CallOK(c) /\ call[c] \in Call
    BY DEF CallsOK, TypeOK
  <2>2. lock = c
    BY <1>3, <2>1 DEF ReadHead, At, CallOK
  <2>3. \A d \in Calls : d # c => (lock' = d <=> lock = d)
    BY <1>3, <2>2, LedgerAssumption DEF ReadHead, Release
  <2>4. CASE Release(c) /\ Goto(c, "list") /\ call[c].kind = "startup"
    <3>1. call' = [call EXCEPT ![c] = [call[c] EXCEPT !.at = "list"]]
      BY <2>4 DEF Goto
    <3>2. CallOK(c)'
      BY <1>3, <2>1, <2>2, <2>4, <3>1, LedgerAssumption
      DEF CallOK, ReadHead, Release, At, TypeOK, Call
    <3> QED BY <1>3, <2>1, <2>3, <3>1, <3>2, RowsStay, QuietStep DEF ReadHead, Call
  <2>5. CASE /\ call' = [call EXCEPT ![c] = [@ EXCEPT !.at = "insert", !.prev = HeadHash(rows),
                                                      !.count = Len(rows)]]
             /\ UNCHANGED lock
    <3>1. call' = [call EXCEPT ![c] = [call[c] EXCEPT !.at = "insert", !.prev = HeadHash(rows),
                                                      !.count = Len(rows)]]
      BY <2>5
    <3>2. CallOK(c)'
      BY <1>3, <2>1, <2>2, <2>5, <3>1 DEF CallOK, ReadHead, At, TypeOK, Call, HeadHash
    <3> QED BY <1>3, <2>1, <2>3, <3>1, <3>2, RowsStay, QuietStep DEF ReadHead, Call
  <2> QED BY <1>3, <2>4, <2>5 DEF ReadHead
<1>4. ASSUME NEW c \in Calls, Commit(c) PROVE CallsOK'
  <2>1. CallOK(c) /\ call[c] \in Call /\ call[c].at = "insert"
    BY <1>4 DEF CallsOK, TypeOK, Commit, At
  <2>2. lock = c /\ call[c].by \in Processes
    BY <2>1 DEF CallOK
  <2>3. \A d \in Calls : d # c => (lock' = d <=> lock = d)
    BY <1>4, <2>2, LedgerAssumption DEF Commit, Release
  <2>4. Sealed(c, Key(c)) \in Record
    BY <1>4, <2>2, SealedType DEF Commit
  <2>5. call' = [call EXCEPT ![c] = [call[c] EXCEPT !.at = "anchor", !.hash = sealed + 1]]
    BY <1>4 DEF Commit
  <2>6. /\ Prefix(rows, rows')
        /\ rows'[Len(rows) + 1] = Sealed(c, Key(c))
        /\ Len(rows) + 1 \in DOMAIN rows'
    BY <1>4, <2>4, PrefixAppend DEF Commit, TypeOK
  <2>7. lock' = "free"
    BY <1>4, <2>2 DEF Commit, Release
  <2>8. Sealed(c, Key(c)).hash = sealed + 1
        /\ (call[c].kind = "startup" => Sealed(c, Key(c)).kind = "rotation")
    BY DEF Sealed
  <2>9. call[c].count = Len(rows)
    BY <2>1 DEF CallOK
  <2>10. CallOK(c)'
    BY <1>4, <2>1, <2>5, <2>6, <2>7, <2>8, <2>9, LedgerAssumption
    DEF CallOK, Commit, TypeOK, Call
  <2> QED BY <1>4, <2>1, <2>2, <2>3, <2>5, <2>6, <2>10, QuietStep DEF Commit, Call
<1>5. ASSUME NEW c \in Calls, Abort(c) PROVE CallsOK'
  BY <1>5, RaiseCalls DEF Abort
<1>6. ASSUME NEW c \in Calls, WriteAnchor(c) PROVE CallsOK'
  <2>1. CallOK(c) /\ call[c] \in Call
    BY DEF CallsOK, TypeOK
  <2>2. CASE End(c)
    <3>1. call' = [call EXCEPT ![c] = Idle] /\ Idle.kind # "startup"
      BY <2>2 DEF End, Idle
    <3>2. CallOK(c)'
      BY <1>6, <2>1, <3>1, LedgerAssumption DEF CallOK, WriteAnchor, At, TypeOK, Idle
    <3> QED BY <1>6, <3>1, <3>2, RowsStay, QuietStep DEF WriteAnchor
  <2>3. CASE Goto(c, "list") /\ call[c].kind = "startup"
    <3>1. call' = [call EXCEPT ![c] = [call[c] EXCEPT !.at = "list"]]
      BY <2>3 DEF Goto
    <3>2. CallOK(c)'
      BY <1>6, <2>1, <2>3, <3>1, LedgerAssumption DEF CallOK, WriteAnchor, At, TypeOK, Call
    <3> QED BY <1>6, <2>1, <3>1, <3>2, RowsStay, QuietStep DEF WriteAnchor, Call
  <2> QED BY <1>6, <2>2, <2>3 DEF WriteAnchor
<1>7. ASSUME NEW c \in Calls, SinkFails(c) PROVE CallsOK'
  BY <1>7, RaiseCalls DEF SinkFails, At
<1>8. ASSUME NEW c \in Calls, List(c) PROVE CallsOK'
  <2>1. CallOK(c) /\ call[c] \in Call
    BY DEF CallsOK, TypeOK
  <2>2. call' = [call EXCEPT ![c] = [call[c] EXCEPT !.at = "compare", !.seen = rows]]
    BY <1>8 DEF List
  <2>3. Prefix(rows, rows')
    BY <1>8, RowsStay DEF List
  <2>4. CallOK(c)'
    BY <1>8, <2>1, <2>2, <2>3 DEF CallOK, List, At, TypeOK, Call, Prefix
  <2> QED BY <1>8, <2>1, <2>2, <2>3, <2>4, QuietStep DEF List, Call
<1>9. ASSUME NEW c \in Calls, Compare(c) PROVE CallsOK'
  <2>1. CallOK(c) /\ call[c] \in Call /\ call[c].at = "compare" /\ OneCallPerStart
    BY <1>9 DEF CallsOK, TypeOK, Compare, At
  <2>2. call' = [call EXCEPT ![c] = Idle] /\ Idle.kind # "startup"
    BY <1>9 DEF Compare, End, Idle
  <2>3. CallOK(c)'
    BY <1>9, <2>1, <2>2 DEF CallOK, Compare, TypeOK, Idle
  <2>4. ASSUME NEW d \in Calls, d # c, call[d].at # "idle"
        PROVE  process'[call[d].by].at = process[call[d].by].at
    <3>0. CallOK(d) /\ call[d] \in Call
      BY DEF CallsOK, TypeOK
    <3>1. CASE call[c].kind = "startup"
      <4>1. process[call[c].by].at = "starting"
        BY <2>1, <3>1 DEF CallOK
      <4>2. call[d].by # call[c].by
        BY <2>1, <2>4, <3>0, <3>1, <4>1 DEF CallOK, OneCallPerStart, Call
      <4> QED BY <1>9, <3>1, <4>2 DEF Compare, TypeOK
    <3>2. CASE call[c].kind # "startup"
      BY <1>9, <3>2 DEF Compare
    <3> QED BY <3>1, <3>2
  <2> QED BY <1>9, <2>2, <2>3, <2>4, RowsStay, QuietStep DEF Compare
<1>10. ASSUME NEW p \in Processes, Crash(p) PROVE CallsOK'
  <2>1. ASSUME NEW d \in Calls PROVE CallOK(d)'
    <3>0. CallOK(d) /\ call[d] \in Call
      BY DEF CallsOK, TypeOK
    <3>1. CASE call[d].by = p
      <4>1. call'[d] = Idle
        BY <1>10, <3>1 DEF Crash
      <4>2. lock' # d
        BY <1>10, <3>1, LedgerAssumption DEF Crash
      <4> QED BY <4>1, <4>2 DEF CallOK, Idle
    <3>2. CASE call[d].by # p
      <4>1. call'[d] = call[d]
        BY <1>10, <3>2 DEF Crash
      <4>2. lock' = d <=> lock = d
        BY <1>10, <3>2, LedgerAssumption DEF Crash
      <4>3. call[d].at # "idle" => process'[call[d].by].at = process[call[d].by].at
        BY <1>10, <3>0, <3>2 DEF Crash, CallOK, TypeOK
      <4>4. rows' = rows
        BY <1>10 DEF Crash
      <4> QED BY <3>0, <4>1, <4>2, <4>3, <4>4, RowsStay, OtherCall
    <3> QED BY <3>1, <3>2
  <2>2. OneCallPerStart'
    <3>1. Idle.kind # "startup"
      BY DEF Idle
    <3> QED BY <1>10, <3>1 DEF Crash, CallsOK, OneCallPerStart
  <2> QED BY <2>1, <2>2 DEF CallsOK
<1>11. ASSUME NEW p \in Processes, NEW c \in Calls, Start(p, c) PROVE CallsOK'
  <2>1. CallOK(c) /\ call[c].at = "idle"
    BY <1>11 DEF CallsOK, Start, At
  <2>2. /\ call' = [call EXCEPT ![c] = Opened("startup", p, "lock")]
        /\ Opened("startup", p, "lock").by = p
    BY <1>11 DEF Start, Opened, Idle
  <2>3. ASSUME NEW d \in Calls, call[d].at # "idle"
        PROVE  call[d].by \in Processes /\ call[d].by # p
    BY <1>11, <2>3, NoCallsOfDown DEF Start
  <2>4. CallOK(c)'
    BY <1>11, <2>1, <2>2 DEF CallOK, Start, TypeOK, Opened, Idle
  <2>5. \A d \in Calls : call[d].at # "idle" =>
            process'[call[d].by].at = process[call[d].by].at
    BY <1>11, <2>3 DEF Start, TypeOK
  <2>6. \A d \in Calls : ~(call[d].kind = "startup" /\ call[d].by = p)
    BY <2>3 DEF CallsOK, CallOK
  <2> QED BY <1>11, <2>2, <2>4, <2>5, <2>6, RowsStay, QuietStep DEF Start
<1>12. ASSUME NEW p \in Processes, NEW c \in Calls, AppendApproval(p, c) PROVE CallsOK'
  <2>1. CallOK(c) /\ call[c].at = "idle"
    BY <1>12 DEF CallsOK, AppendApproval, At
  <2>2. /\ call' = [call EXCEPT ![c] = Opened("decision", p, "lock")]
        /\ Opened("decision", p, "lock").kind # "startup"
    BY <1>12 DEF AppendApproval, Opened, Idle
  <2>3. CallOK(c)'
    BY <1>12, <2>1, <2>2 DEF CallOK, AppendApproval, TypeOK, Opened, Idle
  <2> QED BY <1>12, <2>2, <2>3, RowsStay, QuietStep DEF AppendApproval
<1>13. ASSUME NEW p \in Processes, NEW c \in Calls, Verify(p, c) PROVE CallsOK'
  <2>1. CallOK(c) /\ call[c].at = "idle"
    BY <1>13 DEF CallsOK, Verify, At
  <2>2. /\ call' = [call EXCEPT ![c] = Opened("verify", p, "list")]
        /\ Opened("verify", p, "list").kind # "startup"
    BY <1>13 DEF Verify, Opened, Idle
  <2>3. CallOK(c)'
    BY <1>13, <2>1, <2>2 DEF CallOK, Verify, TypeOK, Opened, Idle
  <2> QED BY <1>13, <2>2, <2>3, RowsStay, QuietStep DEF Verify
<1>14. CASE RotateKey
  BY <1>14 DEF RotateKey, CallsOK, CallOK, OneCallPerStart, HeadHash, Prefix
<1>15. CASE Backup
  BY <1>15 DEF Backup, CallsOK, CallOK, OneCallPerStart, HeadHash, Prefix
<1>16. CASE Restore
  <2>1. \A c \in Calls : call[c].at = "idle"
    BY <1>16, NoCallsOfDown DEF Restore, AllDown
  <2> QED BY <1>16, <2>1 DEF Restore, CallsOK, CallOK, OneCallPerStart
<1> QED
  BY <1>1, <1>2, <1>3, <1>4, <1>5, <1>6, <1>7, <1>8, <1>9, <1>10, <1>11, <1>12,
     <1>13, <1>14, <1>15, <1>16 DEF Next, CallStep, ProcessStep, OperatorStep

-----------------------------------------------------------------------------
(* The ledger                                                              *)

durable == <<rows, anchors, sealed, config, backup, restores, production>>

\* The steps that change what outlives a process; production never changes.
LEMMA DurableSteps ==
    ASSUME [Next]_vars
    PROVE  /\ \/ \E c \in Calls : Commit(c) \/ WriteAnchor(c)
              \/ RotateKey \/ Backup \/ Restore
              \/ UNCHANGED durable
           /\ production' = production
BY DEF Next, vars, durable, CallStep, ProcessStep, OperatorStep, Lock, ReadHead, Commit,
       Abort, WriteAnchor, SinkFails, List, Compare, Crash, Start, AppendApproval, Verify,
       RotateKey, Backup, Restore

\* A process keeps its key, or starts with the one in .env.
LEMMA ProcessKeys ==
    ASSUME TypeOK, CallsOK, [Next]_vars, NEW p \in Processes
    PROVE  \/ /\ process'[p].key = process[p].key
              /\ process[p].at = "down" => process'[p].at = "down"
           \/ process'[p].key = config /\ process'[p].at = "starting"
<1> DEFINE Kept == /\ process'[p].key = process[p].key
                   /\ process[p].at = "down" => process'[p].at = "down"
<1>1. ASSUME process' = process PROVE Kept
  BY <1>1
<1>2. ASSUME NEW c \in Calls, Raise(c) PROVE Kept
  BY <1>2 DEF Raise, TypeOK
<1>3. ASSUME NEW c \in Calls, Compare(c) PROVE Kept
  <2>1. call[c].at = "compare"
    BY <1>3 DEF Compare, At
  <2>2. call[c].by \in Processes /\ process[call[c].by].at # "down"
    BY <2>1, NoCallsOfDown
  <2>3. CASE call[c].kind = "startup"
    <3>1. \E x \in {"down", "up"} : process' = [process EXCEPT ![call[c].by].at = x]
      BY <1>3, <2>3 DEF Compare
    <3> QED BY <2>2, <3>1 DEF TypeOK
  <2>4. CASE call[c].kind # "startup"
    BY <1>1, <1>3, <2>4 DEF Compare
  <2> QED BY <2>3, <2>4
<1>4. ASSUME NEW q \in Processes, Crash(q) PROVE Kept
  BY <1>4 DEF Crash, TypeOK
<1>5. ASSUME NEW q \in Processes, NEW c \in Calls, Start(q, c)
      PROVE  Kept \/ (process'[p].key = config /\ process'[p].at = "starting")
  BY <1>5 DEF Start, TypeOK
<1> QED
  BY <1>1, <1>2, <1>3, <1>4, <1>5
  DEF Next, vars, CallStep, ProcessStep, OperatorStep, Lock, ReadHead, Commit,
      Abort, WriteAnchor, SinkFails, List, AppendApproval, Verify, RotateKey, Backup, Restore

\* An append under the lock extends the chain.
LEMMA LinkedAppend ==
    ASSUME NEW s \in Seq(Record), NEW r \in Record, Linked(s), r.prev = HeadHash(s)
    PROVE  Linked(Append(s, r))
<1>1. SUFFICES ASSUME NEW i \in DOMAIN Append(s, r)
               PROVE  Append(s, r)[i].prev =
                        (IF i = 1 THEN Genesis ELSE Append(s, r)[i - 1].hash)
  BY DEF Linked
<1>2. i \in 1..(Len(s) + 1) /\ Len(s) \in Nat
  BY <1>1
<1>3. CASE i \in 1..Len(s)
  <2>1. Append(s, r)[i] = s[i] /\ (i # 1 => Append(s, r)[i - 1] = s[i - 1])
    BY <1>2, <1>3
  <2> QED BY <1>3, <2>1 DEF Linked
<1>4. CASE i = Len(s) + 1
  <2>1. Append(s, r)[i] = r /\ (i # 1 => Append(s, r)[i - 1] = s[i - 1])
    BY <1>2, <1>4
  <2>2. i = 1 <=> s = <<>>
    BY <1>2, <1>4
  <2> QED BY <1>2, <1>4, <2>1, <2>2 DEF HeadHash
<1> QED BY <1>2, <1>3, <1>4

LEMMA LinkedPrefix ==
    ASSUME NEW s \in Seq(Record), NEW t \in Seq(Record), Linked(t), Prefix(s, t)
    PROVE  Linked(s)
<1>1. SUFFICES ASSUME NEW i \in DOMAIN s
               PROVE  s[i].prev = (IF i = 1 THEN Genesis ELSE s[i - 1].hash)
  BY DEF Linked
<1>2. i \in DOMAIN t /\ t[i] = s[i]
  BY PrefixAt
<1>3. i # 1 => i - 1 \in DOMAIN s
  BY <1>1
<1>4. i # 1 => t[i - 1] = s[i - 1]
  BY <1>3, PrefixAt
<1> QED BY <1>2, <1>4 DEF Linked

LEMMA LedgerStep ==
    TypeOK /\ TypeOK' /\ CallsOK /\ LedgerOK /\ [Next]_vars => LedgerOK'
<1> SUFFICES ASSUME TypeOK, TypeOK', CallsOK, LedgerOK, [Next]_vars PROVE LedgerOK'
  OBVIOUS
<1>1. config' \in Nat /\ config \in Nat /\ config <= config'
  <2>1. config' \in Nat /\ config \in Nat
    BY LedgerAssumption DEF TypeOK, Keys
  <2>2. config' = config \/ config' = config + 1
    BY DurableSteps DEF Commit, WriteAnchor, RotateKey, Backup, Restore, durable
  <2> QED BY <2>1, <2>2
<1>2. sealed' \in Nat /\ sealed \in Nat /\ sealed <= sealed'
  <2>1. sealed' \in Nat /\ sealed \in Nat
    BY LedgerAssumption DEF TypeOK
  <2>2. sealed' = sealed \/ sealed' = sealed + 1
    BY DurableSteps DEF Commit, WriteAnchor, RotateKey, Backup, Restore, durable
  <2> QED BY <2>1, <2>2
<1>3. \A p \in Processes : process'[p].key <= config'
  <2> TAKE p \in Processes
  <2>1. process'[p].key \in Nat /\ process[p].key \in Nat /\ process[p].key <= config
    BY DEF TypeOK, Process, Keys, LedgerOK
  <2> QED BY <1>1, <2>1, ProcessKeys
<1>4. rows' = rows \/ (\E c \in Calls : Commit(c)) \/ Restore
  BY DurableSteps DEF durable, WriteAnchor, RotateKey, Backup
<1>5. anchors' = anchors \/ \E c \in Calls : WriteAnchor(c)
  BY DurableSteps DEF durable, Commit, RotateKey, Backup, Restore
<1>6. \A i \in DOMAIN anchors' : anchors'[i].key <= config' /\ anchors'[i].head <= sealed'
  <2>1. ASSUME NEW a \in Anchor, a.key <= config, a.head <= sealed
        PROVE  a.key <= config' /\ a.head <= sealed'
    BY <1>1, <1>2, <2>1, LedgerAssumption DEF Anchor, Keys, Hashes
  <2>2. CASE anchors' = anchors
    BY <2>1, <2>2 DEF LedgerOK, TypeOK
  <2>3. ASSUME NEW c \in Calls, WriteAnchor(c)
        PROVE  \A i \in DOMAIN anchors' : anchors'[i].key <= config' /\ anchors'[i].head <= sealed'
    <3>1. CallOK(c) /\ call[c].at = "anchor" /\ call[c].by \in Processes /\ call[c].hash \in Hashes
      BY <2>3, CallFacts DEF WriteAnchor, At, CallsOK
    <3>2. SealAnchor(c) \in Anchor
      BY <3>1, AnchorType
    <3>3. SealAnchor(c).key <= config /\ SealAnchor(c).head <= sealed
      BY <3>1 DEF SealAnchor, Key, LedgerOK, CallOK
    <3>4. SealAnchor(c).key <= config' /\ SealAnchor(c).head <= sealed'
      BY <2>1, <3>2, <3>3
    <3>5. anchors' = Append(anchors, SealAnchor(c)) /\ anchors \in Seq(Anchor)
      BY <2>3 DEF WriteAnchor, TypeOK
    <3>6. ASSUME NEW i \in DOMAIN anchors'
          PROVE  anchors'[i] = SealAnchor(c) \/ (i \in DOMAIN anchors /\ anchors'[i] = anchors[i])
      BY <3>2, <3>5, <3>6
    <3>7. \A i \in DOMAIN anchors : anchors[i].key <= config' /\ anchors[i].head <= sealed'
      BY <2>1 DEF LedgerOK, TypeOK
    <3> QED BY <3>4, <3>6, <3>7
  <2> QED BY <1>5, <2>2, <2>3
<1>7. /\ Linked(rows') /\ Prefix(backup', rows')
      /\ \A i \in DOMAIN rows' : rows'[i].key <= config' /\ rows'[i].hash <= sealed'
  <2>1. ASSUME NEW r \in Record, r.key <= config, r.hash <= sealed
        PROVE  r.key <= config' /\ r.hash <= sealed'
    BY <1>1, <1>2, <2>1, LedgerAssumption DEF Record, Keys, Hashes
  <2>2. \A i \in DOMAIN rows : rows[i].key <= config' /\ rows[i].hash <= sealed'
    BY <2>1 DEF LedgerOK, TypeOK
  <2>3. CASE rows' = rows
    <3>1. Linked(rows')
      BY <2>3 DEF LedgerOK
    <3>2. backup' = backup \/ backup' = rows \/ Restore
      BY DurableSteps DEF durable, Commit, WriteAnchor, RotateKey, Backup
    <3>3. Prefix(backup', rows')
      BY <2>3, <3>2, PrefixRefl DEF LedgerOK, TypeOK, Restore
    <3> QED BY <2>2, <2>3, <3>1, <3>3
  <2>4. ASSUME NEW c \in Calls, Commit(c)
        PROVE  /\ Linked(rows') /\ Prefix(backup', rows')
               /\ \A i \in DOMAIN rows' : rows'[i].key <= config' /\ rows'[i].hash <= sealed'
    <3>1. CallOK(c) /\ call[c].at = "insert" /\ call[c].by \in Processes
      BY <2>4, CallFacts DEF Commit, At, CallsOK
    <3>2. DEFINE r == Sealed(c, Key(c))
    <3>3. r \in Record
      BY <2>4, <3>1, SealedType DEF Commit
    <3>4. r.prev = HeadHash(rows) /\ r.hash = sealed + 1 /\ r.key = Key(c)
      BY <3>1 DEF Sealed, CallOK
    <3>5. rows' = Append(rows, r) /\ rows \in Seq(Record) /\ backup \in Seq(Record)
          /\ sealed' = sealed + 1 /\ backup' = backup /\ config' = config
      BY <2>4 DEF Commit, TypeOK
    <3>6. Linked(rows')
      BY <3>3, <3>4, <3>5, LinkedAppend DEF LedgerOK
    <3>7. Prefix(backup', rows')
      <4>1. Prefix(rows, rows') /\ rows' \in Seq(Record)
        BY <3>3, <3>5, PrefixAppend
      <4> QED BY <3>5, <4>1, PrefixTrans DEF LedgerOK
    <3>8. Key(c) <= config
      BY <3>1 DEF LedgerOK, Key
    <3>9. ASSUME NEW i \in DOMAIN rows'
          PROVE  rows'[i] = r \/ (i \in DOMAIN rows /\ rows'[i] = rows[i])
      BY <3>3, <3>5, <3>9
    <3> QED BY <1>2, <2>2, <3>4, <3>5, <3>6, <3>7, <3>8, <3>9
  <2>5. CASE Restore
    <3>1. rows' = backup /\ backup' = backup /\ rows \in Seq(Record) /\ backup \in Seq(Record)
      BY <2>5 DEF Restore, TypeOK
    <3>2. Linked(rows')
      BY <3>1, LinkedPrefix DEF LedgerOK
    <3>3. Prefix(backup', rows')
      BY <3>1, PrefixRefl
    <3>4. \A i \in DOMAIN backup : i \in DOMAIN rows /\ rows[i] = backup[i]
      BY <3>1, PrefixAt DEF LedgerOK
    <3> QED BY <2>2, <3>1, <3>2, <3>3, <3>4
  <2> QED BY <1>4, <2>3, <2>4, <2>5
<1> QED BY <1>3, <1>6, <1>7 DEF LedgerOK

-----------------------------------------------------------------------------
(* Keys and rotation records                                               *)

\* A process comes up at the end of its start's verification.
LEMMA ComesUp ==
    ASSUME TypeOK, CallsOK, [Next]_vars, NEW p \in Processes,
           process'[p].at = "up", process[p].at # "up"
    PROVE  \E c \in Calls : /\ Compare(c) /\ call[c].kind = "startup"
                           /\ call[c].at = "compare" /\ call[c].by = p
<1> DEFINE Up == process'[p].at = "up" /\ process[p].at # "up"
<1>1. ASSUME NEW c \in Calls, Raise(c) PROVE ~Up
  BY <1>1 DEF Raise, TypeOK
<1>2. ASSUME NEW q \in Processes, Crash(q) PROVE ~Up
  BY <1>2 DEF Crash, TypeOK
<1>3. ASSUME NEW q \in Processes, NEW c \in Calls, Start(q, c) PROVE ~Up
  BY <1>3 DEF Start, TypeOK
<1>4. process' # process
  OBVIOUS
<1>5. \E c \in Calls : Compare(c)
  BY <1>1, <1>2, <1>3, <1>4
  DEF Next, vars, CallStep, ProcessStep, OperatorStep, Lock, ReadHead, Commit,
      Abort, WriteAnchor, SinkFails, List, AppendApproval, Verify, RotateKey, Backup, Restore
<1>6. PICK c \in Calls : Compare(c)
  BY <1>5
<1>7. call[c].kind = "startup"
  BY <1>4, <1>6 DEF Compare
<1>8. call[c].by = p
  <2>1. \E x \in {"down", "up"} : process' = [process EXCEPT ![call[c].by].at = x]
    BY <1>6, <1>7 DEF Compare
  <2> QED BY <2>1 DEF TypeOK
<1> QED BY <1>6, <1>7, <1>8 DEF Compare, At

\* How a start's call gets past the rotation record.
LEMMA PastTheHead ==
    ASSUME TypeOK, CallsOK, [Next]_vars, NEW c \in Calls,
           call'[c].kind = "startup", call'[c].at \in {"anchor", "list", "compare"}
    PROVE  \/ call[c].kind = "startup" /\ call[c].at \in {"anchor", "list", "compare"}
           \/ Commit(c)
           \/ ReadHead(c) /\ call[c].at = "head" /\ ~RotationDue(c)
<1> DEFINE Past(k) == k.kind = "startup" /\ k.at \in {"anchor", "list", "compare"}
<1>0. call[c] \in Call /\ ~Past(Idle) /\ Past(call'[c])
  BY DEF TypeOK, Idle
<1>1. CASE call'[c] = call[c]
  BY <1>0, <1>1
<1>2. ASSUME NEW d \in Calls, CallStep(d) PROVE call'[c] = call[c] \/ c = d
  BY <1>2 DEF CallStep, Lock, ReadHead, Commit, Abort, WriteAnchor, SinkFails, List, Compare,
              Raise, End, Goto, TypeOK
<1>3. CASE Lock(c)
  <2>1. call'[c].at = "head"
    BY <1>0, <1>3 DEF Lock, Goto, TypeOK, Call
  <2> QED BY <2>1
<1>4. CASE ReadHead(c)
  <2>1. CASE Goto(c, "list") /\ ~RotationDue(c)
    BY <1>4, <2>1 DEF ReadHead, At
  <2>2. CASE call' = [call EXCEPT ![c] = [@ EXCEPT !.at = "insert", !.prev = HeadHash(rows),
                                                   !.count = Len(rows)]]
    <3>1. call'[c].at = "insert"
      BY <1>0, <2>2 DEF TypeOK, Call
    <3> QED BY <3>1
  <2> QED BY <1>4, <2>1, <2>2 DEF ReadHead
<1>5. CASE Abort(c) \/ SinkFails(c) \/ Compare(c)
  BY <1>0, <1>5 DEF Abort, SinkFails, Compare, Raise, End, TypeOK
<1>6. CASE WriteAnchor(c)
  <2>1. call[c].at = "anchor"
    BY <1>6 DEF WriteAnchor, At
  <2>2. CASE End(c)
    BY <1>0, <2>2 DEF End, TypeOK
  <2>3. CASE call[c].kind = "startup"
    BY <2>1, <2>3
  <2> QED BY <1>6, <2>2, <2>3 DEF WriteAnchor
<1>7. CASE List(c)
  <2>1. call[c].at = "list" /\ call'[c].kind = call[c].kind
    BY <1>0, <1>7 DEF List, At, TypeOK, Call
  <2> QED BY <1>0, <2>1
<1>8. ASSUME NEW p \in Processes, Crash(p) PROVE call'[c] = call[c]
  BY <1>0, <1>8 DEF Crash
<1>9. ASSUME NEW p \in Processes, NEW d \in Calls, Start(p, d) PROVE call'[c] = call[c]
  <2>1. Opened("startup", p, "lock").at = "lock"
    BY DEF Opened, Idle
  <2> QED BY <1>0, <1>9, <2>1 DEF Start, TypeOK
<1>10. ASSUME NEW p \in Processes, NEW d \in Calls, AppendApproval(p, d) PROVE call'[c] = call[c]
  <2>1. Opened("decision", p, "lock").at = "lock"
    BY DEF Opened, Idle
  <2> QED BY <1>0, <1>10, <2>1 DEF AppendApproval, TypeOK
<1>11. ASSUME NEW p \in Processes, NEW d \in Calls, Verify(p, d) PROVE call'[c] = call[c]
  <2>1. Opened("verify", p, "list").kind = "verify"
    BY DEF Opened, Idle
  <2> QED BY <1>0, <1>11, <2>1 DEF Verify, TypeOK
<1>12. ASSUME OperatorStep \/ UNCHANGED vars PROVE call'[c] = call[c]
  BY <1>12 DEF OperatorStep, RotateKey, Backup, Restore, vars
<1>13. ASSUME NEW p \in Processes, ProcessStep(p) PROVE call'[c] = call[c]
  BY <1>8, <1>9, <1>10, <1>11, <1>13 DEF ProcessStep
<1>14. CASE CallStep(c)
  BY <1>3, <1>4, <1>5, <1>6, <1>7, <1>14 DEF CallStep
<1> QED BY <1>1, <1>2, <1>12, <1>13, <1>14 DEF Next

LEMMA KeysStep ==
    TypeOK /\ CallsOK /\ KeysOK /\ [Next]_vars => KeysOK'
<1> SUFFICES ASSUME TypeOK, CallsOK, KeysOK, [Next]_vars, ~Rolling
             PROVE  /\ \A p \in Processes : process'[p].at # "down" => process'[p].key = config'
                    /\ \A p \in Processes : process'[p].at = "up" => LastKeyIsCurrent'
                    /\ \A c \in Calls : (call'[c].kind = "startup" /\
                               call'[c].at \in {"anchor", "list", "compare"}) => LastKeyIsCurrent'
  BY DEF KeysOK
<1>1. CASE RotateKey \/ Restore
  <2>1. AllDown /\ process' = process /\ call' = call
    BY <1>1 DEF RotateKey, Restore
  <2>2. \A c \in Calls : call'[c].at = "idle"
    BY <2>1, NoCallsOfDown DEF AllDown
  <2> QED BY <2>1, <2>2 DEF AllDown
<1>2. CASE ~RotateKey /\ ~Restore
  <2>1. config' = config
    BY <1>2, DurableSteps DEF durable, Commit, WriteAnchor, Backup
  <2>2. \A p \in Processes : process'[p].at # "down" => process'[p].key = config'
    BY <2>1, ProcessKeys DEF KeysOK
  <2>3. ASSUME NEW c \in Calls, Commit(c) PROVE LastKeyIsCurrent'
    <3>1. call[c].by \in Processes /\ process[call[c].by].at # "down"
      BY <2>3, NoCallsOfDown DEF Commit, At
    <3>2. Key(c) = config
      BY <3>1 DEF KeysOK, Key
    <3>3. Sealed(c, Key(c)) \in Record /\ Sealed(c, Key(c)).key = config
      BY <2>3, <3>1, <3>2, SealedType DEF Commit, Sealed
    <3>4. rows'[Len(rows')].key = config
      BY <2>3, <3>3, PrefixAppend DEF Commit, TypeOK
    <3> QED BY <2>1, <3>4 DEF LastKeyIsCurrent
  <2>4. CASE \A c \in Calls : ~Commit(c)
    <3>1. rows' = rows
      BY <1>2, <2>4, DurableSteps DEF durable, WriteAnchor, Backup
    <3>2. LastKeyIsCurrent => LastKeyIsCurrent'
      BY <2>1, <3>1 DEF LastKeyIsCurrent
    <3>3. ASSUME NEW p \in Processes, process'[p].at = "up" PROVE LastKeyIsCurrent
      BY <3>3, ComesUp DEF KeysOK
    <3>4. ASSUME NEW c \in Calls, call'[c].kind = "startup",
                 call'[c].at \in {"anchor", "list", "compare"}
          PROVE  LastKeyIsCurrent
      <4>1. CASE call[c].kind = "startup" /\ call[c].at \in {"anchor", "list", "compare"}
        BY <4>1 DEF KeysOK
      <4>2. CASE call[c].at = "head" /\ ~RotationDue(c)
        <5>1. Key(c) = config
          BY <4>2, NoCallsOfDown DEF KeysOK, Key
        <5> QED BY <4>2, <5>1 DEF RotationDue, LastKeyIsCurrent
      <4> QED BY <2>4, <3>4, <4>1, <4>2, PastTheHead
    <3> QED BY <2>2, <3>2, <3>3, <3>4
  <2> QED BY <2>2, <2>3, <2>4
<1> QED BY <1>1, <1>2

LEMMA MarkedStep ==
    TypeOK /\ CallsOK /\ LedgerOK /\ KeysOK /\ KeyChangesMarked /\ [Next]_vars
        => KeyChangesMarked'
<1> SUFFICES ASSUME TypeOK, CallsOK, LedgerOK, KeysOK, KeyChangesMarked, [Next]_vars, ~Rolling,
                    NEW i \in DOMAIN rows', i > 1, rows'[i].key # rows'[i - 1].key
             PROVE  rows'[i].kind = "rotation"
  BY DEF KeyChangesMarked
<1>1. CASE rows' = rows
  BY <1>1 DEF KeyChangesMarked
<1>2. CASE Restore
  <2>1. rows' = backup /\ backup \in Seq(Record) /\ rows \in Seq(Record) /\ Prefix(backup, rows)
    BY <1>2 DEF Restore, TypeOK, LedgerOK
  <2>2. i - 1 \in DOMAIN backup
    BY <2>1
  <2>3. /\ i \in DOMAIN rows /\ rows[i] = rows'[i]
        /\ rows[i - 1] = rows'[i - 1]
    BY <2>1, <2>2, PrefixAt
  <2> QED BY <2>3 DEF KeyChangesMarked
<1>3. ASSUME NEW c \in Calls, Commit(c) PROVE rows'[i].kind = "rotation"
  <2>1. call[c].by \in Processes /\ process[call[c].by].at # "down" /\ CallOK(c)
        /\ call[c].at = "insert" /\ call[c] \in Call
    BY <1>3, NoCallsOfDown DEF Commit, At, CallsOK, TypeOK
  <2>2. Sealed(c, Key(c)) \in Record /\ rows \in Seq(Record)
        /\ rows' = Append(rows, Sealed(c, Key(c)))
    BY <1>3, <2>1, SealedType DEF Commit, TypeOK
  <2>3. CASE i \in 1..Len(rows)
    <3>1. rows'[i] = rows[i] /\ rows'[i - 1] = rows[i - 1] /\ i \in DOMAIN rows
      BY <2>2, <2>3
    <3> QED BY <3>1 DEF KeyChangesMarked
  <2>4. CASE i = Len(rows) + 1
    <3>1. rows'[i] = Sealed(c, Key(c)) /\ rows'[i - 1] = rows[Len(rows)] /\ rows # <<>>
      BY <2>2, <2>4
    <3>2. Key(c) = config
      BY <2>1 DEF KeysOK, Key
    <3>3. CASE call[c].kind = "startup"
      BY <3>1, <3>3 DEF Sealed
    <3>4. CASE call[c].kind = "decision"
      <4>1. LastKeyIsCurrent
        BY <2>1, <3>4 DEF CallOK, KeysOK
      <4>2. rows[Len(rows)].key = config
        BY <3>1, <4>1 DEF LastKeyIsCurrent
      <4> QED BY <3>1, <3>2, <4>2 DEF Sealed
    <3>5. call[c].kind \in {"startup", "decision"}
      BY <2>1 DEF CallOK, Call
    <3> QED BY <3>3, <3>4, <3>5
  <2>5. i \in 1..(Len(rows) + 1) /\ Len(rows) \in Nat
    BY <2>2
  <2> QED BY <2>3, <2>4, <2>5
<1>4. rows' = rows \/ (\E c \in Calls : Commit(c)) \/ Restore
  BY DurableSteps DEF durable, WriteAnchor, RotateKey, Backup
<1> QED BY <1>1, <1>2, <1>3, <1>4

-----------------------------------------------------------------------------
(* Anchors                                                                 *)

LEMMA AnchorStays ==
    ASSUME NEW s \in Seq(Record), NEW t \in Seq(Record), Prefix(s, t), NEW a, AnchorAt(s, a)
    PROVE  AnchorAt(t, a)
BY PrefixAt DEF AnchorAt

\* The anchor a call is about to write fits.
LEMMA PendingFits ==
    ASSUME TypeOK, CallsOK, NEW c \in Calls, WriteAnchor(c)
    PROVE  /\ SealAnchor(c) \in Anchor /\ AnchorAt(rows, SealAnchor(c))
           /\ anchors' = Append(anchors, SealAnchor(c)) /\ anchors \in Seq(Anchor)
           /\ rows' = rows /\ restores' = restores /\ process' = process
<1>1. CallOK(c) /\ call[c].at = "anchor"
  BY DEF CallsOK, WriteAnchor, At
<1>2. SealAnchor(c) \in Anchor
  BY <1>1, CallFacts, AnchorType
<1>3. AnchorAt(rows, SealAnchor(c))
  BY <1>1 DEF CallOK, AnchorAt, SealAnchor
<1> QED BY <1>2, <1>3 DEF WriteAnchor, TypeOK

\* Only a restore shortens the ledger.
LEMMA RowsGrow ==
    ASSUME TypeOK, CallsOK, [Next]_vars, ~Restore
    PROVE  Prefix(rows, rows') /\ restores' = restores
<1>1. CASE rows' = rows
  BY <1>1, RowsStay, DurableSteps DEF durable, Commit, WriteAnchor, RotateKey, Backup
<1>2. ASSUME NEW c \in Calls, Commit(c) PROVE Prefix(rows, rows') /\ restores' = restores
  <2>1. call[c].by \in Processes
    BY <1>2, NoCallsOfDown DEF Commit, At
  <2> QED BY <1>2, <2>1, SealedType, PrefixAppend DEF Commit, TypeOK
<1> QED BY <1>1, <1>2, DurableSteps DEF durable, WriteAnchor, RotateKey, Backup

LEMMA AnchorsStep ==
    TypeOK /\ TypeOK' /\ CallsOK /\ AnchorsFit /\ AcknowledgedIsAnchored /\ [Next]_vars
        => AnchorsFit' /\ AcknowledgedIsAnchored'
<1> SUFFICES ASSUME TypeOK, TypeOK', CallsOK, AnchorsFit, AcknowledgedIsAnchored, [Next]_vars
             PROVE  AnchorsFit' /\ AcknowledgedIsAnchored'
  OBVIOUS
<1>1. CASE Restore
  <2>1. restores' # 0 /\ anchors' = anchors /\ acknowledged' = acknowledged
    BY <1>1 DEF Restore, TypeOK
  <2> QED BY <2>1 DEF AnchorsFit, AcknowledgedIsAnchored
<1>2. CASE ~Restore
  <2>1. Prefix(rows, rows') /\ restores' = restores /\ rows \in Seq(Record) /\ rows' \in Seq(Record)
    BY <1>2, RowsGrow DEF TypeOK
  <2>2. ASSUME restores = 0, NEW a, AnchorAt(rows, a) PROVE AnchorAt(rows', a)
    BY <2>1, <2>2, AnchorStays
  <2>3. \A h : (\E i \in DOMAIN rows : rows[i].hash = h) => \E i \in DOMAIN rows' : rows'[i].hash = h
    BY <2>1, PrefixAt
  <2>4. CASE anchors' = anchors /\ acknowledged' = acknowledged
    BY <2>1, <2>2, <2>3, <2>4 DEF AnchorsFit, AnchoredRecordsPresent, AcknowledgedIsAnchored
  <2>5. ASSUME NEW c \in Calls, WriteAnchor(c) PROVE AnchorsFit' /\ AcknowledgedIsAnchored'
    <3>1. /\ SealAnchor(c) \in Anchor /\ AnchorAt(rows, SealAnchor(c))
          /\ anchors' = Append(anchors, SealAnchor(c)) /\ anchors \in Seq(Anchor)
          /\ rows' = rows /\ restores' = restores
      BY <2>5, PendingFits
    <3>2. ASSUME NEW i \in DOMAIN anchors'
          PROVE  anchors'[i] = SealAnchor(c) \/ (i \in DOMAIN anchors /\ anchors'[i] = anchors[i])
      BY <3>1, <3>2
    <3>3. AnchorsFit'
      BY <3>1, <3>2 DEF AnchorsFit, AnchoredRecordsPresent
    <3>4. /\ Len(anchors) + 1 \in DOMAIN anchors'
          /\ anchors'[Len(anchors) + 1] = SealAnchor(c)
          /\ \A i \in DOMAIN anchors : i \in DOMAIN anchors' /\ anchors'[i] = anchors[i]
      BY <3>1
    <3>5. SealAnchor(c).head = call[c].hash
      BY DEF SealAnchor
    <3>6. \A h \in acknowledged' : h \in acknowledged \/ h = call[c].hash
      BY <2>5 DEF WriteAnchor
    <3>7. \E i \in DOMAIN rows : rows[i].hash = call[c].hash
      BY <3>1, <3>5 DEF AnchorAt
    <3>8. AcknowledgedIsAnchored'
      BY <3>1, <3>4, <3>5, <3>6, <3>7 DEF AcknowledgedIsAnchored
    <3> QED BY <3>3, <3>8
  <2>6. (anchors' = anchors /\ acknowledged' = acknowledged) \/ \E c \in Calls : WriteAnchor(c)
    BY <1>2 DEF Next, vars, CallStep, ProcessStep, OperatorStep, Lock, ReadHead, Commit,
       Abort, SinkFails, List, Compare, Crash, Start, AppendApproval, Verify, RotateKey, Backup
  <2> QED BY <2>4, <2>5, <2>6
<1> QED BY <1>1, <1>2

\* What a verification can say of a ledger nobody restored.
LEMMA AlarmsStep ==
    (/\ TypeOK /\ TypeOK' /\ CallsOK /\ LedgerOK /\ KeysOK
     /\ AnchorsFit /\ AlarmsOnlyShort /\ [Next]_vars) => AlarmsOnlyShort'
<1> SUFFICES ASSUME TypeOK, TypeOK', CallsOK, LedgerOK, KeysOK, AnchorsFit, AlarmsOnlyShort,
                    [Next]_vars, restores' = 0, ~Rolling
             PROVE  verdicts' \subseteq {"ok", "unanchored", "short"}
  BY DEF AlarmsOnlyShort
<1>1. restores = 0
  <2>1. restores \in Nat
    BY LedgerAssumption DEF TypeOK
  <2>2. CASE Restore
    BY <2>1, <2>2 DEF Restore
  <2>3. CASE ~Restore
    BY <2>3, RowsGrow
  <2> QED BY <2>2, <2>3
<1>2. CASE verdicts' = verdicts
  BY <1>1, <1>2 DEF AlarmsOnlyShort
<1>3. ASSUME NEW c \in Calls, Compare(c) PROVE verdicts' \subseteq {"ok", "unanchored", "short"}
  <2> DEFINE s == call[c].seen
             a == anchors[Len(anchors)]
             v == Verdict(s, anchors, Key(c))
  <2>1. /\ call[c] \in Call /\ CallOK(c) /\ call[c].at = "compare"
        /\ call[c].by \in Processes /\ process[call[c].by].at # "down"
    BY <1>3, NoCallsOfDown DEF TypeOK, CallsOK, Compare, At
  <2>2. Key(c) = config /\ s \in Seq(Record) /\ rows \in Seq(Record) /\ Prefix(s, rows)
    BY <2>1 DEF KeysOK, Key, Call, CallOK, TypeOK
  <2>3. VerifyChain(s, Key(c))
    <3>1. Linked(s)
      BY <2>2, LinkedPrefix DEF LedgerOK
    <3>2. \A i \in DOMAIN s : s[i].key <= Key(c)
      BY <2>2, PrefixAt DEF LedgerOK
    <3> QED BY <3>1, <3>2 DEF VerifyChain
  <2>5. CASE anchors # <<>>
    <3>1. Len(anchors) \in DOMAIN anchors /\ a \in Anchor
      BY <2>5 DEF TypeOK
    <3>2. AnchorAt(rows, a) /\ a.key <= config
      BY <1>1, <3>1 DEF AnchorsFit, AnchoredRecordsPresent, LedgerOK
    <3>3. a.key \in Nat /\ config \in Nat /\ a.count \in Nat /\ Len(s) \in Nat
      BY <2>2, <3>1, LedgerAssumption DEF Anchor, Keys, TypeOK
    <3>4. ~(Len(s) < a.count) => s[a.count].hash = a.head
      <4>1. a.count \in 1..Len(rows)
        BY <2>2, <3>2 DEF AnchorAt
      <4>2. ~(Len(s) < a.count) => a.count \in DOMAIN s
        BY <2>2, <3>3, <4>1
      <4> QED BY <2>2, <3>2, <4>2, PrefixAt DEF AnchorAt
    <3>5. v = CheckAgainst(s, a, Key(c))
      BY <2>3, <2>5 DEF Verdict
    <3>6. ~(a.key > Key(c))
      BY <2>2, <3>2, <3>3
    <3>7. v \in {"ok", "short"}
      BY <3>4, <3>5, <3>6 DEF CheckAgainst
    <3> QED BY <1>1, <1>3, <3>7 DEF Compare, AlarmsOnlyShort
  <2>6. v = "unanchored" => verdicts' \subseteq {"ok", "unanchored", "short"}
    BY <1>1, <1>3 DEF Compare, AlarmsOnlyShort
  <2>7. anchors = <<>> => v = "unanchored"
    BY <2>3 DEF Verdict
  <2> QED BY <2>5, <2>6, <2>7
<1>4. verdicts' = verdicts \/ \E c \in Calls : Compare(c)
  BY DEF Next, vars, CallStep, ProcessStep, OperatorStep, Lock, ReadHead, Commit, WriteAnchor,
     Abort, SinkFails, List, Crash, Start, AppendApproval, Verify, RotateKey, Backup, Restore
<1> QED BY <1>2, <1>3, <1>4

-----------------------------------------------------------------------------
(* What the latest anchor tells in production                              *)

LEMMA LatestStep ==
    (/\ TypeOK /\ TypeOK' /\ CallsOK /\ LatestAnchorFits /\ [Next]_vars) => LatestAnchorFits'
<1> SUFFICES ASSUME TypeOK, TypeOK', CallsOK, LatestAnchorFits, [Next]_vars,
                    production', NEW p \in Processes, process'[p].at = "up", anchors' # <<>>
             PROVE  AnchorAt(rows', Latest')
  BY DEF LatestAnchorFits, ProductionUp
<1>1. production
  BY DurableSteps
<1>2. ~Restore
  BY DEF Restore, AllDown
<1>3. Prefix(rows, rows') /\ rows \in Seq(Record) /\ rows' \in Seq(Record)
  BY <1>2, RowsGrow DEF TypeOK
<1>4. ASSUME NEW c \in Calls, WriteAnchor(c) PROVE AnchorAt(rows', Latest')
  <2>1. /\ SealAnchor(c) \in Anchor /\ AnchorAt(rows, SealAnchor(c))
        /\ anchors' = Append(anchors, SealAnchor(c)) /\ anchors \in Seq(Anchor)
        /\ rows' = rows
    BY <1>4, PendingFits
  <2>2. Latest' = SealAnchor(c)
    BY <2>1 DEF Latest
  <2> QED BY <2>1, <2>2
<1>5. CASE anchors' = anchors
  <2>1. Latest' = Latest /\ anchors # <<>>
    BY <1>5 DEF Latest
  <2>2. CASE process[p].at = "up"
    <3>1. AnchorAt(rows, Latest)
      BY <1>1, <2>1, <2>2 DEF LatestAnchorFits, ProductionUp
    <3> QED BY <1>3, <2>1, <3>1, AnchorStays
  <2>3. CASE process[p].at # "up"
    <3>1. PICK c \in Calls : /\ Compare(c) /\ call[c].kind = "startup"
                             /\ call[c].at = "compare" /\ call[c].by = p
      BY <2>3, ComesUp
    <3> DEFINE s == call[c].seen
               v == Verdict(s, anchors, Key(c))
    <3>2. process' = [process EXCEPT ![p].at =
                         IF production /\ ~Accepted(s, v) THEN "down" ELSE "up"]
      BY <3>1 DEF Compare
    <3>3. Accepted(s, v)
      BY <1>1, <3>2 DEF TypeOK
    <3>4. v # "unanchored"
      BY <2>1 DEF Verdict, CheckAgainst
    <3>5. v = "ok"
      BY <3>3, <3>4 DEF Accepted
    <3>6. CheckAgainst(s, anchors[Len(anchors)], Key(c)) = "ok"
      BY <2>1, <3>5 DEF Verdict
    <3>7. ~(Len(s) < Latest.count) /\ s[Latest.count].hash = Latest.head
      BY <3>6 DEF CheckAgainst, Latest
    <3>8. s \in Seq(Record) /\ Prefix(s, rows)
      BY <3>1 DEF TypeOK, Call, CallsOK, CallOK
    <3>9. Latest.count \in Nat \ {0}
      <4>1. anchors \in Seq(Anchor) /\ Len(anchors) \in DOMAIN anchors
        BY <2>1 DEF TypeOK
      <4>2. anchors[Len(anchors)] \in Anchor
        BY <4>1
      <4> QED BY <4>2 DEF Latest, Anchor
    <3>10. Latest.count \in DOMAIN s
      BY <3>7, <3>8, <3>9
    <3>11. AnchorAt(s, Latest)
      BY <3>7, <3>10 DEF AnchorAt
    <3>12. rows' = rows
      BY <3>1 DEF Compare
    <3> QED BY <1>3, <2>1, <3>8, <3>11, <3>12, AnchorStays
  <2> QED BY <2>2, <2>3
<1>6. anchors' = anchors \/ \E c \in Calls : WriteAnchor(c)
  BY DurableSteps DEF durable, Commit, RotateKey, Backup, Restore
<1> QED BY <1>4, <1>5, <1>6
\* A start's anchor covers its own rotation record.
LEMMA StartMarks ==
    ASSUME TypeOK, CallsOK, NEW c \in Calls, WriteAnchor(c), call[c].kind = "startup"
    PROVE  ~NoMarkerUpTo(SealAnchor(c).count)
<1>1. /\ call[c].count + 1 \in DOMAIN rows
      /\ rows[call[c].count + 1].kind = "rotation"
  BY DEF CallsOK, CallOK, WriteAnchor, At
<1>2. call[c].count + 1 <= SealAnchor(c).count /\ call[c].count + 1 \in Nat
  BY DEF SealAnchor, TypeOK, Call
<1> QED BY <1>1, <1>2 DEF NoMarkerUpTo

LEMMA SpeaksStep ==
    (/\ TypeOK /\ TypeOK' /\ CallsOK /\ LedgerOK /\ LatestAnchorFits /\ LatestSpeaksForAll
     /\ [Next]_vars) => LatestSpeaksForAll'
<1> SUFFICES ASSUME TypeOK, TypeOK', CallsOK, LedgerOK, LatestAnchorFits, LatestSpeaksForAll,
                    [Next]_vars, production', Increasing', anchors' # <<>>,
                    AnchorAt(rows', Latest'),
                    \A i \in DOMAIN rows' : i <= Latest'.count => rows'[i].kind # "rotation"
             PROVE  AnchoredRecordsPresent'
  BY DEF LatestSpeaksForAll, NoMarkerUpTo
<1>1. production
  BY DurableSteps
<1>2. rows \in Seq(Record) /\ rows' \in Seq(Record) /\ backup \in Seq(Record)
      /\ anchors \in Seq(Anchor) /\ anchors' \in Seq(Anchor)
  BY DEF TypeOK
<1>3. CASE Restore
  <2>1. rows' = backup /\ Prefix(backup, rows) /\ anchors' = anchors /\ Latest' = Latest
    BY <1>3 DEF Restore, LedgerOK, Latest
  <2>2. AnchorAt(rows, Latest)
    BY <1>2, <2>1, AnchorStays
  <2>3. Increasing
    BY <2>1 DEF Increasing
  <2>4. Latest.count \in DOMAIN backup
    BY <2>1 DEF AnchorAt
  <2>5. NoMarkerUpTo(Latest.count)
    <3>1. \A i \in DOMAIN rows : i <= Latest.count => i \in DOMAIN backup
      BY <1>2, <2>4
    <3>2. \A i \in DOMAIN backup : rows[i] = backup[i]
      BY <1>2, <2>1, PrefixAt
    <3> QED BY <2>1, <3>1, <3>2 DEF NoMarkerUpTo
  <2>6. AnchoredRecordsPresent
    BY <1>1, <2>1, <2>2, <2>3, <2>5 DEF LatestSpeaksForAll
  <2>7. ASSUME NEW i \in DOMAIN anchors PROVE AnchorAt(backup, anchors[i])
    <3>1. AnchorAt(rows, anchors[i])
      BY <2>6 DEF AnchoredRecordsPresent
    <3>2. anchors[i].count <= Latest.count
      <4>1. anchors[i] \in Anchor /\ Latest \in Anchor /\ Len(anchors) \in DOMAIN anchors
        BY <1>2, <2>1 DEF Latest
      <4>2. i = Len(anchors) \/ i < Len(anchors)
        BY <1>2
      <4> QED BY <2>3, <4>1, <4>2 DEF Increasing, Latest, Anchor
    <3>3. anchors[i].count \in DOMAIN backup
      <4>1. anchors[i].count \in 1..Len(rows)
        BY <1>2, <3>1 DEF AnchorAt
      <4>2. Latest.count \in 1..Len(backup)
        BY <1>2, <2>4
      <4> QED BY <1>2, <3>2, <4>1, <4>2
    <3> QED BY <1>2, <2>1, <3>1, <3>3, PrefixAt DEF AnchorAt
  <2> QED BY <2>1, <2>7 DEF AnchoredRecordsPresent
<1>4. ASSUME NEW c \in Calls, WriteAnchor(c) PROVE AnchoredRecordsPresent'
  <2> DEFINE a == SealAnchor(c)
  <2>1. /\ a \in Anchor /\ AnchorAt(rows, a)
        /\ anchors' = Append(anchors, a)
        /\ rows' = rows
    BY <1>4, PendingFits
  <2>2. Latest' = a
    BY <1>2, <2>1 DEF Latest
  <2>3. /\ Len(anchors) + 1 \in DOMAIN anchors' /\ anchors'[Len(anchors) + 1] = a
        /\ \A i \in DOMAIN anchors : i \in DOMAIN anchors' /\ anchors'[i] = anchors[i]
        /\ \A i \in DOMAIN anchors' : i \in DOMAIN anchors \/ i = Len(anchors) + 1
    BY <1>2, <2>1
  <2>4. NoMarkerUpTo(a.count)
    BY <2>1, <2>2 DEF NoMarkerUpTo
  <2>5. call[c].kind = "decision"
    BY <1>4, <2>4, StartMarks DEF WriteAnchor
  <2>6. \E p \in Processes : process[p].at = "up"
    BY <1>4, <2>5, NoCallsOfDown DEF CallsOK, CallOK, WriteAnchor, At
  <2>7. CASE anchors = <<>>
    BY <2>1, <2>3, <2>7 DEF AnchoredRecordsPresent
  <2>8. CASE anchors # <<>>
    <3>1. AnchorAt(rows, Latest)
      BY <1>1, <2>6, <2>8 DEF LatestAnchorFits, ProductionUp
    <3>2. Increasing
      BY <2>3 DEF Increasing
    <3>3. Latest.count < a.count /\ Latest \in Anchor
      <4>1. Len(anchors) \in DOMAIN anchors /\ Len(anchors) < Len(anchors) + 1
        BY <1>2, <2>8
      <4> QED BY <1>2, <2>3, <4>1 DEF Increasing, Latest
    <3>4. NoMarkerUpTo(Latest.count)
      <4>1. \A i \in DOMAIN rows : i <= Latest.count => i <= a.count
        BY <1>2, <2>1, <3>3 DEF Anchor
      <4> QED BY <2>4, <4>1 DEF NoMarkerUpTo
    <3>5. AnchoredRecordsPresent
      BY <1>1, <2>8, <3>1, <3>2, <3>4 DEF LatestSpeaksForAll
    <3> QED BY <2>1, <2>3, <3>5 DEF AnchoredRecordsPresent
  <2> QED BY <2>7, <2>8
<1>5. ASSUME NEW c \in Calls, Commit(c) PROVE AnchoredRecordsPresent'
  <2>1. call[c].by \in Processes
    BY <1>5, NoCallsOfDown DEF Commit, At
  <2> DEFINE r == Sealed(c, Key(c))
  <2>2. r \in Record /\ rows' = Append(rows, r) /\ anchors' = anchors /\ Latest' = Latest
        /\ r.hash = sealed + 1
    BY <1>5, <2>1, SealedType DEF Commit, Latest, Sealed
  <2>3. Prefix(rows, rows')
    BY <1>2, <2>2, PrefixAppend
  <2>4. Latest.head <= sealed /\ Latest \in Anchor /\ sealed \in Nat
    BY <1>2, <2>2, LedgerAssumption DEF Latest, LedgerOK, TypeOK
  <2>5. AnchorAt(rows, Latest)
    <3>1. Latest.count \in DOMAIN rows' /\ rows'[Latest.count].hash = Latest.head
      BY <2>2 DEF AnchorAt
    <3>2. Latest.count # Len(rows) + 1
      <4>1. Latest.head # sealed + 1
        BY <2>4, LedgerAssumption DEF Anchor, Hashes
      <4> QED BY <1>2, <2>2, <3>1, <4>1
    <3>3. Latest.count \in DOMAIN rows
      BY <1>2, <2>2, <3>1, <3>2
    <3> QED BY <1>2, <2>3, <3>1, <3>3, PrefixAt DEF AnchorAt
  <2>6. NoMarkerUpTo(Latest.count)
    <3>1. \A i \in DOMAIN rows : i \in DOMAIN rows' /\ rows'[i] = rows[i]
      BY <1>2, <2>3, PrefixAt
    <3> QED BY <2>2, <3>1 DEF NoMarkerUpTo
  <2>7. Increasing
    BY <2>2 DEF Increasing
  <2>8. AnchoredRecordsPresent
    BY <1>1, <2>2, <2>5, <2>6, <2>7 DEF LatestSpeaksForAll
  <2>9. ASSUME NEW i \in DOMAIN anchors PROVE AnchorAt(rows', anchors[i])
    BY <1>2, <2>3, <2>8, AnchorStays DEF AnchoredRecordsPresent
  <2> QED BY <2>2, <2>9 DEF AnchoredRecordsPresent
<1>6. CASE rows' = rows /\ anchors' = anchors
  <2>1. Latest' = Latest
    BY <1>6 DEF Latest
  <2>2. Increasing /\ AnchorAt(rows, Latest) /\ NoMarkerUpTo(Latest.count)
    BY <1>6, <2>1 DEF Increasing, NoMarkerUpTo
  <2>3. AnchoredRecordsPresent
    BY <1>1, <1>6, <2>2 DEF LatestSpeaksForAll
  <2> QED BY <1>6, <2>3 DEF AnchoredRecordsPresent
<1> QED BY <1>3, <1>4, <1>5, <1>6, DurableSteps DEF durable, RotateKey, Backup
-----------------------------------------------------------------------------
(* The theorems                                                            *)

LEMMA InitLedger == Init => LedgerInv
<1> SUFFICES ASSUME Init PROVE LedgerInv
  OBVIOUS
<1>1. TypeOK
  <2>1. call \in [Calls -> Call]
    BY IdleType DEF Init
  <2>2. process \in [Processes -> Process] /\ config \in Keys
    BY LedgerAssumption DEF Init, Process, Keys
  <2>3. rows \in Seq(Record) /\ backup \in Seq(Record) /\ anchors \in Seq(Anchor)
    BY DEF Init
  <2> QED BY <2>1, <2>2, <2>3, LedgerAssumption DEF Init, TypeOK
<1>2. CallsOK
  <2>1. \A c \in Calls : call[c] = Idle /\ lock # c
    BY LedgerAssumption DEF Init
  <2> QED BY <2>1 DEF CallsOK, CallOK, OneCallPerStart, Idle
<1>3. LedgerOK
  BY DEF Init, LedgerOK, Linked, Prefix
<1>4. KeysOK
  BY DEF Init, KeysOK, LastKeyIsCurrent
<1>5. /\ AnchorsFit /\ KeyChangesMarked /\ AcknowledgedIsAnchored /\ AlarmsOnlyShort
      /\ LatestAnchorFits /\ LatestSpeaksForAll
  BY DEF Init, AnchorsFit, AnchoredRecordsPresent, KeyChangesMarked, AcknowledgedIsAnchored,
         AlarmsOnlyShort, LatestAnchorFits, LatestSpeaksForAll
<1> QED BY <1>1, <1>2, <1>3, <1>4, <1>5 DEF LedgerInv

LEMMA StepLedger == LedgerInv /\ [Next]_vars => LedgerInv'
BY TypeStep, CallsStep, LedgerStep, KeysStep, MarkedStep, AnchorsStep, AlarmsStep,
   LatestStep, SpeaksStep DEF LedgerInv

\* The inductive invariant holds in every state.
THEOREM LedgerInvariant == Spec => []LedgerInv
BY InitLedger, StepLedger, PTL DEF Spec

\* Every variable of the ledger keeps its type (app/audit/store.py,
\* app/audit/anchor.py).
THEOREM LedgerTypes == Spec => []TypeOK
<1>1. LedgerInv => TypeOK
  BY DEF LedgerInv
<1> QED BY <1>1, LedgerInvariant, PTL

\* With every append under the advisory lock, the ledger is one chain that the
\* newest keys verify, whatever crashes, fails, rotates or is restored
\* (append_approval, ensure_rotation_record).
THEOREM LedgerIsOneChain == Spec => []ChainVerifies
<1>1. LedgerInv => ChainVerifies
  BY DEF LedgerInv, LedgerOK, ChainVerifies, VerifyChain
<1> QED BY <1>1, LedgerInvariant, PTL

\* Anchors are written after the lock is released, yet each of them fits the
\* ledger as long as nobody restores an older one (append_approval).
THEOREM EveryAnchorFits == Spec => []AnchorsFit
<1>1. LedgerInv => AnchorsFit
  BY DEF LedgerInv
<1> QED BY <1>1, LedgerInvariant, PTL

\* With keys replaced while everything is down, no key takes over unmarked
\* (ensure_rotation_record).
THEOREM RotationsAreMarked == Spec => []KeyChangesMarked
<1>1. LedgerInv => KeyChangesMarked
  BY DEF LedgerInv
<1> QED BY <1>1, LedgerInvariant, PTL

\* append_approval returns only for anchored records, which stay until a restore.
THEOREM AcknowledgementsAreAnchored == Spec => []AcknowledgedIsAnchored
<1>1. LedgerInv => AcknowledgedIsAnchored
  BY DEF LedgerInv
<1> QED BY <1>1, LedgerInvariant, PTL

\* A verification of a ledger nobody restored never speaks of a rewritten or
\* broken one (GET /verify, verify_ledger_at_startup).
THEOREM NoFalseRewriting == Spec => []AlarmsOnlyShort
<1>1. LedgerInv => AlarmsOnlyShort
  BY DEF LedgerInv
<1> QED BY <1>1, LedgerInvariant, PTL

\* While a production process is up, the latest anchor fits the ledger
\* (verify_ledger_at_startup).
THEOREM ProductionFitsItsAnchor == Spec => []LatestAnchorFits
<1>1. LedgerInv => LatestAnchorFits
  BY DEF LedgerInv
<1> QED BY <1>1, LedgerInvariant, PTL

\* Anchored records that are missing under a running production process left a
\* trace: a rotation record, or anchors whose counts do not increase.
THEOREM LossIsTraceable == Spec => []LossLeavesATrace
<1>1. LedgerInv => LossLeavesATrace
  <2> SUFFICES ASSUME LedgerInv, ProductionUp, Increasing, NoMarkerUpTo(Len(rows))
               PROVE  AnchoredRecordsPresent
    BY DEF LossLeavesATrace
  <2>1. CASE anchors = <<>>
    BY <2>1 DEF AnchoredRecordsPresent
  <2>2. CASE anchors # <<>>
    <3>1. AnchorAt(rows, Latest)
      BY <2>2 DEF LedgerInv, LatestAnchorFits
    <3>2. \A i \in DOMAIN rows : i <= Len(rows)
      BY DEF LedgerInv, TypeOK
    <3>3. NoMarkerUpTo(Latest.count)
      BY <3>2 DEF NoMarkerUpTo
    <3> QED BY <2>2, <3>1, <3>3 DEF LedgerInv, LatestSpeaksForAll, ProductionUp
  <2> QED BY <2>1, <2>2
<1> QED BY <1>1, LedgerInvariant, PTL
=============================================================================
