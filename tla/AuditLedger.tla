----------------------------- MODULE AuditLedger -----------------------------
(***************************************************************************)
(* The approval ledger: appends under an advisory lock and the anchors     *)
(* written after them (app/audit/store.py, app/audit/anchor.py), the key   *)
(* rotation marker and the verification of every start (app/main.py,       *)
(* app/audit/startup.py), GET /api/v1/audit/verify (app/routers/audit.py), *)
(* and the backup and restore scripts.                                     *)
(*                                                                         *)
(* The API and the worker are processes that start through the same code   *)
(* and append to one table and one anchor file.  A record's hash stands    *)
(* for its contents: every sealed record gets a number of its own, since   *)
(* it commits to its time of creation and its predecessor.  Keys are       *)
(* numbered as they replace each other, and a process trusts its own and   *)
(* those before it: `keys rotate` prints both settings.                    *)
(***************************************************************************)
EXTENDS Naturals, Sequences

CONSTANTS
    Processes,   \* API and worker processes, all with a pool and an anchor file
    Servers,     \* those that serve GET /api/v1/audit/verify
    Calls,       \* appends and verifications at work at the same time
    Rolling,     \* whether keys are replaced while some process runs
    MaxKeys,     \* bound: signing keys
    MaxRecords,  \* bound: records sealed
    MaxRestores  \* bound: restores of the database

ASSUME LedgerAssumption ==
    /\ "none" \notin Processes /\ Servers \subseteq Processes
    /\ "free" \notin Calls
    /\ Rolling \in BOOLEAN
    /\ MaxKeys \in Nat \ {0} /\ MaxRecords \in Nat /\ MaxRestores \in Nat

Genesis == 0
Keys == 1..MaxKeys
Hashes == 1..MaxRecords

Record == [hash : Hashes, prev : {Genesis} \cup Hashes, key : Keys,
           kind : {"decision", "rotation"}]
Anchor == [head : Hashes, count : Nat \ {0}, key : Keys]

VARIABLES
    rows,         \* the approvals table in the order of its ids
    lock,         \* who holds pg_advisory_xact_lock, or "free"
    anchors,      \* the lines of AUDIT_ANCHOR_FILE
    sealed,       \* records sealed so far: the last hash given out
    config,       \* the key in .env, which the next process to start uses
    production,   \* PRODUCTION_BASELINE
    process,      \* per process: whether it is up, and its active key
    call,         \* per call: what it does and how far it is
    backup,       \* the last dump of the table
    acknowledged, \* hashes append_approval returned to its caller
    verdicts,     \* what verifications have said
    restores

vars == <<rows, lock, anchors, sealed, config, production, process, call, backup,
          acknowledged, verdicts, restores>>

\* Where a call is: waiting for the lock, about to read the head, about to
\* insert, about to anchor what it inserted; and, for a verification, about to
\* list the records or to compare them with the anchor.
Idle == [at |-> "idle", kind |-> "none", by |-> "none", prev |-> Genesis,
         count |-> 0, hash |-> 0, seen |-> <<>>]
Call == [at : {"idle", "lock", "head", "insert", "anchor", "list", "compare"},
         kind : {"none", "decision", "startup", "verify"},
         by : Processes \cup {"none"}, prev : {Genesis} \cup Hashes,
         count : Nat, hash : {0} \cup Hashes, seen : Seq(Record)]
Process == [at : {"down", "starting", "up"}, key : Keys]
Verdicts == {"ok", "chain", "unanchored", "foreign", "short", "rewritten"}

TypeOK ==
    /\ rows \in Seq(Record)
    /\ lock \in Calls \cup {"free"}
    /\ anchors \in Seq(Anchor)
    /\ sealed \in 0..MaxRecords
    /\ config \in Keys
    /\ production \in BOOLEAN
    /\ process \in [Processes -> Process]
    /\ call \in [Calls -> Call]
    /\ backup \in Seq(Record)
    /\ acknowledged \subseteq Hashes
    /\ verdicts \subseteq Verdicts
    /\ restores \in 0..MaxRestores

Init ==
    /\ rows = <<>>
    /\ lock = "free"
    /\ anchors = <<>>
    /\ sealed = 0
    /\ config = 1
    /\ production \in BOOLEAN
    /\ process = [p \in Processes |-> [at |-> "down", key |-> 1]]
    /\ call = [c \in Calls |-> Idle]
    /\ backup = <<>>
    /\ acknowledged = {}
    /\ verdicts = {}
    /\ restores = 0

-----------------------------------------------------------------------------
(* Verification                                                            *)

HeadHash(s) == IF s = <<>> THEN Genesis ELSE s[Len(s)].hash

\* verify_chain, with the keys up to k in the trust set.
Linked(s) == \A i \in DOMAIN s : s[i].prev = (IF i = 1 THEN Genesis ELSE s[i - 1].hash)
VerifyChain(s, k) == Linked(s) /\ \A i \in DOMAIN s : s[i].key <= k

\* Mutant: the anchored head is looked for at the end of the ledger.
CheckAgainstLast(s, a, k) ==
    IF a.key > k THEN "foreign"
    ELSE IF Len(s) < a.count THEN "short"
    ELSE IF HeadHash(s) # a.head THEN "rewritten"
    ELSE "ok"

\* Mutant: only a broken chain stops a start.
AcceptedUnbroken(s, verdict) == verdict # "chain"

\* Mutant: the number of records is compared, and not the anchored one.
CheckAgainstCount(s, a, k) ==
    IF a.key > k THEN "foreign"
    ELSE IF Len(s) < a.count THEN "short"
    ELSE "ok"

\* check_against_anchor for an anchor that is there.
CheckAgainst(s, a, k) ==
    IF a.key > k THEN "foreign"
    ELSE IF Len(s) < a.count THEN "short"
    ELSE IF s[a.count].hash # a.head THEN "rewritten"
    ELSE "ok"

Verdict(s, log, k) ==
    IF ~VerifyChain(s, k) THEN "chain"
    ELSE IF log = <<>> THEN "unanchored"
    ELSE CheckAgainst(s, log[Len(log)], k)

\* What verify_ledger_at_startup accepts: an empty ledger needs no anchor.
Accepted(s, verdict) == verdict = "ok" \/ (verdict = "unanchored" /\ s = <<>>)

-----------------------------------------------------------------------------
(* Processes                                                               *)

At(c, where) == call[c].at = where
Key(c) == process[call[c].by].key
AllDown == \A p \in Processes : process[p].at = "down"

Opened(kind, p, where) == [Idle EXCEPT !.at = where, !.kind = kind, !.by = p]
Goto(c, where) == call' = [call EXCEPT ![c].at = where]
End(c) == call' = [call EXCEPT ![c] = Idle]
Release(c) == lock' = IF lock = c THEN "free" ELSE lock

\* An exception ends the call; one during the start ends the process.
Raise(c) ==
    /\ End(c)
    /\ process' = IF call[c].kind = "startup"
                  THEN [process EXCEPT ![call[c].by].at = "down"] ELSE process

\* The lifespan: rotation marker first, verification after it.
Start(p, c) ==
    /\ process[p].at = "down" /\ At(c, "idle")
    /\ process' = [process EXCEPT ![p] = [at |-> "starting", key |-> config]]
    /\ call' = [call EXCEPT ![c] = Opened("startup", p, "lock")]
    /\ UNCHANGED <<rows, lock, anchors, sealed, config, production, backup,
                   acknowledged, verdicts, restores>>

\* The process stops or dies; its transactions are rolled back.
Crash(p) ==
    /\ process[p].at # "down"
    /\ process' = [process EXCEPT ![p].at = "down"]
    /\ call' = [c \in Calls |-> IF call[c].by = p THEN Idle ELSE call[c]]
    /\ lock' = IF lock # "free" /\ call[lock].by = p THEN "free" ELSE lock
    /\ UNCHANGED <<rows, anchors, sealed, config, production, backup,
                   acknowledged, verdicts, restores>>

-----------------------------------------------------------------------------
(* append_approval and ensure_rotation_record                              *)

AppendApproval(p, c) ==
    /\ process[p].at = "up" /\ At(c, "idle")
    /\ call' = [call EXCEPT ![c] = Opened("decision", p, "lock")]
    /\ UNCHANGED <<rows, lock, anchors, sealed, config, production, process, backup,
                   acknowledged, verdicts, restores>>

\* Mutant: the advisory lock does not make anybody wait.
LockAnyway(c) ==
    /\ At(c, "lock")
    /\ lock' = c
    /\ Goto(c, "head")
    /\ UNCHANGED <<rows, anchors, sealed, config, production, process, backup,
                   acknowledged, verdicts, restores>>

Lock(c) ==
    /\ At(c, "lock") /\ lock = "free"
    /\ lock' = c
    /\ Goto(c, "head")
    /\ UNCHANGED <<rows, anchors, sealed, config, production, process, backup,
                   acknowledged, verdicts, restores>>

\* Mutant: the test of the last key is the wrong way round.
RotationDueNever(c) == rows # <<>> /\ rows[Len(rows)].key = Key(c)

\* The last record was not signed with the active key.
RotationDue(c) == rows # <<>> /\ rows[Len(rows)].key # Key(c)

\* _head.  A start that owes no marker leaves the transaction here and goes on
\* to verify.
ReadHead(c) ==
    /\ At(c, "head")
    /\ \/ /\ call[c].kind = "startup" /\ ~RotationDue(c)
          /\ Release(c)
          /\ Goto(c, "list")
       \/ /\ call[c].kind = "decision" \/ RotationDue(c)
          /\ call' = [call EXCEPT ![c] = [@ EXCEPT !.at = "insert", !.prev = HeadHash(rows),
                                                   !.count = Len(rows)]]
          /\ UNCHANGED lock
    /\ UNCHANGED <<rows, anchors, sealed, config, production, process, backup,
                   acknowledged, verdicts, restores>>

Sealed(c, key) ==
    [hash |-> sealed + 1, prev |-> call[c].prev, key |-> key,
     kind |-> IF call[c].kind = "startup" THEN "rotation" ELSE "decision"]

\* Seal, insert and commit, which gives the lock back.
Commit(c) ==
    /\ At(c, "insert") /\ sealed < MaxRecords
    /\ sealed' = sealed + 1
    /\ rows' = Append(rows, Sealed(c, Key(c)))
    /\ call' = [call EXCEPT ![c] = [@ EXCEPT !.at = "anchor", !.hash = sealed + 1]]
    /\ Release(c)
    /\ UNCHANGED <<anchors, config, production, process, backup, acknowledged,
                   verdicts, restores>>

\* The database fails: a transaction is rolled back, a list is not made.
Abort(c) ==
    /\ call[c].at \in {"lock", "head", "insert", "list"}
    /\ Raise(c)
    /\ Release(c)
    /\ UNCHANGED <<rows, anchors, sealed, config, production, backup, acknowledged,
                   verdicts, restores>>

\* Mutant: the count from before the insert.
SealAnchorBefore(c) == [head |-> call[c].hash, count |-> call[c].count, key |-> Key(c)]

SealAnchor(c) == [head |-> call[c].hash, count |-> call[c].count + 1, key |-> Key(c)]

\* sink.write, after the commit and outside the lock.
WriteAnchor(c) ==
    /\ At(c, "anchor")
    /\ anchors' = Append(anchors, SealAnchor(c))
    /\ \/ /\ call[c].kind = "decision"
          /\ End(c)
          /\ acknowledged' = acknowledged \cup {call[c].hash}
       \/ /\ call[c].kind = "startup"
          /\ Goto(c, "list")
          /\ UNCHANGED acknowledged
    /\ UNCHANGED <<rows, lock, sealed, config, production, process, backup, verdicts,
                   restores>>

\* Mutant: a failing sink is logged and the decision acknowledged.
SinkFailsQuietly(c) ==
    /\ At(c, "anchor")
    /\ Raise(c)
    /\ acknowledged' = acknowledged \cup {call[c].hash}
    /\ UNCHANGED <<rows, lock, anchors, sealed, config, production, backup, verdicts,
                   restores>>

\* The anchor file cannot be written: the record stays, the caller gets the error.
SinkFails(c) ==
    /\ At(c, "anchor")
    /\ Raise(c)
    /\ UNCHANGED <<rows, lock, anchors, sealed, config, production, backup,
                   acknowledged, verdicts, restores>>

-----------------------------------------------------------------------------
(* GET /verify and verify_ledger_at_startup                                *)

Verify(p, c) ==
    /\ p \in Servers /\ process[p].at = "up" /\ At(c, "idle")
    /\ call' = [call EXCEPT ![c] = Opened("verify", p, "list")]
    /\ UNCHANGED <<rows, lock, anchors, sealed, config, production, process, backup,
                   acknowledged, verdicts, restores>>

\* list_approvals
List(c) ==
    /\ At(c, "list")
    /\ call' = [call EXCEPT ![c] = [@ EXCEPT !.at = "compare", !.seen = rows]]
    /\ UNCHANGED <<rows, lock, anchors, sealed, config, production, process, backup,
                   acknowledged, verdicts, restores>>

\* sink.latest() is read here, after the records were.  A production process
\* that starts on anything but a ledger it accepts raises; others are degraded.
Compare(c) ==
    /\ At(c, "compare")
    /\ LET verdict == Verdict(call[c].seen, anchors, Key(c)) IN
       /\ verdicts' = verdicts \cup {verdict}
       /\ process' = IF call[c].kind = "startup"
                     THEN [process EXCEPT ![call[c].by].at =
                             IF production /\ ~Accepted(call[c].seen, verdict)
                             THEN "down" ELSE "up"]
                     ELSE process
    /\ End(c)
    /\ UNCHANGED <<rows, lock, anchors, sealed, config, production, backup,
                   acknowledged, restores>>

-----------------------------------------------------------------------------
(* The operators                                                           *)

\* A new key in .env, and its predecessor among the retired ones.
RotateKey ==
    /\ config < MaxKeys
    /\ Rolling \/ AllDown
    /\ config' = config + 1
    /\ UNCHANGED <<rows, lock, anchors, sealed, production, process, call, backup,
                   acknowledged, verdicts, restores>>

Backup ==
    /\ backup' = rows
    /\ UNCHANGED <<rows, lock, anchors, sealed, config, production, process, call,
                   acknowledged, verdicts, restores>>

\* The script stops the API and the worker first, so that its later attempt to
\* write the anchors inside the API's container fails: they stay as they are.
Restore ==
    /\ AllDown /\ restores < MaxRestores
    /\ rows' = backup
    /\ restores' = restores + 1
    /\ UNCHANGED <<lock, anchors, sealed, config, production, process, call, backup,
                   acknowledged, verdicts>>

-----------------------------------------------------------------------------
CallStep(c) ==
    \/ Lock(c) \/ ReadHead(c) \/ Commit(c) \/ Abort(c)
    \/ WriteAnchor(c) \/ SinkFails(c)
    \/ List(c) \/ Compare(c)
ProcessStep(p) ==
    \/ Crash(p)
    \/ \E c \in Calls : Start(p, c) \/ AppendApproval(p, c) \/ Verify(p, c)
OperatorStep == RotateKey \/ Backup \/ Restore

Next ==
    \/ \E c \in Calls : CallStep(c)
    \/ \E p \in Processes : ProcessStep(p)
    \/ OperatorStep

Spec == Init /\ [][Next]_vars

-----------------------------------------------------------------------------
(* Properties                                                              *)

\* However appends, starts, crashes, rotations and restores interleave, the
\* ledger verifies for a process with the newest key: no two records have the
\* same predecessor, and none was signed with a key nobody trusts (CHAIN_LOCK
\* in app/audit/store.py, KeySet.trusted in app/audit/keys.py).
ChainVerifies == VerifyChain(rows, config)

\* Until a database is restored, every line of the anchor file, and not only
\* the last one, agrees with the ledger: anchors are written after the lock is
\* gone, in any order, yet each with the count its record had.
AnchorAt(s, a) == a.count \in DOMAIN s /\ s[a.count].hash = a.head
AnchoredRecordsPresent == \A i \in DOMAIN anchors : AnchorAt(rows, anchors[i])
AnchorsFit == restores = 0 => AnchoredRecordsPresent

\* As long as keys are replaced while everything is down, a change of key in the
\* ledger is marked by a rotation record, through crashes between the marker
\* and its anchor and through restores to a time before the rotation
\* (ensure_rotation_record, called by every start).
KeyChangesMarked ==
    ~Rolling =>
        \A i \in DOMAIN rows :
            (i > 1 /\ rows[i].key # rows[i - 1].key) => rows[i].kind = "rotation"

\* A decision is acted upon only once its record is anchored, and until a
\* restore it stays in the ledger (resume_investigation enqueues the job after
\* append_approval returned).
AcknowledgedIsAnchored ==
    \A h \in acknowledged :
        /\ \E i \in DOMAIN anchors : anchors[i].head = h
        /\ restores = 0 => \E i \in DOMAIN rows : rows[i].hash = h

\* Nothing is ever called rewritten, broken or foreign in a ledger nobody
\* restored: the race between a verification and an append can only make the
\* ledger look too short.
AlarmsOnlyShort ==
    (restores = 0 /\ ~Rolling) => verdicts \subseteq {"ok", "unanchored", "short"}

Latest == anchors[Len(anchors)]
ProductionUp == production /\ \E p \in Processes : process[p].at = "up"

\* While a production process is up, the latest line of the anchor file fits the
\* ledger, whatever was restored and whichever starts failed half way
\* (verify_ledger_at_startup under PRODUCTION_BASELINE).
LatestAnchorFits == (ProductionUp /\ anchors # <<>>) => AnchorAt(rows, Latest)

\* A loss that production runs on has left a trace: either the counts in the
\* anchor file do not increase from line to line, or a rotation record is in
\* the ledger.  (Only the latest line is compared, and a start may have written
\* it itself, for the rotation record it adds before it verifies.)
Increasing ==
    \A i, j \in DOMAIN anchors : i < j => anchors[i].count < anchors[j].count
NoMarkerUpTo(n) == \A i \in DOMAIN rows : i <= n => rows[i].kind # "rotation"
LossLeavesATrace ==
    (ProductionUp /\ Increasing /\ NoMarkerUpTo(Len(rows))) => AnchoredRecordsPresent

-----------------------------------------------------------------------------
(* The inductive invariant behind them                                     *)

Prefix(s, t) == Len(s) <= Len(t) /\ \A i \in DOMAIN s : s[i] = t[i]

\* Calls belong to processes that are there, a start has one call, and what a
\* call has read is still so: the head while it holds the lock, the place of
\* its record after that, and what it listed as the beginning of the ledger.
CallOK(c) ==
    LET k == call[c] IN
    /\ k.at = "idle" <=> k.kind = "none"
    /\ k.at = "idle" => k.by = "none"
    /\ k.at # "idle" => k.by \in Processes
    /\ k.kind = "startup" => process[k.by].at = "starting"
    /\ k.kind \in {"decision", "verify"} => process[k.by].at = "up"
    /\ k.at \in {"lock", "head", "insert", "anchor"} => k.kind # "verify"
    /\ lock = c <=> k.at \in {"head", "insert"}
    /\ k.at = "insert" => k.prev = HeadHash(rows) /\ k.count = Len(rows)
    /\ k.at = "anchor" => /\ k.count + 1 \in DOMAIN rows
                          /\ rows[k.count + 1].hash = k.hash
                          /\ k.kind = "startup" => rows[k.count + 1].kind = "rotation"
    /\ k.at = "compare" => Prefix(k.seen, rows)
OneCallPerStart ==
    \A c, d \in Calls :
        (call[c].kind = "startup" /\ call[d].kind = "startup" /\ call[c].by = call[d].by)
            => c = d
CallsOK == (\A c \in Calls : CallOK(c)) /\ OneCallPerStart

\* The ledger and what was dumped of it.
LedgerOK ==
    /\ Linked(rows)
    /\ \A i \in DOMAIN rows : rows[i].key <= config /\ rows[i].hash <= sealed
    /\ Prefix(backup, rows)
    /\ \A i \in DOMAIN anchors : anchors[i].key <= config /\ anchors[i].head <= sealed
    /\ \A p \in Processes : process[p].key <= config

\* The last record has the key every running process has.
LastKeyIsCurrent == rows # <<>> => rows[Len(rows)].key = config
KeysOK ==
    ~Rolling =>
        /\ \A p \in Processes : process[p].at # "down" => process[p].key = config
        /\ \A p \in Processes : process[p].at = "up" => LastKeyIsCurrent
        /\ \A c \in Calls : (call[c].kind = "startup" /\
                               call[c].at \in {"anchor", "list", "compare"})
                                  => LastKeyIsCurrent

\* In production, the latest anchor speaks for all of them, unless a rotation
\* record came before it.
LatestSpeaksForAll ==
    (/\ production /\ Increasing /\ anchors # <<>>
     /\ AnchorAt(rows, Latest) /\ NoMarkerUpTo(Latest.count)) => AnchoredRecordsPresent

LedgerInv ==
    /\ TypeOK /\ CallsOK /\ LedgerOK /\ KeysOK
    /\ AnchorsFit /\ KeyChangesMarked /\ AcknowledgedIsAnchored /\ AlarmsOnlyShort
    /\ LatestAnchorFits /\ LatestSpeaksForAll
=============================================================================
