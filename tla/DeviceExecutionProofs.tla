------------------------ MODULE DeviceExecutionProofs ------------------------
(* Theorems about DeviceExecution, for every set of changes, rules, threads *)
(* and preexisting rules, with and without automatic rollback.              *)
EXTENDS DeviceExecution, TLAPS

\* Which records are attempts.
LEMMA PlacedTypes ==
    ASSUME NEW o \in Ops
    PROVE  /\ \A w \in Undecided : Placed(o, w, "none") \in Attempt
           /\ \A w \in Closing \cup {"return"}, r \in Outcomes \cup {"raised"} :
                 Placed(o, w, r) \in Attempt
           /\ \A r \in Outcomes : Placed(o, "store", r) \in Attempt
           /\ \A w, r : /\ Placed(o, w, r).at = w
                        /\ Placed(o, w, r).op = o
                        /\ Placed(o, w, r).res = r
<1>1. \A w \in Undecided : Placed(o, w, "none") \in Attempt
  BY DEF Placed, Attempt
<1>2. \A w \in Closing \cup {"return"}, r \in Outcomes \cup {"raised"} :
         Placed(o, w, r) \in Attempt
  BY DEF Placed, Attempt
<1>3. \A r \in Outcomes : Placed(o, "store", r) \in Attempt
  BY DEF Placed, Attempt
<1> QED
  BY <1>1, <1>2, <1>3 DEF Placed

\* An attempt's place and outcome fit, and it is not idle.
LEMMA AttemptTypes ==
    ASSUME NEW x \in Attempt
    PROVE  /\ x.op \in Ops
           /\ x.at \in Undecided => x.res = "none"
           /\ x.at \in Closing \cup {"return"} => x.res \in Outcomes \cup {"raised"}
           /\ x.at = "store" => x.res \in Outcomes
           /\ x.at \in Undecided \cup Closing \cup {"store", "return"}
           /\ x # Idle
<1>1. "idle" \notin Undecided \cup Closing \cup {"store", "return"}
  BY DEF Undecided, Closing
<1>2. x.at # "idle"
  BY <1>1 DEF Attempt
<1> QED
  BY <1>2 DEF Attempt, Idle, Undecided, Closing

\* A thread that is not idle is at an attempt.
LEMMA Working ==
    ASSUME TypeOK, NEW t \in Threads, ~At(t, "idle") \/ thread[t] # Idle
    PROVE  /\ thread[t] \in Attempt
           /\ thread[t] # Idle
           /\ Op(t) \in Ops
           /\ Rule(t) \in Rules
<1>1. thread[t] \in Thread
  BY DEF TypeOK
<1>2. thread[t] # Idle
  BY DEF At, Idle
<1>3. thread[t] \in Attempt
  BY <1>1, <1>2 DEF Thread
<1> QED
  BY <1>2, <1>3, AttemptTypes, ExecutionAssumption DEF Op, Rule

\* A thread that moves to an attempt keeps the type of thread.
LEMMA MovedThread ==
    ASSUME TypeOK, NEW t \in Threads, NEW where, NEW res,
           Placed(Op(t), where, res) \in Attempt, GotoWith(t, where, res)
    PROVE  thread' \in [Threads -> Thread]
  BY DEF TypeOK, GotoWith, Thread

\* What a change went through is one of Troubles.
LEMMA AddTypes ==
    ASSUME TypeOK, NEW o \in Ops, NEW what \in Troubles
    PROVE  Add(o, what) \in [Ops -> SUBSET Troubles]
  BY DEF TypeOK, Add

LEMMA StruckTypes ==
    ASSUME TypeOK, NEW s, Struck(s)
    PROVE  trouble' \in [Ops -> SUBSET Troubles]
  BY DEF TypeOK, Struck, Troubles

\* The initial state is typed and consistent.
LEMMA InitExec == Init => ExecInv
<1> SUFFICES ASSUME Init PROVE ExecInv
  OBVIOUS
<1>1. \A r \in Rules : Before(r) \in Nat
  BY DEF Before
<1>2. TypeOK
  <2>1. 0 \in 0..MaxFaults /\ 0 \in 0..MaxLapses
    BY ExecutionAssumption
  <2>2. copies \in [Rules -> Nat] /\ thread \in [Threads -> Thread]
    BY <1>1 DEF Init, Thread
  <2>3. /\ cache \in [Ops -> Outcomes \cup {"none"}]
        /\ table \in [Ops -> Outcomes \cup {"none"}]
        /\ reported \in [Ops -> Outcomes \cup {"none"}]
        /\ job \in [Ops -> {"ready", "running", "done"}]
    BY DEF Init
  <2>4. older \subseteq View /\ trouble \in [Ops -> SUBSET Troubles]
    BY DEF Init
  <2> QED
    BY <2>1, <2>2, <2>3, <2>4 DEF Init, TypeOK
<1>3. \A t \in Threads : thread[t] = Idle
  BY DEF Init
<1>4. \A o \in Ops : RuleOf[o] \in Rules
  BY ExecutionAssumption
<1>5. \A o \in Ops : Untouched(RuleOf[o])
  BY <1>4 DEF Init, Untouched
<1>6. (\A t \in Threads : AttemptOK(thread[t])) /\ OneAttempt
  BY <1>3 DEF AttemptOK, OneAttempt
<1>7. PutsAreCurrent /\ MemoryIsTruthful /\ ResultsAgree
  BY DEF Init, PutsAreCurrent, MemoryIsTruthful, ResultsAgree, Truthful
<1>8. UnfitUntouched
  BY <1>5 DEF Init, UnfitUntouched
<1>9. WorkingIsThere /\ NoDuplicateRule
  BY <1>4 DEF Init, WorkingIsThere, NoDuplicateRule, Before
<1> QED
  BY <1>2, <1>6, <1>7, <1>8, <1>9 DEF ExecInv, Consistent

\* A command leaves the device and the history typed.
LEMMA CommandTypes ==
    ASSUME TypeOK, NEW t \in Threads, Rule(t) \in Rules, Send(t) \/ Undo(t)
    PROVE  /\ copies' \in [Rules -> Nat] /\ working' \subseteq Rules
           /\ trouble' \in [Ops -> SUBSET Troubles]
<1>1. CASE Land(Rule(t))
  <2>1. CASE UNCHANGED trouble
    <3>1. copies' \in [Rules -> Nat] /\ working' \subseteq Rules
      BY <1>1 DEF Land, TypeOK, SameNumber, WorkingWithout
    <3> QED
      BY <2>1, <3>1 DEF TypeOK
  <2>2. PICK s \in Rules : Struck(s) \/ UNCHANGED trouble
    BY <1>1 DEF Land, SameNumber
  <2>3. copies' \in [Rules -> Nat] /\ working' \subseteq Rules
    BY <1>1 DEF Land, TypeOK, SameNumber, WorkingWithout
  <2> QED
    BY <2>1, <2>2, <2>3, StruckTypes
<1>2. CASE Remove(Rule(t))
  <2>1. PICK s \in Rules : /\ copies[s] > 0
                           /\ copies' = [copies EXCEPT ![s] = @ - 1]
                           /\ working' \in WorkingWithout(s)
                           /\ Struck(s) \/ UNCHANGED trouble
    BY <1>2 DEF Remove, SameNumber
  <2>2. copies' \in [Rules -> Nat] /\ working' \subseteq Rules
    BY <2>1 DEF TypeOK, WorkingWithout
  <2> QED
    BY <2>1, <2>2, StruckTypes DEF TypeOK
<1>3. CASE UNCHANGED <<copies, working, trouble>>
  BY <1>3 DEF TypeOK
<1> QED
  BY <1>1, <1>2, <1>3 DEF Send, Undo, Ignore, NotConnected, device

\* Every step keeps the types, lapsing leases included.
LEMMA TypeStep == TypeOK /\ [Next]_vars => TypeOK'
<1> SUFFICES ASSUME TypeOK, [Next]_vars PROVE TypeOK'
  OBVIOUS
<1> USE DEF device, held, stored, bounds
<1>1. CASE UNCHANGED vars
  BY <1>1 DEF TypeOK, vars
<1>2. ASSUME NEW t \in Threads, NEW o \in Ops, Begin(t, o) PROVE TypeOK'
  <2>1. Placed(o, "lookup", "none") \in Thread
    BY PlacedTypes DEF Thread, Undecided
  <2> QED
    BY <1>2, <2>1 DEF TypeOK, Begin
<1>3. ASSUME NEW t \in Threads, Lookup(t) PROVE TypeOK'
  <2>1. thread[t] \in Attempt /\ thread[t].res = "none" /\ Op(t) \in Ops
    BY <1>3, Working, AttemptTypes DEF Lookup, At, Undecided
  <2>2. cache[Op(t)] \in Outcomes \cup {"none"}
    BY <2>1 DEF TypeOK
  <2>3. thread' \in [Threads -> Thread]
    BY <1>3, <2>1, <2>2, PlacedTypes, MovedThread
       DEF Lookup, Goto, Outcomes, Undecided
  <2> QED
    BY <1>3, <2>3 DEF TypeOK, Lookup
<1>4. ASSUME NEW t \in Threads, Reset(t) \/ Check(t) PROVE TypeOK'
  <2>1. thread[t] \in Attempt /\ thread[t].res = "none" /\ Op(t) \in Ops
    BY <1>4, Working, AttemptTypes DEF Reset, Check, At, Undecided
  <2>2. thread' \in [Threads -> Thread]
    BY <1>4, <2>1, PlacedTypes, MovedThread DEF Reset, Check, Goto, Undecided
  <2>3. session' \in {"none", "open"} /\ orphans' \in Nat
    BY <1>4 DEF TypeOK, Reset, Check, Forget
  <2>4. trouble' \in [Ops -> SUBSET Troubles]
    <3>1. trouble' \in {trouble, Add(Op(t), "unseen")}
      BY <1>4 DEF Reset, Check
    <3> QED
      BY <2>1, <3>1, AddTypes DEF TypeOK, Troubles
  <2> QED
    BY <1>4, <2>2, <2>3, <2>4 DEF TypeOK, Reset, Check
<1>5. ASSUME NEW t \in Threads, Close(t) \/ Clear(t) PROVE TypeOK'
  <2>1. /\ thread[t] \in Attempt /\ Op(t) \in Ops
        /\ thread[t].res \in Outcomes \cup {"raised"}
    BY <1>5, Working, AttemptTypes DEF Close, Clear, At, Closing
  <2>2. thread' \in [Threads -> Thread]
    BY <1>5, <2>1, PlacedTypes, MovedThread DEF Close, Clear, Goto, Closing
  <2>3. session' \in {"none", "open"} /\ orphans' \in Nat
    BY <1>5 DEF TypeOK, Close, Clear, Forget
  <2> QED
    BY <1>5, <2>2, <2>3 DEF TypeOK, Close, Clear
<1>6. ASSUME NEW t \in Threads, Verify(t) \/ VerifyUndo(t) \/ ReadError(t) PROVE TypeOK'
  <2>1. thread[t] \in Attempt /\ thread[t].res = "none" /\ Op(t) \in Ops
    BY <1>6, Working, AttemptTypes DEF Verify, VerifyUndo, ReadError, At, Undecided
  <2>2. thread' \in [Threads -> Thread]
    BY <1>6, <2>1, PlacedTypes, MovedThread
       DEF Verify, VerifyUndo, ReadError, Revert, Goto, Undecided, Closing, Outcomes
  <2>3. trouble' \in [Ops -> SUBSET Troubles]
    <3>1. trouble' \in {trouble, Add(Op(t), "misjudged")}
      BY <1>6 DEF Verify, VerifyUndo, ReadError
    <3> QED
      BY <2>1, <3>1, AddTypes DEF TypeOK, Troubles
  <2> QED
    BY <1>6, <2>2, <2>3, ExecutionAssumption
       DEF TypeOK, Verify, VerifyUndo, ReadError, Fault
<1>7. ASSUME NEW t \in Threads, Send(t) \/ Undo(t) PROVE TypeOK'
  <2>1. /\ thread[t] \in Attempt /\ thread[t].res = "none" /\ Op(t) \in Ops
        /\ Rule(t) \in Rules
    BY <1>7, Working, AttemptTypes DEF Send, Undo, At, Undecided
  <2>2. thread' \in [Threads -> Thread]
    BY <1>7, <2>1, PlacedTypes, MovedThread
       DEF Send, Undo, Revert, Goto, Undecided, Closing, Outcomes
  <2>3. /\ copies' \in [Rules -> Nat] /\ working' \subseteq Rules
        /\ trouble' \in [Ops -> SUBSET Troubles]
    BY <1>7, <2>1, CommandTypes
  <2> QED
    BY <1>7, <2>2, <2>3 DEF TypeOK, Send, Undo, Connected, NotConnected
<1>8. ASSUME NEW t \in Threads, Store(t) PROVE TypeOK'
  <2>1. thread[t] \in Attempt /\ thread[t].res \in Outcomes /\ Op(t) \in Ops
    BY <1>8, Working, AttemptTypes DEF Store, At
  <2>2. thread' \in [Threads -> Thread]
    BY <1>8, <2>1, PlacedTypes, MovedThread DEF Store, Goto
  <2> QED
    BY <1>8, <2>1, <2>2, ExecutionAssumption DEF TypeOK, Store, Fault, Put
<1>9. ASSUME NEW t \in Threads, Return(t) PROVE TypeOK'
  <2>1. thread[t].res \in Outcomes \cup {"raised"} /\ Op(t) \in Ops
    BY <1>9, Working, AttemptTypes DEF Return, At
  <2> QED
    BY <1>9, <2>1 DEF TypeOK, Return, Thread
<1>10. ASSUME NEW t \in Threads, Lapse(t) PROVE TypeOK'
  <2>1. job' \in [Ops -> {"ready", "running", "done"}]
    BY <1>10 DEF TypeOK, Lapse
  <2>2. lapses' \in 0..MaxLapses
    BY <1>10, ExecutionAssumption DEF TypeOK, Lapse
  <2>3. trouble' \in [Ops -> SUBSET Troubles]
    BY <1>10, Working, AddTypes DEF Lapse, Troubles
  <2> QED
    BY <1>10, <2>1, <2>2, <2>3 DEF TypeOK, Lapse
<1>11. ASSUME NEW x \in puts, Persist(x) PROVE TypeOK'
  <2>1. x \in Put
    BY DEF TypeOK
  <2> QED
    BY <1>11, <2>1, ExecutionAssumption DEF TypeOK, Persist, Put, Fault
<1>12. CASE Crash
  <2>1. job' \in [Ops -> {"ready", "running", "done"}]
    BY <1>12 DEF TypeOK, Crash
  <2>2. cache' \in [Ops -> Outcomes \cup {"none"}] /\ puts' \subseteq Put
    BY <1>12 DEF Crash
  <2>3. thread' \in [Threads -> Thread]
    BY <1>12 DEF Crash, Thread
  <2>4. session' \in {"none", "open"} /\ orphans' \in Nat
    BY <1>12 DEF Crash
  <2>5. faults' \in 0..MaxFaults
    BY <1>12, ExecutionAssumption DEF TypeOK, Crash, Fault
  <2>6. /\ fit' \subseteq Ops /\ copies' \in [Rules -> Nat] /\ working' \subseteq Rules
        /\ table' \in [Ops -> Outcomes \cup {"none"}]
        /\ reported' \in [Ops -> Outcomes \cup {"none"}]
        /\ lapses' \in 0..MaxLapses
        /\ older' \subseteq View /\ trouble' \in [Ops -> SUBSET Troubles]
    BY <1>12 DEF TypeOK, Crash
  <2> QED
    BY <2>1, <2>2, <2>3, <2>4, <2>5, <2>6 DEF TypeOK
<1>13. CASE Hold
  <2>1. Now \in View
    BY DEF Now, View, TypeOK
  <2> QED
    BY <1>13, <2>1 DEF Hold, TypeOK
<1> QED
  BY <1>1, <1>2, <1>3, <1>4, <1>5, <1>6, <1>7, <1>8, <1>9, <1>10, <1>11, <1>12, <1>13
     DEF Next, Aside, OnTheDevice

\* Every variable keeps its type, whatever faults and lapses there are.
THEOREM ExecutionTypes == Spec => []TypeOK
<1>1. Init => TypeOK
  BY InitExec DEF ExecInv
<1> QED
  BY <1>1, TypeStep, PTL DEF Spec

\* What is said of a change stays so while its rule does, or the trouble that
\* excuses it has come up.
LEMMA TruthStays ==
    ASSUME NEW o \in Ops, NEW res, Truthful(o, res),
           trouble[o] \subseteq trouble'[o],
           RuleOf[o] \in working => RuleOf[o] \in working' \/ "struck" \in trouble'[o],
           RuleOf[o] \notin Preexisting /\ Untouched(RuleOf[o]) => Untouched(RuleOf[o])'
    PROVE  Truthful(o, res)'
  BY DEF Truthful, Spared

\* A look at the device may be misled about the change it is for, and no other.
Looks(t) ==
    /\ \A p \in Ops \ {Op(t)} : trouble'[p] = trouble[p]
    /\ \A p \in Ops : trouble[p] \subseteq trouble'[p]
    /\ \A p \in Ops : "lapsed" \in trouble'[p] => "lapsed" \in trouble[p]

LEMMA LooksMark ==
    ASSUME TypeOK, NEW t \in Threads, NEW what \in {"unseen", "misjudged"},
           trouble' \in {trouble, Add(Op(t), what)}
    PROVE  Looks(t)
  BY DEF Looks, Add, TypeOK

\* A step that only moves one attempt keeps the invariant if what is known of
\* the attempt holds where it moves to.
LEMMA MoveStep ==
    ASSUME ExecInv, NEW t \in Threads, thread[t] \in Attempt, NEW where, NEW res,
           Placed(Op(t), where, res) \in Attempt,
           AttemptOK(thread[t])',
           GotoWith(t, where, res),
           Looks(t),
           UNCHANGED <<fit, copies, working, job, cache, puts, table, reported>>
    PROVE  Consistent'
<1> DEFINE x == Placed(Op(t), where, res)
<1>1. x.op = Op(t) /\ x # Idle /\ thread[t] # Idle /\ Op(t) \in Ops
  BY AttemptTypes, PlacedTypes DEF Op
<1>2. \A u \in Threads : thread'[u] = IF u = t THEN x ELSE thread[u]
  BY DEF GotoWith, ExecInv, TypeOK
<1> HIDE DEF x
<1>3. \A p \in Ops : "lapsed" \in trouble'[p] <=> "lapsed" \in trouble[p]
  BY DEF Looks
<1>4. ASSUME NEW p \in Ops, NEW r, Truthful(p, r) PROVE Truthful(p, r)'
  <2>1. Untouched(RuleOf[p]) => Untouched(RuleOf[p])'
    BY DEF Untouched
  <2> QED
    BY <1>4, <2>1, TruthStays DEF Looks
<1>5. \A u \in Threads : AttemptOK(thread[u])'
  <2> SUFFICES ASSUME NEW u \in Threads, u # t, thread[u] # Idle PROVE AttemptOK(thread[u])'
    <3>1. ASSUME NEW u \in Threads, u # t, thread[u] = Idle PROVE AttemptOK(thread[u])'
      BY <1>2, <3>1 DEF AttemptOK
    <3> QED
      BY <3>1
  <2>1. thread'[u] = thread[u] /\ AttemptOK(thread[u]) /\ thread[u].op \in Ops
    BY <1>2, Working DEF ExecInv, Consistent, Op
  <2>2. Truthful(thread[u].op, thread[u].res)'
    BY <1>4, <2>1 DEF AttemptOK
  <2>3. AloneAtWork(thread[u]) => AloneAtWork(thread[u])'
    BY <2>1 DEF AloneAtWork, Spared, Looks
  <2> QED
    BY <1>3, <2>1, <2>2, <2>3 DEF AttemptOK, Spared
<1>6. OneAttempt'
  <2> SUFFICES ASSUME NEW u \in Threads, NEW w \in Threads,
                      thread'[u] # Idle, thread'[w] # Idle, thread'[u].op = thread'[w].op,
                      "lapsed" \notin trouble'[thread'[u].op]
               PROVE  u = w
    BY DEF OneAttempt, Op, Spared
  <2>1. \A v \in {u, w} : thread[v] # Idle /\ thread[v].op = thread'[v].op
    BY <1>1, <1>2 DEF Op
  <2>2. thread[u].op \in Ops
    BY <2>1, Working DEF ExecInv, Op
  <2> QED
    BY <1>3, <2>1, <2>2 DEF ExecInv, Consistent, OneAttempt, Op, Spared
<1>7. PutsAreCurrent'
  <2> SUFFICES ASSUME NEW y \in puts, "lapsed" \notin trouble'[y.op]
               PROVE  /\ cache[y.op] = y.res
                      /\ \/ reported[y.op] = y.res
                         \/ \E u \in Threads : thread'[u] # Idle /\ thread'[u].op = y.op
    BY DEF PutsAreCurrent, Op, Spared
  <2>1. y.op \in Ops
    BY DEF ExecInv, TypeOK, Put
  <2>2. /\ cache[y.op] = y.res
        /\ \/ reported[y.op] = y.res
           \/ \E u \in Threads : thread[u] # Idle /\ thread[u].op = y.op
    BY <1>3, <2>1 DEF ExecInv, Consistent, PutsAreCurrent, Op, Spared
  <2> QED
    BY <1>1, <1>2, <2>2 DEF Op
<1>8. MemoryIsTruthful'
  BY <1>4 DEF ExecInv, Consistent, MemoryIsTruthful
<1>9. NoDuplicateRule' /\ ResultsAgree'
  BY <1>3 DEF ExecInv, Consistent, NoDuplicateRule, ResultsAgree, Spared, Looks
<1>10. UnfitUntouched' /\ WorkingIsThere'
  BY DEF ExecInv, Consistent, UnfitUntouched, WorkingIsThere, Untouched
<1> QED
  BY <1>5, <1>6, <1>7, <1>8, <1>9, <1>10 DEF Consistent

\* Between the lookup and the return an attempt is the only trace of its change,
\* as long as its lease holds.
LEMMA Underway ==
    ASSUME ExecInv, NEW t \in Threads, thread[t] \in Attempt,
           thread[t].at \notin {"lookup", "return"}
    PROVE  /\ Op(t) \in fit
           /\ Truthful(Op(t), thread[t].res)
           /\ Spared(Op(t), {"lapsed"}) =>
                 /\ job[Op(t)] = "running" /\ reported[Op(t)] = "none"
                 /\ cache[Op(t)] = "none" /\ table[Op(t)] = "none"
                 /\ \A y \in puts : y.op # Op(t)
<1>1. AttemptOK(thread[t]) /\ thread[t] # Idle
  BY AttemptTypes DEF ExecInv, Consistent
<1> QED
  BY <1>1 DEF AttemptOK, AloneAtWork, Op

\* Where such an attempt may move: what is known of it holds there.
LEMMA UnderwayMoves ==
    ASSUME ExecInv, NEW t \in Threads, thread[t] \in Attempt,
           thread[t].at \notin {"lookup", "return"},
           NEW where, NEW res, where # "lookup",
           GotoWith(t, where, res),
           UNCHANGED <<fit, copies, working, job, cache, puts, table, reported>>,
           Looks(t),
           where = "return" => res = "raised",
           where = "send" => copies[Rule(t)] = 0 \/ "unseen" \in trouble'[Op(t)],
           NEW o, o = Op(t), Truthful(o, res)'
    PROVE  AttemptOK(thread[t])'
<1>1. o \in Ops /\ Rule(t) = RuleOf[o]
  BY AttemptTypes DEF Op, Rule
<1>2. thread'[t] = Placed(o, where, res)
  BY DEF GotoWith, ExecInv, TypeOK
<1>3. thread'[t].at = where /\ thread'[t].op = o /\ thread'[t].res = res
  BY <1>1, <1>2, PlacedTypes
<1>4. /\ o \in fit
      /\ Spared(o, {"lapsed"}) =>
            /\ job[o] = "running" /\ reported[o] = "none"
            /\ cache[o] = "none" /\ table[o] = "none"
            /\ \A y \in puts : y.op # o
  BY Underway
<1>5. Spared(o, {"lapsed"})' => Spared(o, {"lapsed"})
  BY <1>1 DEF Spared, Looks
<1>6. Spared(o, {"lapsed"})' => AloneAtWork(thread[t])'
  BY <1>1, <1>3, <1>4, <1>5 DEF AloneAtWork, Spared
<1> QED
  BY <1>3, <1>4, <1>6 DEF AttemptOK

\* Both in one: an attempt between the lookup and the return moves.
LEMMA WorkMoves ==
    ASSUME ExecInv, NEW t \in Threads, thread[t] \in Attempt,
           thread[t].at \notin {"lookup", "return"},
           NEW where, NEW res, where # "lookup",
           Placed(Op(t), where, res) \in Attempt,
           GotoWith(t, where, res),
           UNCHANGED <<fit, copies, working, job, cache, puts, table, reported>>,
           Looks(t),
           where = "return" => res = "raised",
           where = "send" => copies[Rule(t)] = 0 \/ "unseen" \in trouble'[Op(t)],
           NEW o, o = Op(t), Truthful(o, res)'
    PROVE  Consistent'
  BY UnderwayMoves, MoveStep

\* The lookup replays what is cached, refuses, or begins.
LEMMA LookupStep == ASSUME ExecInv, NEW t \in Threads, Lookup(t) PROVE Consistent'
<1>1. PICK o \in Ops : o = Op(t)
  BY Working DEF Lookup, At, ExecInv
<1>2. /\ thread[t] \in Attempt /\ thread[t] # Idle
      /\ thread[t].at = "lookup" /\ thread[t].res = "none"
  BY Working, AttemptTypes DEF Lookup, At, Undecided, ExecInv
<1>3. AttemptOK(thread[t])
  BY DEF ExecInv, Consistent
<1>4. Spared(o, {"lapsed"}) => AloneAtWork(thread[t])
  BY <1>1, <1>2, <1>3 DEF AttemptOK, Op
<1>5. /\ UNCHANGED <<fit, copies, working, job, cache, puts, table, reported, trouble>>
      /\ Looks(t)
  BY DEF Lookup, device, stored, Looks
<1>6. ASSUME NEW where, NEW res, GotoWith(t, where, res), Placed(o, where, res) \in Attempt,
             where \in {"return", "reset1"},
             where = "reset1" => o \in fit /\ cache[o] = "none",
             where = "return" => \/ o \in fit /\ res = cache[o]
                                 \/ o \notin fit /\ res = "refused",
             Truthful(o, res)
      PROVE  Consistent'
  <2>1. thread'[t] = Placed(o, where, res)
    BY <1>1, <1>6 DEF GotoWith, ExecInv, TypeOK
  <2>2. thread'[t].at = where /\ thread'[t].op = o /\ thread'[t].res = res
    BY <2>1, PlacedTypes
  <2>3. Truthful(o, res)'
    BY <1>5, <1>6 DEF Truthful, Untouched, Spared
  <2>4. Spared(o, {"lapsed"})' => AloneAtWork(thread[t])'
    BY <1>1, <1>2, <1>4, <1>5, <1>6, <2>2 DEF AloneAtWork, Spared, Op
  <2>5. AttemptOK(thread[t])'
    BY <1>5, <1>6, <2>2, <2>3, <2>4 DEF AttemptOK
  <2> QED
    BY <1>1, <1>2, <1>5, <1>6, <2>5, MoveStep
<1>7. CASE cache[o] # "none"
  <2>1. cache[o] \in Outcomes
    BY <1>7 DEF ExecInv, TypeOK
  <2>2. o \in fit /\ Truthful(o, cache[o])
    BY <1>7 DEF ExecInv, Consistent, UnfitUntouched, MemoryIsTruthful
  <2>3. Placed(o, "return", cache[o]) \in Attempt
    BY <2>1, PlacedTypes
  <2>4. GotoWith(t, "return", cache[o])
    BY <1>1, <1>7 DEF Lookup
  <2> QED
    BY <1>6, <2>2, <2>3, <2>4
<1>8. CASE cache[o] = "none" /\ o \notin fit
  <2>1. Truthful(o, "refused")
    BY <1>8 DEF ExecInv, Consistent, UnfitUntouched, Truthful
  <2>2. Placed(o, "return", "refused") \in Attempt
    BY PlacedTypes DEF Outcomes
  <2>3. GotoWith(t, "return", "refused")
    BY <1>1, <1>8 DEF Lookup
  <2> QED
    BY <1>6, <1>8, <2>1, <2>2, <2>3
<1>9. CASE cache[o] = "none" /\ o \in fit
  <2>1. Truthful(o, "none")
    BY DEF Truthful
  <2>2. Placed(o, "reset1", "none") \in Attempt
    BY PlacedTypes DEF Undecided
  <2>3. GotoWith(t, "reset1", "none")
    BY <1>1, <1>2, <1>9 DEF Lookup, Goto
  <2> QED
    BY <1>6, <1>9, <2>1, <2>2, <2>3
<1> QED
  BY <1>7, <1>8, <1>9

\* Where a look at the device leads; an outcome it decides is so, or the change
\* is misjudged.
LEMMA LookStep ==
    ASSUME ExecInv, NEW t \in Threads, Check(t) \/ Verify(t) \/ VerifyUndo(t)
    PROVE  Consistent'
<1>1. PICK o \in Ops : o = Op(t)
  BY Working DEF Check, Verify, VerifyUndo, At, ExecInv
<1>2. /\ thread[t] \in Attempt /\ Rule(t) = RuleOf[o] /\ RuleOf[o] \in Rules
      /\ thread[t].res = "none" /\ thread[t].at \in {"check", "verify", "verify_undo"}
  BY <1>1, Working, AttemptTypes DEF Check, Verify, VerifyUndo, At, Undecided, ExecInv, Rule
<1>3. UNCHANGED <<fit, copies, working, job, cache, puts, table, reported>>
  BY DEF Check, Verify, VerifyUndo, device, stored
<1>4. trouble \in [Ops -> SUBSET Troubles] /\ copies[RuleOf[o]] \in Nat
  BY <1>2 DEF ExecInv, TypeOK
<1>5. /\ trouble' = trouble => Looks(t)
      /\ trouble' = Add(Op(t), "unseen") => Looks(t)
      /\ trouble' = Add(Op(t), "misjudged") => Looks(t)
  BY LooksMark DEF ExecInv
<1>6. ASSUME NEW where \in {"send", "verify", "undo"}, Goto(t, where), Looks(t),
             where = "send" => copies[RuleOf[o]] = 0 \/ "unseen" \in trouble'[o]
      PROVE  Consistent'
  <2>1. GotoWith(t, where, "none") /\ Placed(o, where, "none") \in Attempt
    BY <1>2, <1>6, PlacedTypes DEF Goto, Undecided
  <2>2. Truthful(o, "none")'
    BY DEF Truthful
  <2> QED
    BY <1>1, <1>2, <1>3, <1>6, <2>1, <2>2, WorkMoves
<1>7. ASSUME NEW res \in Outcomes, GotoWith(t, "close1", res), Looks(t), Truthful(o, res)'
      PROVE  Consistent'
  <2>1. Placed(o, "close1", res) \in Attempt
    BY PlacedTypes DEF Closing
  <2> QED
    BY <1>1, <1>2, <1>3, <1>7, <2>1, WorkMoves
<1>8. ASSUME Revert(t), UNCHANGED trouble PROVE Consistent'
  <2>1. CASE Goto(t, "undo")
    BY <1>5, <1>6, <1>8, <2>1
  <2>2. CASE GotoWith(t, "close1", "rollback_failed")
    <3>1. Truthful(o, "rollback_failed")'
      BY DEF Truthful
    <3> QED
      BY <1>5, <1>7, <1>8, <2>2, <3>1 DEF Outcomes
  <2> QED
    BY <1>8, <2>1, <2>2 DEF Revert
<1>9. CASE Check(t)
  <2>1. CASE Goto(t, "verify") /\ UNCHANGED trouble
    BY <1>5, <1>6, <2>1
  <2>2. CASE /\ Goto(t, "send")
             /\ trouble' = IF copies[Rule(t)] > 0 THEN Add(Op(t), "unseen") ELSE trouble
    <3>1. copies[RuleOf[o]] = 0 \/ "unseen" \in trouble'[o]
      BY <1>1, <1>2, <1>4, <2>2 DEF Add
    <3> QED
      BY <1>5, <1>6, <2>2, <3>1
  <2> QED
    BY <1>9, <2>1, <2>2 DEF Check
<1>10. CASE Verify(t)
  <2>1. CASE /\ GotoWith(t, "close1", "applied")
             /\ trouble' = IF Rule(t) \in working THEN trouble ELSE Add(Op(t), "misjudged")
    <3>1. Truthful(o, "applied")'
      BY <1>1, <1>2, <1>3, <1>4, <2>1 DEF Truthful, Spared, Add
    <3> QED
      BY <1>5, <1>7, <2>1, <3>1 DEF Outcomes
  <2> QED
    BY <1>8, <1>10, <2>1 DEF Verify
<1>11. CASE VerifyUndo(t)
  <2>1. CASE /\ GotoWith(t, "close1", "rolled_back")
             /\ trouble' = IF copies[Rule(t)] > 0 THEN Add(Op(t), "misjudged") ELSE trouble
    <3>1. CASE copies[RuleOf[o]] = 0
      <4>1. RuleOf[o] \notin working
        BY <3>1 DEF ExecInv, Consistent, WorkingIsThere
      <4>2. Truthful(o, "rolled_back")'
        BY <1>2, <1>3, <3>1, <4>1 DEF Truthful, Untouched, Before
      <4> QED
        BY <1>5, <1>7, <2>1, <4>2 DEF Outcomes
    <3>2. CASE copies[RuleOf[o]] # 0
      <4>1. trouble' = Add(Op(t), "misjudged")
        BY <1>2, <1>4, <2>1, <3>2
      <4>2. Truthful(o, "rolled_back")'
        BY <1>1, <1>4, <4>1 DEF Truthful, Spared, Add
      <4> QED
        BY <1>5, <1>7, <2>1, <4>1, <4>2 DEF Outcomes
    <3> QED
      BY <3>1, <3>2
  <2>2. CASE GotoWith(t, "close1", "rollback_failed") /\ UNCHANGED trouble
    <3>1. Truthful(o, "rollback_failed")'
      BY DEF Truthful
    <3> QED
      BY <1>5, <1>7, <2>2, <3>1 DEF Outcomes
  <2> QED
    BY <1>11, <2>1, <2>2 DEF VerifyUndo
<1> QED
  BY <1>9, <1>10, <1>11

\* The steps that leave the device, what is seen of it and every memory of the
\* change alone.
LEMMA AsideStep ==
    ASSUME ExecInv, NEW t \in Threads, Reset(t) \/ ReadError(t) \/ Close(t) \/ Clear(t)
    PROVE  Consistent'
<1>1. PICK o \in Ops : o = Op(t)
  BY Working DEF Reset, ReadError, Close, Clear, At, ExecInv
<1>2. /\ thread[t] \in Attempt
      /\ thread[t].at \notin {"lookup", "return"}
      /\ thread[t].at \in Undecided => thread[t].res = "none"
      /\ thread[t].at \in Closing => thread[t].res \in Outcomes \cup {"raised"}
  BY Working, AttemptTypes DEF Reset, ReadError, Close, Clear, At, ExecInv
<1>3. /\ UNCHANGED <<fit, copies, working, job, cache, puts, table, reported, trouble>>
      /\ Looks(t)
  BY DEF Reset, ReadError, Close, Clear, device, stored, Looks
<1>4. ASSUME NEW where, NEW res, GotoWith(t, where, res), where \notin {"lookup", "send"},
             where = "return" => res = "raised",
             Truthful(o, res), Placed(o, where, res) \in Attempt
      PROVE  Consistent'
  <2>1. Truthful(o, res)'
    BY <1>3, <1>4 DEF Truthful, Untouched, Spared
  <2> QED
    BY <1>1, <1>2, <1>3, <1>4, <2>1, WorkMoves
<1>5. Truthful(o, "none") /\ Truthful(o, "raised")
  BY DEF Truthful
<1>6. Truthful(o, thread[t].res)
  BY <1>1, <1>2, Underway
<1>7. CASE Reset(t)
  <2>1. \A w \in {"reset2", "check"} : Placed(o, w, "none") \in Attempt
    BY PlacedTypes DEF Undecided
  <2>2. thread[t].res = "none"
    BY <1>2, <1>7 DEF Reset, At, Undecided
  <2> QED
    BY <1>4, <1>5, <1>7, <2>1, <2>2 DEF Reset, Goto
<1>8. CASE ReadError(t)
  <2>1. Placed(o, "close1", "raised") \in Attempt
    BY PlacedTypes DEF Closing
  <2> QED
    BY <1>4, <1>5, <1>8, <2>1 DEF ReadError
<1>9. CASE Close(t)
  <2>1. thread[t].res \in Outcomes \cup {"raised"}
    BY <1>2, <1>9 DEF Close, At, Closing
  <2>2. \A w \in {"clear1", "clear2"} : Placed(o, w, thread[t].res) \in Attempt
    BY <2>1, PlacedTypes DEF Closing
  <2> QED
    BY <1>4, <1>6, <1>9, <2>2 DEF Close, Goto
<1>10. CASE Clear(t)
  <2>1. thread[t].res \in Outcomes \cup {"raised"}
    BY <1>2, <1>10 DEF Clear, At, Closing
  <2>2. CASE Goto(t, "close2")
    <3>1. Placed(o, "close2", thread[t].res) \in Attempt
      BY <2>1, PlacedTypes DEF Closing
    <3> QED
      BY <1>4, <1>6, <2>2, <3>1 DEF Goto
  <2>3. CASE Goto(t, "return") /\ thread[t].res = "raised"
    <3>1. Placed(o, "return", "raised") \in Attempt
      BY PlacedTypes
    <3> QED
      BY <1>4, <1>5, <2>3, <3>1 DEF Goto
  <2>4. CASE Goto(t, "store") /\ thread[t].res # "raised"
    <3>1. Placed(o, "store", thread[t].res) \in Attempt
      BY <2>1, <2>4, PlacedTypes
    <3> QED
      BY <1>4, <1>6, <2>4, <3>1 DEF Goto
  <2> QED
    BY <1>10, <2>2, <2>3, <2>4 DEF Clear
<1> QED
  BY <1>7, <1>8, <1>9, <1>10

\* What a command does to the rule of another change: nothing, or it takes a copy
\* away and the change is struck.
Taken(o, p) ==
    /\ p \in SharesNumber[o]
    /\ trouble'[p] = trouble[p] \cup {"struck"}
    /\ copies[RuleOf[p]] > 0
    /\ copies'[RuleOf[p]] = copies[RuleOf[p]] - 1
    /\ RuleOf[p] \in working' => RuleOf[p] \in working

Left(p) ==
    /\ trouble'[p] = trouble[p]
    /\ copies'[RuleOf[p]] = copies[RuleOf[p]]
    /\ RuleOf[p] \in working' <=> RuleOf[p] \in working

LEMMA CommandDoes ==
    ASSUME TypeOK, DistinctRules, NEW t \in Threads, Send(t) \/ Undo(t),
           NEW o \in Ops, o = Op(t)
    PROVE  /\ trouble'[o] = trouble[o]
           /\ copies'[RuleOf[o]] <= copies[RuleOf[o]] + 1
           /\ Undo(t) => copies'[RuleOf[o]] <= copies[RuleOf[o]]
           /\ \A p \in Ops \ {o} : Left(p) \/ Taken(o, p)
           /\ WorkingIsThere => WorkingIsThere'
<1>1. /\ Rule(t) = RuleOf[o] /\ RuleOf[o] \in Rules
      /\ copies \in [Rules -> Nat] /\ trouble \in [Ops -> SUBSET Troubles]
      /\ working \subseteq Rules
      /\ copies[RuleOf[o]] \in Nat
  BY ExecutionAssumption DEF Rule, TypeOK
<1>2. \A p \in Ops \ {o} : RuleOf[p] \in Rules \ {RuleOf[o]}
  BY ExecutionAssumption DEF DistinctRules
<1>3. CASE UNCHANGED <<copies, working, trouble>>
  <2>1. \A p \in Ops : Left(p)
    BY <1>3 DEF Left
  <2> QED
    BY <1>1, <1>3, <2>1 DEF WorkingIsThere
<1>4. CASE /\ Send(t)
           /\ copies' = [copies EXCEPT ![Rule(t)] = @ + 1]
           /\ working' \in {working, working \cup {Rule(t)}}
           /\ UNCHANGED trouble
  <2>1. \A p \in Ops \ {o} : Left(p)
    BY <1>1, <1>2, <1>4 DEF Left
  <2>2. ~Undo(t)
    BY <1>4 DEF Send, Undo, At
  <2>3. WorkingIsThere => WorkingIsThere'
    BY <1>1, <1>4 DEF WorkingIsThere
  <2> QED
    BY <1>1, <1>4, <2>1, <2>2, <2>3
<1>5. ASSUME NEW s \in SameNumber(Rule(t)), s # Rule(t), Struck(s), copies[s] > 0,
             copies'[s] = copies[s] - 1,
             \A r \in Rules \ {s, Rule(t)} : copies'[r] = copies[r],
             \A r \in Rules \ {s, Rule(t)} : r \in working' <=> r \in working,
             s \in working' => s \in working
      PROVE  /\ trouble'[o] = trouble[o]
             /\ \A p \in Ops \ {o} : Left(p) \/ Taken(o, p)
  <2>1. trouble'[o] = trouble[o]
    BY <1>1, <1>5 DEF Struck
  <2>2. ASSUME NEW p \in Ops \ {o}, RuleOf[p] = s PROVE Taken(o, p)
    <3>1. p \in SharesNumber[o]
      BY <1>1, <1>5, <2>2 DEF SharesNumber, SameNumber
    <3>2. trouble'[p] = trouble[p] \cup {"struck"}
      BY <1>5, <2>2 DEF Struck
    <3> QED
      BY <1>5, <2>2, <3>1, <3>2 DEF Taken
  <2>3. ASSUME NEW p \in Ops \ {o}, RuleOf[p] # s PROVE Left(p)
    <3>1. trouble'[p] = trouble[p]
      BY <1>5, <2>3 DEF Struck
    <3> QED
      BY <1>1, <1>2, <1>5, <2>3, <3>1 DEF Left
  <2> QED
    BY <2>1, <2>2, <2>3
<1>6. ASSUME NEW s \in SameNumber(Rule(t)) \ {Rule(t)}, Send(t),
             copies[s] > 0,
             copies' = [copies EXCEPT ![Rule(t)] = @ + 1, ![s] = @ - 1],
             NEW left \in WorkingWithout(s), working' \in {left, left \cup {Rule(t)}},
             Struck(s)
      PROVE  /\ trouble'[o] = trouble[o]
             /\ copies'[RuleOf[o]] <= copies[RuleOf[o]] + 1
             /\ Undo(t) => copies'[RuleOf[o]] <= copies[RuleOf[o]]
             /\ \A p \in Ops \ {o} : Left(p) \/ Taken(o, p)
             /\ WorkingIsThere => WorkingIsThere'
  <2>1. s \in Rules /\ s # RuleOf[o] /\ copies[s] \in Nat
    BY <1>1, <1>6 DEF SameNumber
  <2>2. /\ copies'[s] = copies[s] - 1 /\ copies'[RuleOf[o]] = copies[RuleOf[o]] + 1
        /\ \A r \in Rules \ {s, RuleOf[o]} : copies'[r] = copies[r]
    BY <1>1, <1>6, <2>1
  <2>3. /\ \A r \in Rules \ {s, RuleOf[o]} : r \in working' <=> r \in working
        /\ s \in working' => s \in working /\ copies[s] > 1
        /\ working' \subseteq Rules
    BY <1>1, <1>6, <2>1 DEF WorkingWithout
  <2>4. ~Undo(t)
    BY <1>6 DEF Send, Undo, At
  <2>5. WorkingIsThere => WorkingIsThere'
    BY <1>1, <2>1, <2>2, <2>3 DEF WorkingIsThere
  <2> QED
    BY <1>1, <1>5, <1>6, <2>1, <2>2, <2>3, <2>4, <2>5
<1>7. ASSUME NEW s \in SameNumber(Rule(t)), copies[s] > 0,
             copies' = [copies EXCEPT ![s] = @ - 1], working' \in WorkingWithout(s),
             IF s = Rule(t) THEN UNCHANGED trouble ELSE Struck(s)
      PROVE  /\ trouble'[o] = trouble[o]
             /\ copies'[RuleOf[o]] <= copies[RuleOf[o]]
             /\ \A p \in Ops \ {o} : Left(p) \/ Taken(o, p)
             /\ WorkingIsThere => WorkingIsThere'
  <2>1. s \in Rules /\ copies[s] \in Nat
    BY <1>1, <1>7 DEF SameNumber
  <2>2. copies'[s] = copies[s] - 1 /\ \A r \in Rules \ {s} : copies'[r] = copies[r]
    BY <1>1, <1>7, <2>1
  <2>3. /\ \A r \in Rules \ {s} : r \in working' <=> r \in working
        /\ s \in working' => s \in working /\ copies[s] > 1
        /\ working' \subseteq Rules
    BY <1>1, <1>7, <2>1 DEF WorkingWithout
  <2>4. WorkingIsThere => WorkingIsThere'
    BY <2>1, <2>2, <2>3 DEF WorkingIsThere
  <2>5. copies'[RuleOf[o]] <= copies[RuleOf[o]]
    BY <1>1, <2>1, <2>2
  <2>6. CASE s = Rule(t)
    <3>1. \A p \in Ops \ {o} : Left(p)
      BY <1>1, <1>2, <1>7, <2>2, <2>3, <2>6 DEF Left
    <3> QED
      BY <1>7, <2>4, <2>5, <2>6, <3>1
  <2>7. CASE s # Rule(t)
    BY <1>5, <1>7, <2>2, <2>3, <2>4, <2>5, <2>7
  <2> QED
    BY <2>6, <2>7
<1>8. CASE Land(Rule(t)) /\ Send(t)
  BY <1>4, <1>6, <1>8 DEF Land
<1>9. CASE Remove(Rule(t))
  <2>1. copies'[RuleOf[o]] <= copies[RuleOf[o]] => copies'[RuleOf[o]] <= copies[RuleOf[o]] + 1
    <3>1. copies'[RuleOf[o]] \in Nat
      BY <1>1, CommandTypes
    <3> QED
      BY <1>1, <3>1
  <2> QED
    BY <1>7, <1>9, <2>1 DEF Remove
<1> QED
  BY <1>3, <1>8, <1>9 DEF Send, Undo, Ignore, NotConnected, device

\* A command changes the device for the rule of one change, of which nobody
\* remembers anything yet, and may strike the rules of others.
LEMMA DeviceStep ==
    ASSUME ExecInv, DistinctRules, NEW t \in Threads, Send(t) \/ Undo(t)
    PROVE  Consistent'
<1>1. PICK o \in Ops : o = Op(t)
  BY Working DEF Send, Undo, At, ExecInv
<1>2. /\ thread[t] \in Attempt /\ thread[t].res = "none" /\ Rule(t) = RuleOf[o]
      /\ thread[t].at \in {"send", "undo"} /\ thread[t] # Idle
  BY <1>1, Working, AttemptTypes DEF Send, Undo, At, ExecInv, Undecided, Rule
<1>3. UNCHANGED <<fit, job, cache, puts, table, reported>>
  BY DEF Send, Undo, Connected, NotConnected, stored
<1>4. PICK where \in {"verify", "undo", "verify_undo", "close1"},
           res \in {"none", "rollback_failed"} :
         GotoWith(t, where, res) /\ Placed(o, where, res) \in Attempt
  <2>1. \A w \in {"verify", "undo", "verify_undo"} : Placed(o, w, "none") \in Attempt
    BY PlacedTypes DEF Undecided
  <2>2. Placed(o, "close1", "rollback_failed") \in Attempt
    BY PlacedTypes DEF Closing, Outcomes
  <2> QED
    BY <1>2, <2>1, <2>2 DEF Send, Undo, Revert, Goto
<1>5. \A u \in Threads : thread'[u] = IF u = t THEN Placed(o, where, res) ELSE thread[u]
  BY <1>1, <1>4 DEF GotoWith, ExecInv, TypeOK
<1>6. /\ thread'[t].at = where /\ thread'[t].op = o /\ thread'[t].res = res
      /\ thread'[t] # Idle
  BY <1>4, <1>5, PlacedTypes, AttemptTypes
<1>7. /\ trouble'[o] = trouble[o]
      /\ copies'[RuleOf[o]] <= copies[RuleOf[o]] + 1
      /\ Undo(t) => copies'[RuleOf[o]] <= copies[RuleOf[o]]
      /\ \A p \in Ops \ {o} : Left(p) \/ Taken(o, p)
      /\ WorkingIsThere'
  <2>1. TypeOK /\ WorkingIsThere
    BY DEF ExecInv, Consistent
  <2> QED
    BY <1>1, <2>1, CommandDoes
<1>8. trouble \in [Ops -> SUBSET Troubles] /\ \A p \in Ops : copies[RuleOf[p]] \in Nat
  BY ExecutionAssumption DEF ExecInv, TypeOK
<1>9. \A p \in Ops : /\ trouble[p] \subseteq trouble'[p]
                     /\ "lapsed" \in trouble'[p] <=> "lapsed" \in trouble[p]
                     /\ "unseen" \in trouble'[p] <=> "unseen" \in trouble[p]
  BY <1>7 DEF Left, Taken
<1>10. /\ o \in fit
       /\ "lapsed" \notin trouble[o] =>
             /\ job[o] = "running" /\ reported[o] = "none"
             /\ cache[o] = "none" /\ table[o] = "none"
             /\ \A y \in puts : y.op # o
  BY <1>1, <1>2, Underway DEF Spared
<1>11. ASSUME NEW p \in Ops \ {o}, NEW r, Truthful(p, r) PROVE Truthful(p, r)'
  <2>1. RuleOf[p] \in working => RuleOf[p] \in working' \/ "struck" \in trouble'[p]
    BY <1>7 DEF Left, Taken
  <2>2. RuleOf[p] \notin Preexisting /\ Untouched(RuleOf[p]) => Untouched(RuleOf[p])'
    BY <1>7 DEF Left, Taken, Untouched, Before
  <2> QED
    BY <1>9, <1>11, <2>1, <2>2, TruthStays
<1>12. ASSUME NEW u \in Threads, u # t, thread[u] # Idle
       PROVE  /\ thread'[u] = thread[u] /\ AttemptOK(thread[u]) /\ thread[u].op \in Ops
              /\ thread[u].op = o => "lapsed" \in trouble[o]
  <2>1. thread'[u] = thread[u] /\ AttemptOK(thread[u]) /\ thread[u].op \in Ops
    BY <1>5, <1>12, Working DEF ExecInv, Consistent, Op
  <2>2. thread[u].op = o => "lapsed" \in trouble[o]
    BY <1>1, <1>2, <1>12 DEF ExecInv, Consistent, OneAttempt, Op, Spared
  <2> QED
    BY <2>1, <2>2
<1>13. AttemptOK(thread[t])'
  <2>1. Truthful(o, res)'
    BY <1>4 DEF Truthful
  <2>2. "lapsed" \notin trouble'[o] => AloneAtWork(thread[t])'
    BY <1>3, <1>4, <1>6, <1>9, <1>10 DEF AloneAtWork
  <2> QED
    BY <1>3, <1>6, <1>10, <2>1, <2>2 DEF AttemptOK, Spared
<1>14. ASSUME NEW u \in Threads, u # t, thread[u] # Idle PROVE AttemptOK(thread[u])'
  <2>1. CASE thread[u].op = o
    <3>1. "lapsed" \in trouble'[o]
      BY <1>9, <1>12, <1>14, <2>1
    <3>2. Truthful(o, thread[u].res)'
      BY <3>1 DEF Truthful, Spared
    <3> QED
      BY <1>3, <1>12, <1>14, <2>1, <3>1, <3>2 DEF AttemptOK, Spared
  <2>2. CASE thread[u].op # o
    <3>1. Truthful(thread[u].op, thread[u].res)'
      BY <1>11, <1>12, <1>14, <2>2 DEF AttemptOK
    <3>2. copies[RuleOf[thread[u].op]] = 0 => copies'[RuleOf[thread[u].op]] = 0
      BY <1>7, <1>12, <1>14, <2>2 DEF Left, Taken
    <3>3. AloneAtWork(thread[u]) => AloneAtWork(thread[u])'
      BY <1>3, <1>9, <1>12, <1>14, <3>2 DEF AloneAtWork, Spared
    <3> QED
      BY <1>3, <1>9, <1>12, <1>14, <3>1, <3>3 DEF AttemptOK, Spared
  <2> QED
    BY <2>1, <2>2
<1>15. \A u \in Threads : AttemptOK(thread[u])'
  <2>1. ASSUME NEW u \in Threads, u # t, thread[u] = Idle PROVE AttemptOK(thread[u])'
    BY <1>5, <2>1 DEF AttemptOK
  <2> QED
    BY <1>13, <1>14, <2>1
<1>16. \A u \in Threads : /\ thread'[u] # Idle <=> thread[u] # Idle
                          /\ thread[u] # Idle => thread'[u].op = thread[u].op
  BY <1>1, <1>2, <1>5, <1>6 DEF Op
<1>17. OneAttempt'
  <2> SUFFICES ASSUME NEW u \in Threads, NEW w \in Threads,
                      thread'[u] # Idle, thread'[w] # Idle, thread'[u].op = thread'[w].op,
                      "lapsed" \notin trouble'[thread'[u].op]
               PROVE  u = w
    BY DEF OneAttempt, Op, Spared
  <2>1. \A v \in {u, w} : thread[v] # Idle /\ thread[v].op = thread'[v].op
    BY <1>16
  <2>2. thread[u].op \in Ops
    BY <2>1, Working DEF ExecInv, Op
  <2> QED
    BY <1>9, <2>1, <2>2 DEF ExecInv, Consistent, OneAttempt, Op, Spared
<1>18. PutsAreCurrent'
  <2> SUFFICES ASSUME NEW y \in puts, "lapsed" \notin trouble'[y.op]
               PROVE  /\ cache[y.op] = y.res
                      /\ \/ reported[y.op] = y.res
                         \/ \E u \in Threads : thread'[u] # Idle /\ thread'[u].op = y.op
    BY <1>3 DEF PutsAreCurrent, Op, Spared
  <2>1. y.op \in Ops
    BY DEF ExecInv, TypeOK, Put
  <2>2. /\ cache[y.op] = y.res
        /\ \/ reported[y.op] = y.res
           \/ \E u \in Threads : thread[u] # Idle /\ thread[u].op = y.op
    BY <1>9, <2>1 DEF ExecInv, Consistent, PutsAreCurrent, Op, Spared
  <2> QED
    BY <1>16, <2>2
<1>19. MemoryIsTruthful'
  <2>1. ASSUME NEW p \in Ops \ {o}
        PROVE  /\ Truthful(p, cache[p])' /\ Truthful(p, table[p])'
               /\ Truthful(p, reported[p])'
    <3>1. Truthful(p, cache[p]) /\ Truthful(p, table[p]) /\ Truthful(p, reported[p])
      BY DEF ExecInv, Consistent, MemoryIsTruthful
    <3>2. Truthful(p, cache[p])'
      BY <1>3, <1>11, <3>1 DEF Truthful
    <3>3. Truthful(p, table[p])'
      BY <1>3, <1>11, <3>1 DEF Truthful
    <3>4. Truthful(p, reported[p])'
      BY <1>3, <1>11, <3>1 DEF Truthful
    <3> QED
      BY <3>2, <3>3, <3>4
  <2>2. /\ Truthful(o, cache[o])' /\ Truthful(o, table[o])'
        /\ Truthful(o, reported[o])'
    BY <1>3, <1>9, <1>10 DEF Truthful, Spared
  <2> QED
    BY <2>1, <2>2 DEF MemoryIsTruthful
<1>20. UnfitUntouched'
  <2>1. ASSUME NEW p \in Ops \ fit, RuleOf[p] \notin Preexisting PROVE Untouched(RuleOf[p])'
    <3>1. Untouched(RuleOf[p]) /\ p # o
      BY <1>10, <2>1 DEF ExecInv, Consistent, UnfitUntouched
    <3> QED
      BY <1>7, <2>1, <3>1 DEF Left, Taken, Untouched, Before
  <2> QED
    BY <1>3, <2>1 DEF ExecInv, Consistent, UnfitUntouched
<1>21. NoDuplicateRule'
  <2> SUFFICES ASSUME NEW p \in Ops, Spared(p, {"lapsed", "unseen"})'
               PROVE  copies'[RuleOf[p]] <= 1
    BY DEF NoDuplicateRule
  <2>1. "lapsed" \notin trouble[p] /\ "unseen" \notin trouble[p]
    BY <1>9 DEF Spared
  <2>2. copies[RuleOf[p]] <= 1
    BY <2>1 DEF ExecInv, Consistent, NoDuplicateRule, Spared
  <2>3. CASE p # o
    BY <1>7, <1>8, <2>2, <2>3 DEF Left, Taken
  <2>4. CASE p = o /\ Undo(t)
    <3>1. copies'[RuleOf[o]] \in Nat
      BY <1>1, <1>2, <2>4, CommandTypes, ExecutionAssumption DEF ExecInv
    <3> QED
      BY <1>7, <1>8, <2>2, <2>4, <3>1
  <2>5. CASE p = o /\ Send(t)
    <3>1. AttemptOK(thread[t]) /\ thread[t].at = "send"
      BY <2>5 DEF Send, At, ExecInv, Consistent
    <3>2. copies[RuleOf[o]] = 0
      BY <1>1, <1>2, <2>1, <2>5, <3>1 DEF AttemptOK, AloneAtWork, Op, Spared
    <3> QED
      BY <1>7, <2>5, <3>2
  <2> QED
    BY <2>3, <2>4, <2>5
<1>22. ResultsAgree'
  BY <1>3, <1>9 DEF ExecInv, Consistent, ResultsAgree, Spared
<1> QED
  BY <1>7, <1>15, <1>17, <1>18, <1>19, <1>20, <1>21, <1>22 DEF Consistent

\* What holds of the device goes on to hold when the device is left alone.
LEMMA DeviceKept ==
    ASSUME ExecInv, UNCHANGED <<copies, working, trouble>>
    PROVE  /\ WorkingIsThere' /\ NoDuplicateRule'
           /\ \A o \in Ops : \A res : Truthful(o, res) => Truthful(o, res)'
<1>1. WorkingIsThere' /\ NoDuplicateRule'
  BY DEF ExecInv, Consistent, WorkingIsThere, NoDuplicateRule, Spared
<1> QED
  BY <1>1 DEF Truthful, Untouched, Spared

\* A new attempt finds in the cache whatever the table has.
LEMMA BeginStep ==
    ASSUME ExecInv, NEW t \in Threads, NEW o \in Ops, Begin(t, o)
    PROVE  Consistent'
<1> DEFINE x == Placed(o, "lookup", "none")
<1>1. x.op = o /\ x # Idle /\ x.at = "lookup" /\ x.res = "none"
  BY PlacedTypes, AttemptTypes DEF Undecided
<1>2. \A u \in Threads : thread'[u] = IF u = t THEN x ELSE thread[u]
  BY DEF Begin, ExecInv, TypeOK
<1>3. \A u \in Threads : thread[u] # Idle =>
         thread[u].op \in Ops /\ (thread[u].op = o => "lapsed" \in trouble[o])
  <2> SUFFICES ASSUME NEW u \in Threads, thread[u] # Idle
               PROVE  thread[u].op \in Ops /\ (thread[u].op = o => "lapsed" \in trouble[o])
    OBVIOUS
  <2>1. AttemptOK(thread[u])
    BY DEF ExecInv, Consistent
  <2>2. "lapsed" \notin trouble[thread[u].op] => job[thread[u].op] = "running"
    BY <2>1 DEF AttemptOK, AloneAtWork, Spared
  <2> QED
    BY <2>2, Working DEF Begin, ExecInv, Op
<1>4. thread[t] = Idle
  BY Working, AttemptTypes DEF Begin, ExecInv, At, Undecided, Closing
<1>5. \A y \in puts : y.op = o => "lapsed" \in trouble[o]
  <2> SUFFICES ASSUME NEW y \in puts, y.op = o, "lapsed" \notin trouble[o] PROVE FALSE
    OBVIOUS
  <2>1. y.res # "none"
    BY DEF ExecInv, TypeOK, Put, Outcomes
  <2>2. \/ reported[o] = y.res
        \/ \E u \in Threads : thread[u] # Idle /\ thread[u].op = o
    BY DEF ExecInv, Consistent, PutsAreCurrent, Spared, Op
  <2> QED
    BY <1>3, <2>1, <2>2 DEF Begin
<1>6. /\ job' = [job EXCEPT ![o] = "running"] /\ job'[o] = "running"
      /\ \A p \in Ops \ {o} : job'[p] = job[p] /\ cache'[p] = cache[p]
      /\ cache'[o] = IF cache[o] = "none" THEN table[o] ELSE cache[o]
      /\ reported[o] = "none"
  BY DEF Begin, ExecInv, TypeOK
<1>7. UNCHANGED <<fit, copies, working, puts, table, reported, trouble>>
  BY DEF Begin, device
<1> HIDE DEF x
<1>8. \A u \in Threads : AttemptOK(thread[u])'
  <2> SUFFICES ASSUME NEW u \in Threads PROVE AttemptOK(thread[u])'
    OBVIOUS
  <2>1. CASE u = t
    <3>1. thread'[u] = x
      BY <1>2, <2>1
    <3>2. "lapsed" \notin trouble[o] => table[o] \in {"none", cache'[o]}
      BY <1>6 DEF ExecInv, Consistent, ResultsAgree, Spared
    <3>3. "lapsed" \notin trouble[o] => AloneAtWork(thread[u])'
      BY <1>1, <1>5, <1>6, <1>7, <3>1, <3>2 DEF AloneAtWork
    <3>4. Truthful(o, "none")'
      BY DEF Truthful
    <3> QED
      BY <1>1, <1>7, <3>1, <3>3, <3>4 DEF AttemptOK, Spared
  <2>2. CASE u # t
    <3>1. thread'[u] = thread[u] /\ AttemptOK(thread[u])
      BY <1>2, <2>2 DEF ExecInv, Consistent
    <3>2. CASE thread[u] = Idle
      BY <3>1, <3>2 DEF AttemptOK
    <3>3. CASE thread[u] # Idle
      <4>1. Truthful(thread[u].op, thread[u].res)'
        BY <1>3, <1>7, <3>1, <3>3, DeviceKept DEF AttemptOK
      <4>2. "lapsed" \notin trouble[thread[u].op] => AloneAtWork(thread[u])'
        <5> SUFFICES ASSUME "lapsed" \notin trouble[thread[u].op]
                     PROVE  AloneAtWork(thread[u])'
          OBVIOUS
        <5>1. thread[u].op \in Ops \ {o} /\ AloneAtWork(thread[u])
          BY <1>3, <3>1, <3>3 DEF AttemptOK, Spared
        <5> QED
          BY <1>6, <1>7, <3>1, <5>1 DEF AloneAtWork, Spared
      <4> QED
        BY <1>7, <3>1, <3>3, <4>1, <4>2 DEF AttemptOK, Spared
    <3> QED
      BY <3>2, <3>3
  <2> QED
    BY <2>1, <2>2
<1>9. OneAttempt'
  BY <1>1, <1>2, <1>3, <1>7 DEF ExecInv, Consistent, OneAttempt, Op, Spared
<1>10. PutsAreCurrent'
  <2> SUFFICES ASSUME NEW y \in puts', "lapsed" \notin trouble'[y.op]
               PROVE  /\ cache'[y.op] = y.res
                      /\ \/ reported'[y.op] = y.res
                         \/ \E u \in Threads : thread'[u] # Idle /\ thread'[u].op = y.op
    BY DEF PutsAreCurrent, Op, Spared
  <2>1. y \in puts /\ y.op \in Ops \ {o}
    BY <1>5, <1>7 DEF ExecInv, TypeOK, Put
  <2>2. /\ cache[y.op] = y.res
        /\ \/ reported[y.op] = y.res
           \/ \E u \in Threads : thread[u] # Idle /\ thread[u].op = y.op
    BY <1>7, <2>1 DEF ExecInv, Consistent, PutsAreCurrent, Op, Spared
  <2> QED
    BY <1>2, <1>4, <1>6, <1>7, <2>1, <2>2
<1>11. MemoryIsTruthful'
  BY <1>6, <1>7, DeviceKept DEF ExecInv, Consistent, MemoryIsTruthful
<1>12. UnfitUntouched' /\ ResultsAgree'
  BY <1>6, <1>7 DEF ExecInv, Consistent, UnfitUntouched, ResultsAgree, Untouched, Spared
<1> QED
  BY <1>7, <1>8, <1>9, <1>10, <1>11, <1>12, DeviceKept DEF Consistent

\* The stored outcome is the first that anything remembers of the change.
LEMMA StoreStep ==
    ASSUME ExecInv, NEW t \in Threads, Store(t)
    PROVE  Consistent'
<1>1. PICK o \in Ops, res \in Outcomes : o = Op(t) /\ res = thread[t].res
  BY Working, AttemptTypes DEF Store, At, ExecInv
<1>2. thread[t] \in Attempt /\ thread[t] # Idle /\ thread[t].at = "store"
  BY Working, AttemptTypes DEF Store, At, ExecInv
<1>3. /\ o \in fit /\ Truthful(o, res)
      /\ "lapsed" \notin trouble[o] =>
            /\ job[o] = "running" /\ reported[o] = "none" /\ cache[o] = "none"
            /\ table[o] = "none" /\ (\A y \in puts : y.op # o)
  BY <1>1, <1>2, Underway DEF Spared
<1>4. PICK last \in {res, "raised"} :
        /\ GotoWith(t, "return", last)
        /\ \/ last = res /\ puts' = puts \cup {[op |-> o, res |-> res]}
           \/ last = "raised" /\ puts' = puts
  BY <1>1 DEF Store, Goto
<1> DEFINE x == Placed(o, "return", last)
<1>5. x.op = o /\ x # Idle /\ x.at = "return" /\ x.res = last
  BY PlacedTypes, AttemptTypes
<1>6. \A u \in Threads : thread'[u] = IF u = t THEN x ELSE thread[u]
  BY <1>1, <1>4 DEF GotoWith, ExecInv, TypeOK
<1>7. cache'[o] = res /\ \A p \in Ops \ {o} : cache'[p] = cache[p]
  BY <1>1 DEF Store, ExecInv, TypeOK
<1>8. UNCHANGED <<fit, copies, working, job, table, reported, trouble>>
  BY DEF Store, device
<1>9. \A y \in puts' : \/ y \in puts /\ y.op \in Ops
                       \/ y.op = o /\ y.res = res /\ last = res
  <2>1. \A y \in puts : y.op \in Ops
    BY DEF ExecInv, TypeOK, Put
  <2> QED
    BY <1>4, <2>1
<1>10. puts \subseteq puts'
  BY <1>4
<1> HIDE DEF x
<1>11. ASSUME NEW u \in Threads, u # t, thread[u] # Idle
       PROVE  /\ thread'[u] = thread[u] /\ AttemptOK(thread[u]) /\ thread[u].op \in Ops
              /\ thread[u].op = o => "lapsed" \in trouble[o]
  <2>1. thread'[u] = thread[u] /\ AttemptOK(thread[u]) /\ thread[u].op \in Ops
    BY <1>6, <1>11, Working DEF ExecInv, Consistent, Op
  <2>2. thread[u].op = o => "lapsed" \in trouble[o]
    BY <1>1, <1>2, <1>11 DEF ExecInv, Consistent, OneAttempt, Op, Spared
  <2> QED
    BY <2>1, <2>2
<1>12. AttemptOK(thread[t])'
  <2>1. thread'[t] = x
    BY <1>6
  <2>2. Truthful(o, last)'
    <3>1. Truthful(o, res)'
      BY <1>3, <1>8, DeviceKept
    <3>2. Truthful(o, "raised")'
      BY DEF Truthful
    <3> QED
      BY <3>1, <3>2
  <2>3. "lapsed" \notin trouble[o] => AloneAtWork(thread[t])'
    BY <1>3, <1>4, <1>5, <1>7, <1>8, <1>9, <2>1 DEF AloneAtWork
  <2> QED
    BY <1>5, <1>8, <2>1, <2>2, <2>3 DEF AttemptOK, Spared
<1>13. ASSUME NEW u \in Threads, u # t, thread[u] # Idle PROVE AttemptOK(thread[u])'
  <2>1. thread'[u] = thread[u] /\ AttemptOK(thread[u]) /\ thread[u].op \in Ops
    BY <1>11, <1>13
  <2>2. Truthful(thread[u].op, thread[u].res)'
    BY <1>8, <1>13, <2>1, DeviceKept DEF AttemptOK
  <2>3. "lapsed" \notin trouble[thread[u].op] => AloneAtWork(thread[u])'
    <3> SUFFICES ASSUME "lapsed" \notin trouble[thread[u].op] PROVE AloneAtWork(thread[u])'
      OBVIOUS
    <3>1. thread[u].op # o /\ AloneAtWork(thread[u])
      BY <1>11, <1>13, <2>1 DEF AttemptOK, Spared
    <3> QED
      BY <1>7, <1>8, <1>9, <2>1, <3>1 DEF AloneAtWork, Spared
  <2> QED
    BY <1>8, <1>13, <2>1, <2>2, <2>3 DEF AttemptOK, Spared
<1>14. \A u \in Threads : AttemptOK(thread[u])'
  <2>1. ASSUME NEW u \in Threads, u # t, thread[u] = Idle PROVE AttemptOK(thread[u])'
    BY <1>6, <2>1 DEF AttemptOK
  <2> QED
    BY <1>12, <1>13, <2>1
<1>15. OneAttempt'
  BY <1>1, <1>2, <1>5, <1>6, <1>8 DEF ExecInv, Consistent, OneAttempt, Op, Spared
<1>16. PutsAreCurrent'
  <2> SUFFICES ASSUME NEW y \in puts', "lapsed" \notin trouble[y.op]
               PROVE  /\ cache'[y.op] = y.res
                      /\ \/ reported[y.op] = y.res
                         \/ \E u \in Threads : thread'[u] # Idle /\ thread'[u].op = y.op
    BY <1>8 DEF PutsAreCurrent, Op, Spared
  <2>1. CASE y.op = o
    <3>1. y.res = res
      BY <1>3, <1>9, <2>1
    <3> QED
      BY <1>5, <1>6, <1>7, <2>1, <3>1
  <2>2. CASE y.op # o
    <3>1. y \in puts /\ y.op \in Ops
      BY <1>9, <2>2
    <3>2. /\ cache[y.op] = y.res
          /\ \/ reported[y.op] = y.res
             \/ \E u \in Threads : thread[u] # Idle /\ thread[u].op = y.op
      BY <3>1 DEF ExecInv, Consistent, PutsAreCurrent, Op, Spared
    <3> QED
      BY <1>1, <1>6, <1>7, <2>2, <3>1, <3>2 DEF Op
  <2> QED
    BY <2>1, <2>2
<1>17. MemoryIsTruthful'
  <2> SUFFICES ASSUME NEW p \in Ops
               PROVE  /\ Truthful(p, cache[p])' /\ Truthful(p, table[p])'
                      /\ Truthful(p, reported[p])'
    BY DEF MemoryIsTruthful
  <2>1. Truthful(p, cache[p]) /\ Truthful(p, table[p]) /\ Truthful(p, reported[p])
    BY DEF ExecInv, Consistent, MemoryIsTruthful
  <2> QED
    BY <1>3, <1>7, <1>8, <2>1 DEF Truthful, Untouched, Spared
<1>18. UnfitUntouched'
  BY <1>3, <1>7, <1>8, <1>9 DEF ExecInv, Consistent, UnfitUntouched, Untouched
<1>19. ResultsAgree'
  BY <1>3, <1>7, <1>8 DEF ExecInv, Consistent, ResultsAgree, Spared
<1> QED
  BY <1>8, <1>14, <1>15, <1>16, <1>17, <1>18, <1>19, DeviceKept DEF Consistent

\* What a thread reports is what the cache has, or the guard's refusal.
LEMMA ReturnStep ==
    ASSUME ExecInv, NEW t \in Threads, Return(t)
    PROVE  Consistent'
<1>1. PICK o \in Ops, res \in Outcomes \cup {"raised"} : o = Op(t) /\ res = thread[t].res
  BY Working, AttemptTypes DEF Return, At, ExecInv
<1>2. /\ thread[t] \in Attempt /\ thread[t] # Idle /\ thread[t].at = "return"
      /\ AttemptOK(thread[t])
  BY Working, AttemptTypes DEF Return, At, ExecInv, Consistent
<1>3. /\ Truthful(o, res)
      /\ "lapsed" \notin trouble[o] =>
            /\ reported[o] = "none"
            /\ \/ res = "raised"
               \/ o \in fit /\ res = cache[o]
               \/ o \notin fit /\ res = "refused"
            /\ \A y \in puts : y.op = o => y.res = res
  BY <1>1, <1>2 DEF AttemptOK, AloneAtWork, Op, Spared
<1>4. \A u \in Threads : thread'[u] = IF u = t THEN Idle ELSE thread[u]
  BY DEF Return, ExecInv, TypeOK
<1>5. /\ reported'[o] = IF res = "raised" THEN reported[o] ELSE res
      /\ \A p \in Ops \ {o} : reported'[p] = reported[p] /\ job'[p] = job[p]
  BY <1>1 DEF Return, ExecInv, TypeOK
<1>6. UNCHANGED <<fit, copies, working, cache, puts, table, trouble>>
  BY DEF Return, device, stored
<1>7. \A y \in puts : y.op \in Ops /\ y.res # "raised"
  BY DEF ExecInv, TypeOK, Put, Outcomes
<1>8. \A u \in Threads \ {t} : thread[u] # Idle =>
         thread[u].op \in Ops /\ (thread[u].op = o => "lapsed" \in trouble[o])
  <2> SUFFICES ASSUME NEW u \in Threads, u # t, thread[u] # Idle
               PROVE  thread[u].op \in Ops /\ (thread[u].op = o => "lapsed" \in trouble[o])
    OBVIOUS
  <2>1. thread[u].op \in Ops
    BY Working DEF ExecInv, Op
  <2> QED
    BY <1>1, <1>2, <2>1 DEF ExecInv, Consistent, OneAttempt, Op, Spared
<1>9. \A u \in Threads : AttemptOK(thread[u])'
  <2> SUFFICES ASSUME NEW u \in Threads, thread'[u] # Idle PROVE AttemptOK(thread[u])'
    BY DEF AttemptOK
  <2>1. thread'[u] = thread[u] /\ AttemptOK(thread[u]) /\ thread[u].op \in Ops /\ u # t
    BY <1>4, <1>8 DEF ExecInv, Consistent
  <2>2. Truthful(thread[u].op, thread[u].res)'
    BY <1>6, <2>1, DeviceKept DEF AttemptOK
  <2>3. "lapsed" \notin trouble[thread[u].op] => AloneAtWork(thread[u])'
    <3> SUFFICES ASSUME "lapsed" \notin trouble[thread[u].op] PROVE AloneAtWork(thread[u])'
      OBVIOUS
    <3>1. thread[u].op # o /\ AloneAtWork(thread[u])
      BY <1>8, <2>1 DEF AttemptOK, Spared
    <3> QED
      BY <1>5, <1>6, <2>1, <3>1 DEF AloneAtWork, Spared
  <2> QED
    BY <1>6, <2>1, <2>2, <2>3 DEF AttemptOK, Spared
<1>10. OneAttempt'
  BY <1>4, <1>6 DEF ExecInv, Consistent, OneAttempt, Op, Spared
<1>11. PutsAreCurrent'
  <2> SUFFICES ASSUME NEW y \in puts, "lapsed" \notin trouble[y.op]
               PROVE  /\ cache[y.op] = y.res
                      /\ \/ reported'[y.op] = y.res
                         \/ \E u \in Threads : thread'[u] # Idle /\ thread'[u].op = y.op
    BY <1>6 DEF PutsAreCurrent, Op, Spared
  <2>1. /\ cache[y.op] = y.res
        /\ \/ reported[y.op] = y.res
           \/ \E u \in Threads : thread[u] # Idle /\ thread[u].op = y.op
    BY DEF ExecInv, Consistent, PutsAreCurrent, Op, Spared
  <2>2. CASE y.op = o
    BY <1>3, <1>5, <1>7, <2>1, <2>2
  <2>3. CASE y.op # o
    BY <1>1, <1>4, <1>5, <1>7, <2>1, <2>3 DEF Op
  <2> QED
    BY <2>2, <2>3
<1>12. MemoryIsTruthful'
  <2> SUFFICES ASSUME NEW p \in Ops
               PROVE  /\ Truthful(p, cache[p])' /\ Truthful(p, table[p])'
                      /\ Truthful(p, reported[p])'
    BY DEF MemoryIsTruthful
  <2>1. Truthful(p, cache[p]) /\ Truthful(p, table[p]) /\ Truthful(p, reported[p])
    BY DEF ExecInv, Consistent, MemoryIsTruthful
  <2> QED
    BY <1>3, <1>5, <1>6, <2>1 DEF Truthful, Untouched, Spared
<1>13. UnfitUntouched'
  BY <1>6 DEF ExecInv, Consistent, UnfitUntouched, Untouched
<1>14. ResultsAgree'
  <2> SUFFICES ASSUME NEW p \in Ops, "lapsed" \notin trouble[p]
               PROVE  /\ table[p] # "none" => cache[p] \in {"none", table[p]}
                      /\ table[p] # "none" => reported'[p] \in {"none", table[p]}
                      /\ cache[p] # "none" => reported'[p] \in {"none", cache[p]}
    BY <1>6 DEF ResultsAgree, Spared
  <2>1. /\ table[p] # "none" => cache[p] \in {"none", table[p]}
        /\ table[p] # "none" => reported[p] \in {"none", table[p]}
        /\ cache[p] # "none" => reported[p] \in {"none", cache[p]}
    BY DEF ExecInv, Consistent, ResultsAgree, Spared
  <2>2. p \notin fit => cache[p] = "none" /\ table[p] = "none"
    BY DEF ExecInv, Consistent, UnfitUntouched
  <2>3. res # "none"
    BY <1>1 DEF Outcomes
  <2> QED
    BY <1>3, <1>5, <2>1, <2>2, <2>3
<1> QED
  BY <1>6, <1>9, <1>10, <1>11, <1>12, <1>13, <1>14, DeviceKept DEF Consistent

\* What reaches the table is what the cache has.
LEMMA PersistStep ==
    ASSUME ExecInv, NEW x \in puts, Persist(x)
    PROVE  Consistent'
<1>1. /\ x.op \in Ops /\ x.op \in fit /\ x.res \in Outcomes /\ x.res # "none"
      /\ "lapsed" \notin trouble[x.op] => cache[x.op] = x.res
  BY DEF ExecInv, TypeOK, Put, Outcomes, Consistent, PutsAreCurrent, UnfitUntouched, Spared
<1>2. /\ table'[x.op] \in {table[x.op], x.res}
      /\ table[x.op] # "none" => table'[x.op] = table[x.op]
      /\ \A p \in Ops \ {x.op} : table'[p] = table[p]
  BY <1>1 DEF Persist, ExecInv, TypeOK
<1>3. /\ UNCHANGED <<fit, copies, working, job, thread, cache, reported, trouble>>
      /\ puts' \subseteq puts
  BY DEF Persist, device
<1>4. ASSUME NEW u \in Threads PROVE AttemptOK(thread[u])'
  <2>1. AttemptOK(thread[u])
    BY DEF ExecInv, Consistent
  <2>2. CASE thread[u] = Idle
    BY <1>3, <2>2 DEF AttemptOK
  <2>3. CASE thread[u] # Idle
    <3>1. thread[u].op \in Ops /\ thread'[u] = thread[u]
      BY <1>3, <2>3, Working DEF ExecInv, Op
    <3>2. Truthful(thread[u].op, thread[u].res)'
      BY <1>3, <2>1, <2>3, <3>1, DeviceKept DEF AttemptOK
    <3>3. "lapsed" \notin trouble[thread[u].op] => AloneAtWork(thread[u])'
      <4> SUFFICES ASSUME "lapsed" \notin trouble[thread[u].op]
                   PROVE  AloneAtWork(thread[u])'
        OBVIOUS
      <4>1. AloneAtWork(thread[u])
        BY <2>1, <2>3 DEF AttemptOK, Spared
      <4>2. thread[u].op = x.op => thread[u].at = "return"
        BY <4>1 DEF AloneAtWork
      <4> QED
        BY <1>2, <1>3, <3>1, <4>1, <4>2 DEF AloneAtWork, Spared
    <3> QED
      BY <1>3, <2>1, <2>3, <3>1, <3>2, <3>3 DEF AttemptOK, Spared
  <2> QED
    BY <2>2, <2>3
<1>5. OneAttempt' /\ PutsAreCurrent'
  BY <1>3 DEF ExecInv, Consistent, OneAttempt, PutsAreCurrent, Op, Spared
<1>6. MemoryIsTruthful'
  <2> SUFFICES ASSUME NEW p \in Ops
               PROVE  /\ Truthful(p, cache[p])' /\ Truthful(p, table[p])'
                      /\ Truthful(p, reported[p])'
    BY DEF MemoryIsTruthful
  <2>1. Truthful(p, cache[p]) /\ Truthful(p, table[p]) /\ Truthful(p, reported[p])
    BY DEF ExecInv, Consistent, MemoryIsTruthful
  <2> QED
    BY <1>1, <1>2, <1>3, <2>1 DEF Truthful, Untouched, Spared
<1>7. UnfitUntouched'
  BY <1>1, <1>2, <1>3 DEF ExecInv, Consistent, UnfitUntouched, Untouched
<1>8. ResultsAgree'
  BY <1>1, <1>2, <1>3 DEF ExecInv, Consistent, ResultsAgree, Spared
<1> QED
  BY <1>3, <1>4, <1>5, <1>6, <1>7, <1>8, DeviceKept DEF Consistent

\* A crash leaves what was reported, the table and the device.
LEMMA CrashStep == ASSUME ExecInv, Crash PROVE Consistent'
<1>1. /\ \A t \in Threads : thread'[t] = Idle
      /\ \A o \in Ops : cache'[o] = "none"
      /\ puts' = {} /\ UNCHANGED <<fit, copies, working, table, reported, trouble>>
  BY DEF Crash, device
<1>2. (\A t \in Threads : AttemptOK(thread[t])') /\ OneAttempt' /\ PutsAreCurrent'
  BY <1>1 DEF AttemptOK, OneAttempt, PutsAreCurrent
<1>3. MemoryIsTruthful'
  BY <1>1 DEF ExecInv, Consistent, MemoryIsTruthful, Truthful, Untouched, Spared
<1>4. UnfitUntouched' /\ ResultsAgree'
  BY <1>1 DEF ExecInv, Consistent, UnfitUntouched, ResultsAgree, Untouched, Spared
<1> QED
  BY <1>1, <1>2, <1>3, <1>4, DeviceKept DEF Consistent

\* Of a change whose lease lapses nothing more is claimed, and nothing else
\* changes.
LEMMA LapseStep == ASSUME ExecInv, NEW t \in Threads, Lapse(t) PROVE Consistent'
<1>1. PICK o \in Ops : o = Op(t)
  BY Working DEF Lapse, ExecInv
<1>2. UNCHANGED <<fit, copies, working, thread, cache, puts, table, reported>>
  BY DEF Lapse, device, stored
<1>3. /\ trouble'[o] = trouble[o] \cup {"lapsed"}
      /\ \A p \in Ops \ {o} : trouble'[p] = trouble[p] /\ job'[p] = job[p]
  BY <1>1 DEF Lapse, Add, ExecInv, TypeOK
<1>4. ASSUME NEW p \in Ops, NEW r, Truthful(p, r) PROVE Truthful(p, r)'
  BY <1>2, <1>3, <1>4 DEF Truthful, Untouched, Spared
<1>5. \A u \in Threads : AttemptOK(thread[u])'
  <2> SUFFICES ASSUME NEW u \in Threads PROVE AttemptOK(thread[u])'
    OBVIOUS
  <2>1. AttemptOK(thread[u])
    BY DEF ExecInv, Consistent
  <2>2. CASE thread[u] = Idle
    BY <1>2, <2>2 DEF AttemptOK
  <2>3. CASE thread[u] # Idle
    <3>1. thread[u].op \in Ops /\ thread'[u] = thread[u]
      BY <1>2, <2>3, Working DEF ExecInv, Op
    <3>2. Truthful(thread[u].op, thread[u].res)'
      BY <1>4, <2>1, <2>3, <3>1 DEF AttemptOK
    <3>3. "lapsed" \notin trouble'[thread[u].op] => AloneAtWork(thread[u])'
      BY <1>2, <1>3, <2>1, <2>3, <3>1 DEF AttemptOK, AloneAtWork, Spared
    <3> QED
      BY <1>2, <2>1, <2>3, <3>1, <3>2, <3>3 DEF AttemptOK, Spared
  <2> QED
    BY <2>2, <2>3
<1>6. OneAttempt'
  <2> SUFFICES ASSUME NEW u \in Threads, NEW w \in Threads,
                      thread[u] # Idle, thread[w] # Idle, thread[u].op = thread[w].op,
                      "lapsed" \notin trouble'[thread[u].op]
               PROVE  u = w
    BY <1>2 DEF OneAttempt, Op, Spared
  <2>1. thread[u].op \in Ops
    BY Working DEF ExecInv, Op
  <2> QED
    BY <1>3, <2>1 DEF ExecInv, Consistent, OneAttempt, Op, Spared
<1>7. PutsAreCurrent'
  <2>1. \A y \in puts : y.op \in Ops
    BY DEF ExecInv, TypeOK, Put
  <2> QED
    BY <1>2, <1>3, <2>1 DEF ExecInv, Consistent, PutsAreCurrent, Op, Spared
<1>8. MemoryIsTruthful'
  BY <1>2, <1>4 DEF ExecInv, Consistent, MemoryIsTruthful, Truthful
<1>9. UnfitUntouched' /\ WorkingIsThere'
  BY <1>2 DEF ExecInv, Consistent, UnfitUntouched, WorkingIsThere, Untouched
<1>10. NoDuplicateRule' /\ ResultsAgree'
  BY <1>2, <1>3 DEF ExecInv, Consistent, NoDuplicateRule, ResultsAgree, Spared
<1> QED
  BY <1>5, <1>6, <1>7, <1>8, <1>9, <1>10 DEF Consistent

\* A step that only changes what is not spoken of keeps the invariant.
LEMMA SilentStep ==
    ASSUME ExecInv, UNCHANGED <<fit, copies, working, job, thread, cache, puts, table,
                                reported, trouble>>
    PROVE  Consistent'
  BY DEF ExecInv, Consistent, AttemptOK, AloneAtWork, OneAttempt, PutsAreCurrent,
         MemoryIsTruthful, UnfitUntouched, WorkingIsThere, NoDuplicateRule, ResultsAgree,
         Truthful, Untouched, Spared, Op

\* Every step keeps the invariant while no two changes add the same rule.
LEMMA ExecInvStep ==
    ASSUME DistinctRules, ExecInv, [Next]_vars
    PROVE  ExecInv'
<1>1. TypeOK'
  BY TypeStep DEF ExecInv
<1>2. CASE UNCHANGED vars \/ Hold
  <2>1. Consistent'
    BY <1>2, SilentStep DEF vars, device, stored, Hold
  <2> QED
    BY <1>1, <2>1 DEF ExecInv
<1>3. CASE Next /\ ~Hold
  BY <1>1, <1>3, LookupStep, LookStep, AsideStep, DeviceStep, BeginStep, StoreStep, ReturnStep,
     PersistStep, CrashStep, LapseStep DEF Next, Aside, OnTheDevice, ExecInv
<1> QED
  BY <1>2, <1>3

\* While every change has a rule of its own, what is known of each change that
\* met none of the troubles it depends on holds, through failing commands and
\* reads, replays, crashes and the commands of other changes.
LEMMA ExecInvHolds == DistinctRules => (Spec => []ExecInv)
<1> SUFFICES ASSUME DistinctRules PROVE Spec => []ExecInv
  OBVIOUS
<1>1. ExecInv /\ [Next]_vars => ExecInv'
  BY ExecInvStep
<1> QED
  BY <1>1, InitExec, PTL DEF Spec

\* A change whose lease held, and whose look before a send saw its rule if it was
\* there, is not on the device twice, wherever earlier runs of its job failed and
\* whatever other changes do under its number.
THEOREM NoDuplicates == DistinctRules => (Spec => []NoDuplicateRule)
<1>1. ExecInv => NoDuplicateRule
  BY DEF ExecInv, Consistent
<1> QED
  BY <1>1, ExecInvHolds, PTL

\* A change reported as applied is on the device and works, unless its lease
\* lapsed, it was judged by an older read, or another change took its rule away.
THEOREM AppliedHolds == DistinctRules => (Spec => []AppliedIsOnDevice)
<1>1. ExecInv => AppliedIsOnDevice
  BY DEF ExecInv, Consistent, MemoryIsTruthful, Truthful, AppliedIsOnDevice
<1> QED
  BY <1>1, ExecInvHolds, PTL

\* The rule of a change reported as rolled back or refused is not on the device,
\* if it was not there before, its lease held and it was not judged by an older
\* read.
THEOREM RollbackRestores ==
    DistinctRules /\ NewRules => (Spec => []NotAppliedMeansRestored)
<1> SUFFICES ASSUME NewRules
             PROVE  DistinctRules => (Spec => []NotAppliedMeansRestored)
  OBVIOUS
<1>1. ExecInv => NotAppliedMeansRestored
  BY DEF ExecInv, Consistent, MemoryIsTruthful, Truthful, NotAppliedMeansRestored, NewRules
<1> QED
  BY <1>1, ExecInvHolds, PTL

\* What the graph, the process and the table remember of a change is the same, if
\* its lease held.
THEOREM MemoriesAgree == DistinctRules => (Spec => []ResultsAgree)
<1>1. ExecInv => ResultsAgree
  BY DEF ExecInv, Consistent
<1> QED
  BY <1>1, ExecInvHolds, PTL

\* Where a thread that moves is afterwards.
LEMMA Moved ==
    ASSUME TypeOK, NEW t \in Threads, NEW where, NEW res, GotoWith(t, where, res)
    PROVE  thread'[t].at = where
  BY DEF TypeOK, GotoWith, Placed

\* Every step of the only thread keeps its session in use or closes it.
LEMMA SessionStep ==
    ASSUME \A t, u \in Threads : t = u, TypeOK, SessionInUse, [Next]_vars
    PROVE  SessionInUse'
<1> DEFINE Using == {"verify", "undo", "verify_undo", "close1"}
<1>1. \A t \in Threads : thread[t].at \notin Using => session = "none"
  BY DEF TypeOK, SessionInUse
<1>2. orphans = 0
  BY DEF SessionInUse
<1>3. CASE UNCHANGED vars
  BY <1>3 DEF SessionInUse, vars, held
<1>4. ASSUME NEW t \in Threads, thread[t].at \notin Using, session' = session,
             orphans' = orphans
      PROVE  SessionInUse'
  BY <1>1, <1>2, <1>4 DEF SessionInUse
<1>5. ASSUME NEW t \in Threads, Send(t) \/ Undo(t) PROVE SessionInUse'
  <2>1. orphans' = 0
    BY <1>2, <1>5 DEF Send, Undo, Connected, NotConnected, held
  <2>2. thread'[t].at \in Using
    BY <1>5, Moved DEF Send, Undo, Revert, Goto
  <2> QED
    BY <2>1, <2>2 DEF SessionInUse
<1>6. ASSUME NEW t \in Threads, Verify(t) \/ VerifyUndo(t) \/ ReadError(t) PROVE SessionInUse'
  <2>1. orphans' = 0
    BY <1>2, <1>6 DEF Verify, VerifyUndo, ReadError, held
  <2>2. thread'[t].at \in Using
    BY <1>6, Moved DEF Verify, VerifyUndo, ReadError, Revert, Goto
  <2> QED
    BY <2>1, <2>2 DEF SessionInUse
<1>7. ASSUME NEW t \in Threads, Reset(t) \/ Close(t) \/ Clear(t) PROVE SessionInUse'
  <2>1. Close(t) \/ session = "none"
    BY <1>1, <1>7 DEF Reset, Clear, At
  <2> QED
    BY <1>2, <1>7, <2>1 DEF Reset, Close, Clear, Forget, SessionInUse
<1>8. ASSUME NEW t \in Threads, Lookup(t) \/ Check(t) \/ Store(t) \/ Return(t)
      PROVE  SessionInUse'
  BY <1>4, <1>8 DEF Lookup, Check, Store, Return, At, held
<1>9. ASSUME NEW t \in Threads, NEW o \in Ops, Begin(t, o) PROVE SessionInUse'
  BY <1>4, <1>9 DEF Begin, At, held
<1>10. ASSUME NEW t \in Threads, Lapse(t) PROVE SessionInUse'
  BY <1>10 DEF Lapse, held, SessionInUse
<1>11. ASSUME NEW x \in puts, Persist(x) PROVE SessionInUse'
  BY <1>11 DEF Persist, held, SessionInUse
<1>12. CASE Crash
  BY <1>12 DEF Crash, SessionInUse
<1>13. CASE Hold
  BY <1>13 DEF Hold, held, SessionInUse
<1> QED
  BY <1>3, <1>5, <1>6, <1>7, <1>8, <1>9, <1>10, <1>11, <1>12, <1>13
     DEF Next, Aside, OnTheDevice

\* One thread closes every session it opens, whatever fails and however leases
\* lapse.
THEOREM OneThreadCloses == (\A t, u \in Threads : t = u) => (Spec => []SessionsClosed)
<1> SUFFICES ASSUME \A t, u \in Threads : t = u PROVE Spec => []SessionsClosed
  OBVIOUS
<1>1. Init => SessionInUse
  BY DEF Init, SessionInUse
<1>2. TypeOK /\ SessionInUse /\ [Next]_vars => SessionInUse'
  BY SessionStep
<1>3. TypeOK /\ SessionInUse => SessionsClosed
  BY DEF SessionInUse, SessionsClosed, TypeOK, At
<1> QED
  BY <1>1, <1>2, <1>3, ExecutionTypes, PTL DEF Spec
-----------------------------------------------------------------------------
(* Nothing is left behind unless something raised.                         *)

\* A thread that goes on with its change has the change in its hands, whatever
\* it did to the change's rule.
LEMMA InHands ==
    ASSUME TypeOK, SurelyTold, NEW t \in Threads, thread[t] \in Attempt,
           NEW where, NEW res, GotoWith(t, where, res), Placed(Op(t), where, res) # Idle,
           res # "raised", faults' = faults, reported' = reported,
           \A p \in Ops \ {Op(t)} : Untouched(RuleOf[p]) => Untouched(RuleOf[p])'
    PROVE  SurelyTold'
<1> SUFFICES ASSUME faults' = 0
             PROVE  /\ \A u \in Threads : thread'[u].res # "raised"
                    /\ \A o \in Ops : \/ Untouched(RuleOf[o])'
                                      \/ reported'[o] # "none"
                                      \/ \E u \in Threads : thread'[u] # Idle /\ thread'[u].op = o
  BY DEF SurelyTold, Op
<1>1. \A u \in Threads :
         thread'[u] = IF u = t THEN Placed(Op(t), where, res) ELSE thread[u]
  BY DEF TypeOK, GotoWith
<1>2. Placed(Op(t), where, res).op = Op(t) /\ Placed(Op(t), where, res).res = res
  BY DEF Placed
<1>3. ASSUME NEW u \in Threads PROVE thread'[u].res # "raised"
  BY <1>1, <1>2 DEF SurelyTold
<1>4. ASSUME NEW o \in Ops
      PROVE  \/ Untouched(RuleOf[o])'
             \/ reported'[o] # "none"
             \/ \E u \in Threads : thread'[u] # Idle /\ thread'[u].op = o
  <2>1. CASE o = Op(t)
    BY <1>1, <1>2, <2>1
  <2>2. CASE o # Op(t)
    <3>1. Untouched(RuleOf[o]) => Untouched(RuleOf[o])'
      BY <2>2
    <3>2. ASSUME NEW u \in Threads, thread[u] # Idle, Op(u) = o
          PROVE  thread'[u] # Idle /\ thread'[u].op = o
      BY <1>1, <2>2, <3>2 DEF Op
    <3> QED
      BY <3>1, <3>2 DEF SurelyTold
  <2> QED
    BY <2>1, <2>2
<1> QED
  BY <1>3, <1>4

\* A step of the thread that is at work, the last one left out.
LEMMA WorkStep ==
    ASSUME TypeOK, DistinctRules, NewRules, SurelyTold, NEW t \in Threads,
           Lookup(t) \/ Reset(t) \/ Close(t) \/ Clear(t) \/ Store(t) \/ OnTheDevice(t)
             \/ ReadError(t)
    PROVE  SurelyTold'
<1>1. /\ thread[t] \in Attempt /\ Op(t) \in Ops /\ Rule(t) \in Rules
      /\ thread[t].at \in Undecided => thread[t].res = "none"
      /\ thread[t].res # "raised" \/ faults # 0
  BY Working, AttemptTypes
     DEF Lookup, Reset, Check, Send, Verify, Undo, VerifyUndo, ReadError, Close, Clear, Store,
         OnTheDevice, At, SurelyTold
<1> SUFFICES ASSUME faults' = 0 PROVE SurelyTold'
  BY DEF SurelyTold
<1>2. faults \in Nat
  BY ExecutionAssumption DEF TypeOK
<1>3. faults' = faults /\ ~ReadError(t)
  BY <1>2 DEF Lookup, Reset, Check, Send, Verify, Undo, VerifyUndo, ReadError, Close, Clear,
              Store, OnTheDevice, Fault, Connected, NotConnected, bounds
<1>4. reported' = reported
  BY <1>3 DEF Lookup, Reset, Check, Send, Verify, Undo, VerifyUndo, Close, Clear, Store,
              OnTheDevice, Connected, NotConnected, stored
<1>5. \A p \in Ops \ {Op(t)} : Untouched(RuleOf[p]) => Untouched(RuleOf[p])'
  <2>1. CASE UNCHANGED <<copies, working>>
    BY <2>1 DEF Untouched
  <2>2. CASE Send(t) \/ Undo(t)
    <3>1. \A p \in Ops \ {Op(t)} : Left(p) \/ Taken(Op(t), p)
      BY <1>1, <2>2, CommandDoes
    <3> QED
      BY <3>1 DEF Left, Taken, NewRules, Untouched, Before
  <2> QED
    BY <1>3, <2>1, <2>2 DEF Lookup, Reset, Check, Verify, VerifyUndo, Close, Clear, Store,
                            OnTheDevice, device
<1>6. \A where, res : where # "idle" => Placed(Op(t), where, res) # Idle
  BY DEF Placed, Idle
<1>7. ASSUME NEW where, NEW res, GotoWith(t, where, res), where # "idle", res # "raised"
      PROVE  SurelyTold'
  BY <1>1, <1>3, <1>4, <1>5, <1>6, <1>7, InHands
<1>8. thread[t].res # "raised"
  BY <1>1, <1>3
<1>9. CASE Lookup(t)
  <2>1. cache[Op(t)] # "raised"
    BY <1>1 DEF TypeOK, Outcomes
  <2> QED
    BY <1>7, <1>8, <1>9, <2>1 DEF Lookup, Goto
<1>10. CASE Reset(t) \/ Close(t)
  BY <1>7, <1>8, <1>10 DEF Reset, Close, Goto
<1>11. CASE Clear(t)
  BY <1>7, <1>8, <1>11 DEF Clear, Goto
<1>12. CASE Store(t)
  BY <1>2, <1>3, <1>7, <1>8, <1>12 DEF Store, Goto, Fault
<1>13. CASE OnTheDevice(t)
  BY <1>7, <1>8, <1>13 DEF OnTheDevice, Check, Send, Verify, Undo, VerifyUndo, Revert, Goto
<1> QED
  BY <1>3, <1>9, <1>10, <1>11, <1>12, <1>13

\* A thread that returns without a fault tells an outcome.
LEMMA TellStep ==
    ASSUME TypeOK, SurelyTold, NEW t \in Threads, Return(t)
    PROVE  SurelyTold'
<1>1. thread[t] \in Attempt /\ Op(t) \in Ops /\ thread[t].res \in Outcomes \cup {"raised"}
  BY Working, AttemptTypes DEF Return, At
<1>2. UNCHANGED <<copies, working, faults>>
  BY DEF Return, device, bounds
<1>3. \A u \in Threads : thread'[u] = IF u = t THEN Idle ELSE thread[u]
  BY DEF Return, TypeOK
<1> SUFFICES ASSUME faults = 0
             PROVE  /\ \A u \in Threads : thread'[u].res # "raised"
                    /\ \A o \in Ops : \/ Untouched(RuleOf[o])
                                      \/ reported'[o] # "none"
                                      \/ \E u \in Threads : thread'[u] # Idle /\ thread'[u].op = o
  BY <1>2 DEF SurelyTold, Op, Untouched
<1>4. thread[t].res # "raised"
  BY DEF SurelyTold
<1>5. reported'[Op(t)] # "none" /\ \A o \in Ops \ {Op(t)} : reported'[o] = reported[o]
  BY <1>1, <1>4 DEF Return, TypeOK, Outcomes
<1>6. ASSUME NEW o \in Ops
      PROVE  \/ Untouched(RuleOf[o])
             \/ reported'[o] # "none"
             \/ \E u \in Threads : thread'[u] # Idle /\ thread'[u].op = o
  BY <1>3, <1>5 DEF SurelyTold, Op
<1> QED
  BY <1>3, <1>6 DEF SurelyTold, Idle

LEMMA SurelyToldStep ==
    ASSUME TypeOK, DistinctRules, NewRules, SurelyTold, [Next]_vars
    PROVE  SurelyTold'
<1>1. CASE UNCHANGED vars
  BY <1>1 DEF SurelyTold, vars, device, stored, bounds, Untouched, Op
<1>2. ASSUME NEW t \in Threads, NEW o \in Ops, Begin(t, o) PROVE SurelyTold'
  <2>1. UNCHANGED <<copies, working, reported, faults>>
    BY <1>2 DEF Begin, device, bounds
  <2>2. \A u \in Threads : thread'[u] = IF u = t THEN Placed(o, "lookup", "none") ELSE thread[u]
    BY <1>2 DEF Begin, TypeOK
  <2>3. \A u \in Threads \ {t} : thread'[u] = thread[u]
    BY <2>2
  <2>4. thread[t] = Idle
    BY <1>2, Working, AttemptTypes DEF Begin, At, Undecided, Closing
  <2>5. thread'[t].res = "none"
    BY <2>2 DEF Placed
  <2>6. \A u \in Threads : thread[u].res # "raised" => thread'[u].res # "raised"
    BY <2>3, <2>5
  <2>7. \A u \in Threads : thread[u] # Idle => thread'[u] = thread[u]
    BY <2>3, <2>4
  <2> QED
    BY <2>1, <2>6, <2>7 DEF SurelyTold, Untouched, Op
<1>3. ASSUME NEW t \in Threads, Lapse(t) PROVE SurelyTold'
  BY <1>3 DEF Lapse, SurelyTold, device, stored, Untouched, Op
<1>4. ASSUME NEW x \in puts, Persist(x) PROVE SurelyTold'
  <2>1. faults \in Nat
    BY ExecutionAssumption DEF TypeOK
  <2> QED
    BY <1>4, <2>1 DEF Persist, SurelyTold, device, Untouched, Op, Fault
<1>5. CASE Crash
  <2>1. faults \in Nat
    BY ExecutionAssumption DEF TypeOK
  <2> QED
    BY <1>5, <2>1 DEF Crash, Fault, SurelyTold
<1>6. CASE Hold
  BY <1>6 DEF Hold, SurelyTold, device, stored, bounds, Untouched, Op
<1> QED
  BY <1>1, <1>2, <1>3, <1>4, <1>5, <1>6, WorkStep, TellStep DEF Next, Aside

\* When every change adds a rule of its own, which was not there before, a change
\* that no thread works on has left the device alone or was told of, unless
\* something raised or died; leases that lapse, older reads and commands of other
\* changes under its number make no difference.
THEOREM ChangesAreAccountedFor ==
    DistinctRules /\ NewRules => (Spec => []NothingLeftBehind)
<1> SUFFICES ASSUME DistinctRules, NewRules PROVE Spec => []NothingLeftBehind
  OBVIOUS
<1>1. Init => SurelyTold
  <2> SUFFICES ASSUME Init PROVE SurelyTold
    OBVIOUS
  <2>1. \A o \in Ops : Untouched(RuleOf[o])
    BY ExecutionAssumption DEF Init, Untouched
  <2> QED
    BY <2>1 DEF Init, SurelyTold, Idle
<1>2. TypeOK /\ SurelyTold /\ [Next]_vars => SurelyTold'
  BY SurelyToldStep
<1>3. TypeOK /\ SurelyTold => NothingLeftBehind
  <2> SUFFICES ASSUME TypeOK, SurelyTold, NEW o \in Ops, faults = 0,
                      NEW t \in Threads, thread[t] # Idle, Op(t) = o
               PROVE  ~At(t, "idle")
    BY ExecutionAssumption DEF TypeOK, SurelyTold, NothingLeftBehind
  <2>1. thread[t] \in Attempt
    BY Working
  <2> QED
    BY <2>1, AttemptTypes DEF At, Undecided, Closing
<1> QED
  BY <1>1, <1>2, <1>3, ExecutionTypes, PTL DEF Spec

-----------------------------------------------------------------------------
(* The promise: outcomes are true when they are given, and final.          *)

\* What OnDevice is.
LEMMA OnDeviceIs ==
    /\ OnDevice = [o \in Ops |-> OnDevice[o]]
    /\ OnDevice' = [o \in Ops |-> OnDevice'[o]]
    /\ \A o \in Ops :
          /\ OnDevice[o] \in {"absent", "hidden", "works"}
          /\ OnDevice'[o] \in {"absent", "hidden", "works"}
          /\ RuleOf[o] \in working => OnDevice[o] = "works"
          /\ RuleOf[o] \notin working /\ ~(copies[RuleOf[o]] > 0) => OnDevice[o] = "absent"
          /\ /\ copies'[RuleOf[o]] = copies[RuleOf[o]]
             /\ RuleOf[o] \in working' <=> RuleOf[o] \in working
             => OnDevice'[o] = OnDevice[o]
  BY DEF OnDevice

\* A command touches the rule of a change without an outcome, and what it takes
\* away of others was sent under the same number.
LEMMA CommandAlters ==
    ASSUME ExecInv, DistinctRules, NEW t \in Threads, Send(t) \/ Undo(t)
    PROVE  \E o \in Ops : Promise!Alter(o)
<1>1. PICK o \in Ops : o = Op(t)
  BY Working DEF Send, Undo, At, ExecInv
<1>2. thread[t] \in Attempt /\ thread[t].at \in {"send", "undo"}
  BY Working DEF Send, Undo, At, ExecInv
<1>3. Promise!Open(o)
  <2>1. Spared(o, {"lapsed"}) => reported[o] = "none"
    BY <1>1, <1>2, Underway
  <2> QED
    BY <2>1 DEF Spared, Promise!Open, InDoubt
<1>4. reported' = reported
  BY DEF Send, Undo, Connected, NotConnected, stored
<1>5. trouble'[o] = trouble[o] /\ \A p \in Ops \ {o} : Left(p) \/ Taken(o, p)
  BY <1>1, CommandDoes DEF ExecInv
<1>6. PICK hit \in SUBSET SharesNumber[o] :
         hit = {p \in SharesNumber[o] : ~Left(p)}
  OBVIOUS
<1>7. SharesNumber[o] \subseteq Ops \ {o}
  BY DEF SharesNumber
<1>8. OnDevice' \in [Ops -> {"absent", "hidden", "works"}]
  BY OnDeviceIs
<1>9. \A p \in Ops \ (hit \cup {o}) : Left(p)
  BY <1>5, <1>6 DEF Taken
<1>10. \A p \in Ops \ (hit \cup {o}) : OnDevice'[p] = OnDevice[p]
  BY <1>9, OnDeviceIs DEF Left
<1>11. \A p \in Ops : trouble'[p] = IF p \in hit THEN trouble[p] \cup {"struck"}
                                    ELSE trouble[p]
  <2>1. \A p \in hit : trouble'[p] = trouble[p] \cup {"struck"} /\ p # o
    BY <1>5, <1>6, <1>7 DEF Taken
  <2> QED
    BY <1>5, <1>9, <2>1 DEF Left
<1>12. InDoubt' = [p \in Ops |-> IF p \in hit THEN InDoubt[p] \cup {"struck"}
                                 ELSE InDoubt[p]]
  BY <1>11 DEF InDoubt
<1> QED
  BY <1>3, <1>4, <1>6, <1>8, <1>10, <1>12 DEF Promise!Alter

\* The outcome a thread returns with is the first of its change, and true, unless
\* one of its troubles may make it false.
LEMMA ReturnTells ==
    ASSUME ExecInv, NewRules, NEW t \in Threads, Return(t), reported' # reported
    PROVE  \E o \in Ops : Promise!Tell(o)
<1>1. PICK o \in Ops, res \in Outcomes : o = Op(t) /\ res = thread[t].res
  BY Working, AttemptTypes DEF Return, At, ExecInv
<1>2. thread[t] \in Attempt /\ thread[t] # Idle /\ reported' = [reported EXCEPT ![o] = res]
  BY <1>1, Working DEF Return, At, ExecInv
<1>3. AttemptOK(thread[t])
  BY DEF ExecInv, Consistent
<1>4. Truthful(o, res) /\ (Spared(o, {"lapsed"}) => reported[o] = "none")
  BY <1>1, <1>2, <1>3 DEF AttemptOK, AloneAtWork, Op
<1>5. OnDevice' = OnDevice /\ InDoubt' = InDoubt
  BY DEF Return, device, OnDevice, InDoubt
<1>6. Promise!Open(o)
  BY <1>4 DEF Spared, Promise!Open, InDoubt
<1>7. OnDevice[o] \in Promise!Means(res) \/ Promise!MayBeFalse(o, res)
  <2>1. CASE Promise!MayBeFalse(o, res)
    BY <2>1
  <2>2. CASE res = "applied" /\ ~Promise!MayBeFalse(o, res)
    <3>1. RuleOf[o] \in working
      BY <1>4, <2>2 DEF Truthful, Spared, Promise!MayBeFalse, InDoubt
    <3> QED
      BY <2>2, <3>1, OnDeviceIs DEF Promise!Means
  <2>3. CASE res \in {"refused", "rolled_back"} /\ ~Promise!MayBeFalse(o, res)
    <3>1. RuleOf[o] \notin working /\ copies[RuleOf[o]] = 0
      BY <1>4, <2>3
         DEF Truthful, Spared, Promise!MayBeFalse, InDoubt, Untouched, Before, NewRules
    <3>2. OnDevice[o] = "absent"
      BY <3>1, OnDeviceIs
    <3> QED
      BY <2>3, <3>2 DEF Promise!Means
  <2>4. CASE res = "rollback_failed"
    BY <2>4, OnDeviceIs DEF Promise!Means
  <2> QED
    BY <2>1, <2>2, <2>3, <2>4 DEF Outcomes
<1> QED
  BY <1>2, <1>5, <1>6, <1>7 DEF Promise!Tell, Outcomes

\* A look that is misled, and a lease that lapses, put a change without an
\* outcome in doubt; a look before the send does not.
LEMMA DoubtStep ==
    ASSUME ExecInv, NEW t \in Threads, Check(t) \/ Verify(t) \/ VerifyUndo(t) \/ Lapse(t)
    PROVE  \/ UNCHANGED Promise!outcomeVars
           \/ \E o \in Ops : Promise!Doubt(o)
<1>1. PICK o \in Ops : o = Op(t)
  BY Working DEF Check, Verify, VerifyUndo, Lapse, At, ExecInv
<1>2. UNCHANGED <<copies, working, reported>>
  BY DEF Check, Verify, VerifyUndo, Lapse, device, stored
<1>3. OnDevice' = OnDevice
  BY <1>2 DEF OnDevice
<1>4. Promise!Open(o)
  <2>1. thread[t] # Idle /\ AttemptOK(thread[t])
    BY Working DEF Check, Verify, VerifyUndo, Lapse, At, ExecInv, Consistent
  <2>2. Spared(o, {"lapsed"}) => reported[o] = "none"
    BY <1>1, <2>1 DEF AttemptOK, AloneAtWork, Op
  <2> QED
    BY <2>2 DEF Spared, Promise!Open, InDoubt
<1>5. CASE UNCHANGED trouble
  BY <1>2, <1>3, <1>5 DEF Promise!outcomeVars, InDoubt
<1>6. trouble \in [Ops -> SUBSET Troubles]
  BY DEF ExecInv, TypeOK
<1>7. CASE trouble' = Add(o, "unseen")
  <2>1. \A p \in Ops : trouble'[p] \ {"unseen"} = trouble[p] \ {"unseen"}
    BY <1>6, <1>7 DEF Add
  <2>2. InDoubt' = InDoubt
    BY <2>1 DEF InDoubt
  <2> QED
    BY <1>2, <1>3, <2>2 DEF Promise!outcomeVars
<1>8. ASSUME NEW what \in {"misjudged", "lapsed"}, trouble' = Add(o, what)
      PROVE  Promise!Doubt(o)
  <2>1. \A p \in Ops : trouble'[p] = IF p = o THEN trouble[o] \cup {what} ELSE trouble[p]
    BY <1>6, <1>8 DEF Add
  <2>2. InDoubt' = [InDoubt EXCEPT ![o] = @ \cup {what}]
    BY <2>1 DEF InDoubt
  <2> QED
    BY <1>2, <1>3, <1>4, <2>2 DEF Promise!Doubt
<1> QED
  BY <1>1, <1>5, <1>7, <1>8 DEF Check, Verify, VerifyUndo, Lapse

\* Every step touches the rule of a change without an outcome, or gives one, or
\* puts one in doubt, or none of these.
LEMMA PromiseStep ==
    ASSUME ExecInv, DistinctRules, NewRules, [Next]_vars
    PROVE  [Promise!Next]_(Promise!outcomeVars)
<1>1. CASE UNCHANGED <<copies, working, reported, trouble>>
  BY <1>1 DEF OnDevice, InDoubt, Promise!outcomeVars
<1>2. CASE \E t \in Threads : Send(t) \/ Undo(t)
  BY <1>2, CommandAlters DEF Promise!Next
<1>3. ASSUME NEW t \in Threads, Return(t) PROVE [Promise!Next]_(Promise!outcomeVars)
  <2>1. CASE reported' # reported
    BY <1>3, <2>1, ReturnTells DEF Promise!Next
  <2>2. CASE reported' = reported
    BY <1>1, <1>3, <2>2 DEF Return, device
  <2> QED
    BY <2>1, <2>2
<1>4. CASE \E t \in Threads : Check(t) \/ Verify(t) \/ VerifyUndo(t) \/ Lapse(t)
  BY <1>4, DoubtStep DEF Promise!Next
<1>5. ASSUME NEW t \in Threads,
             Lookup(t) \/ Reset(t) \/ ReadError(t) \/ Close(t) \/ Clear(t) \/ Store(t)
      PROVE  UNCHANGED <<copies, working, reported, trouble>>
  BY <1>5 DEF Lookup, Reset, ReadError, Close, Clear, Store, device, stored
<1>6. ASSUME NEW t \in Threads, NEW o \in Ops, Begin(t, o)
      PROVE  UNCHANGED <<copies, working, reported, trouble>>
  BY <1>6 DEF Begin, device
<1>7. ASSUME NEW x \in puts, Persist(x) PROVE UNCHANGED <<copies, working, reported, trouble>>
  BY <1>7 DEF Persist, device
<1>8. CASE Crash \/ Hold
  BY <1>1, <1>8 DEF Crash, Hold, device, stored
<1>9. CASE UNCHANGED vars
  BY <1>1, <1>9 DEF vars, device, stored
<1> QED
  BY <1>1, <1>2, <1>3, <1>4, <1>5, <1>6, <1>7, <1>8, <1>9 DEF Next, Aside, OnTheDevice

\* When every change adds a rule of its own, which was not there before, the
\* executor does what ChangeOutcome says: an outcome is true when it is given and
\* is given once, and what touches the change's rule after it is the command of
\* another change with its entry number, unless its lease lapsed or it was judged
\* by an older read.
THEOREM ImplementsPromise ==
    DistinctRules /\ NewRules => (Spec => OutcomesAreFinal)
<1> SUFFICES ASSUME DistinctRules, NewRules PROVE Spec => OutcomesAreFinal
  OBVIOUS
<1>1. Init => Promise!Init
  <2> SUFFICES ASSUME Init PROVE Promise!Init
    OBVIOUS
  <2>1. \A o \in Ops : RuleOf[o] \notin working /\ copies[RuleOf[o]] = 0
    BY ExecutionAssumption DEF Init, Before, NewRules
  <2>2. \A o \in Ops : OnDevice[o] = "absent"
    BY <2>1, OnDeviceIs
  <2>3. InDoubt = [o \in Ops |-> {}]
    BY DEF Init, InDoubt
  <2> QED
    BY <2>2, <2>3, OnDeviceIs DEF Init, Promise!Init
<1>2. ExecInv /\ [Next]_vars => [Promise!Next]_(Promise!outcomeVars)
  BY PromiseStep
<1>3. Spec => []ExecInv
  BY ExecInvHolds
<1> QED
  BY <1>1, <1>2, <1>3, PTL DEF Spec, OutcomesAreFinal, Promise!Spec
=============================================================================
