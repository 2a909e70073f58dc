------------------------ MODULE CircuitBreakerProofs ------------------------
(***************************************************************************)
(* The bound on the calls a provider can be left with, for any number of   *)
(* jobs, retries and failures the circuit waits for.                       *)
(*                                                                         *)
(* The argument is one of credit.  Left has a pair for each attempt that   *)
(* can still be made before somebody else's result is needed: those of the *)
(* calls under way, and all of an idle job's while the circuit lets it     *)
(* through.  A call that hangs moves one from Left to hung; a call that    *)
(* fails may give its job a new row of Left, for which the circuit counts  *)
(* a failure; a half-open window gives each job a row.                     *)
(***************************************************************************)
EXTENDS CircuitBreaker, FiniteSetTheorems, TLAPS

Most == Retries + 1
Attempts == 1..Most

Used(c) == CASE call[c].at = "running" -> call[c].attempt - 1
             [] call[c].at = "waiting" -> call[c].attempt
             [] OTHER -> 0

May(c) == call[c].at # "idle" \/ Allow

Left == {p \in Calls \X Attempts : May(p[1]) /\ Used(p[1]) < p[2]}
Row(c) == {c} \X Attempts

\* A call under way knows how many attempts it has made.
CallsOK ==
    \A c \in Calls :
        /\ call[c].at = "running" => call[c].attempt \in 1..Most
        /\ call[c].at = "waiting" => call[c].attempt \in 1..Retries

CircuitOK ==
    /\ circuit.at = "closed" => circuit.failures < Threshold /\ windows = 0
    /\ circuit.at = "opened" => circuit.failures = Threshold

Credit ==
    (IF circuit.at = "closed" THEN circuit.failures ELSE Threshold - 1)
    + Cardinality(Calls) * (1 + windows)

Budget == windows <= MaxWindows => hung + Cardinality(Left) <= Most * Credit

CircuitInv == TypeOK /\ CallsOK /\ CircuitOK /\ Budget

-----------------------------------------------------------------------------
(* Counting                                                                *)

\* The set of attempts is finite, and so is what is left of them.
LEMMA AttemptsCount ==
    /\ Most \in Nat \ {0}
    /\ IsFiniteSet(Attempts) /\ Cardinality(Attempts) = Most
    /\ Cardinality(Calls) \in Nat
    /\ IsFiniteSet(Calls \X Attempts)
    /\ Cardinality(Calls \X Attempts) = Most * Cardinality(Calls)
<1>1. Most \in Nat \ {0} /\ IsFiniteSet(Calls)
  BY CircuitAssumption DEF Most
<1>2. IsFiniteSet(Attempts) /\ Cardinality(Attempts) = Most
  BY <1>1, FS_Interval DEF Attempts
<1>3. Cardinality(Calls) \in Nat
  BY <1>1, FS_CardinalityType
<1>4. /\ IsFiniteSet(Calls \X Attempts)
      /\ Cardinality(Calls \X Attempts) = Cardinality(Calls) * Cardinality(Attempts)
  BY <1>1, <1>2, FS_Product
<1> QED BY <1>1, <1>2, <1>3, <1>4

\* One job's row of attempts.
LEMMA RowCount ==
    ASSUME NEW c \in Calls
    PROVE  IsFiniteSet(Row(c)) /\ Cardinality(Row(c)) = Most
<1>1. IsFiniteSet({c}) /\ Cardinality({c}) = 1
  BY FS_Singleton
<1>2. /\ IsFiniteSet({c} \X Attempts)
      /\ Cardinality({c} \X Attempts) = Cardinality({c}) * Cardinality(Attempts)
  BY <1>1, AttemptsCount, FS_Product
<1> QED BY <1>1, <1>2, AttemptsCount DEF Row

LEMMA LeftFinite ==
    /\ IsFiniteSet(Left) /\ Cardinality(Left) \in Nat
    /\ Cardinality(Left) <= Most * Cardinality(Calls)
<1>1. Left \in SUBSET (Calls \X Attempts)
  BY DEF Left
<1> QED BY <1>1, AttemptsCount, FS_Subset, FS_CardinalityType

\* The same of the next state.
LEMMA LeftFiniteNext ==
    /\ IsFiniteSet(Left') /\ Cardinality(Left') \in Nat
    /\ Cardinality(Left') <= Most * Cardinality(Calls)
<1>1. Left' \in SUBSET (Calls \X Attempts)
  BY DEF Left
<1> QED BY <1>1, AttemptsCount, FS_Subset, FS_CardinalityType

\* A set that gained at most a part has at most its elements more.
LEMMA Gained ==
    ASSUME NEW S, IsFiniteSet(S), NEW T, IsFiniteSet(T), NEW U \in SUBSET (S \cup T)
    PROVE  Cardinality(U) <= Cardinality(S) + Cardinality(T)
<1>1. /\ IsFiniteSet(S \cup T)
      /\ Cardinality(S \cup T) = Cardinality(S) + Cardinality(T) - Cardinality(S \cap T)
  BY FS_Union
<1>2. IsFiniteSet(S \cap T) /\ Cardinality(S \cap T) \in Nat
  BY FS_Intersection, FS_CardinalityType
<1>3. Cardinality(S) \in Nat /\ Cardinality(T) \in Nat
  BY FS_CardinalityType
<1>4. IsFiniteSet(U) /\ Cardinality(U) \in Nat /\ Cardinality(U) <= Cardinality(S \cup T)
  BY <1>1, FS_Subset, FS_CardinalityType
<1> QED BY <1>1, <1>2, <1>3, <1>4

\* The credit is a number, and one more of a factor is one more row.
LEMMA CreditType ==
    ASSUME TypeOK PROVE Credit \in Nat
BY AttemptsCount, CircuitAssumption DEF TypeOK, Credit

LEMMA OneMore ==
    ASSUME NEW k \in Nat, NEW n \in Nat
    PROVE  /\ Most * (n + k) = Most * n + Most * k
           /\ Most * (n + 1) = Most * n + Most
           /\ Most * n \in Nat
BY AttemptsCount

-----------------------------------------------------------------------------
(* The initial states and the steps                                        *)

LEMMA MostHungType ==
    ASSUME NEW n \in Nat PROVE MostHung(n) \in Nat
<1>1. Admitted(n) \in Nat
  BY AttemptsCount, CircuitAssumption DEF Admitted
<1> QED BY <1>1, CircuitAssumption DEF MostHung

LEMMA UpToType ==
    ASSUME NEW n \in Nat, NEW most \in Nat
    PROVE  UpTo(n, most) \in 0..most /\ UpTo(n, most) <= n
BY DEF UpTo

LEMMA InitInv == Init => CircuitInv
<1> SUFFICES ASSUME Init PROVE CircuitInv
  OBVIOUS
<1>1. TypeOK
  BY CircuitAssumption, MostHungType DEF Init, TypeOK, Idle
<1>2. CallsOK /\ CircuitOK
  BY CircuitAssumption DEF Init, CallsOK, CircuitOK, Idle
<1>3. Budget
  <2>1. Credit = Cardinality(Calls)
    BY AttemptsCount DEF Init, Credit
  <2> QED BY <2>1, LeftFinite, AttemptsCount DEF Init, Budget
<1> QED BY <1>1, <1>2, <1>3 DEF CircuitInv

\* What is left cannot change while neither the calls nor the circuit do.
LEMMA SameLeft ==
    ASSUME call' = call, circuit' = circuit PROVE Left' = Left
BY DEF Left, May, Used, Allow

LEMMA FluctuateInv == CircuitInv /\ Fluctuate => CircuitInv'
<1> SUFFICES ASSUME CircuitInv, Fluctuate PROVE CircuitInv'
  OBVIOUS
<1>1. Left' = Left
  BY SameLeft DEF Fluctuate
<1> QED BY <1>1 DEF CircuitInv, Fluctuate, TypeOK, CallsOK, CircuitOK, Budget, Credit

LEMMA TickInv == CircuitInv /\ Tick => CircuitInv'
<1> SUFFICES ASSUME CircuitInv, Tick PROVE CircuitInv'
  OBVIOUS
<1> USE DEF CircuitInv
<1>1. TypeOK'
  BY CircuitAssumption DEF Tick, TypeOK, UpTo
<1>2. CallsOK' /\ CircuitOK'
  BY DEF Tick, TypeOK, CallsOK, CircuitOK
<1>3. Budget'
  <2>1. CASE circuit.age + 1 # Reset
    <3>1. Left' = Left
      BY <2>1, CircuitAssumption DEF Tick, TypeOK, Left, May, Used, Allow
    <3> QED BY <2>1, <3>1 DEF Tick, Budget, Credit, TypeOK
  <2>2. CASE circuit.age + 1 = Reset
    <3> SUFFICES ASSUME windows' <= MaxWindows PROVE hung' + Cardinality(Left') <= Most * Credit'
      BY DEF Budget
    <3>1. windows' = windows + 1 /\ windows \in Nat /\ windows <= MaxWindows
      BY <2>2, CircuitAssumption DEF Tick, TypeOK, UpTo
    <3>2. Left' \in SUBSET (Left \cup (Calls \X Attempts))
      BY DEF Left
    <3>3. Cardinality(Left') <= Cardinality(Left) + Most * Cardinality(Calls)
      BY <3>2, LeftFinite, AttemptsCount, Gained
    <3>4. Credit \in Nat /\ Credit' = Credit + Cardinality(Calls)
      <4>1. Credit' = Threshold - 1 + Cardinality(Calls) * (1 + (windows + 1))
        BY <3>1 DEF Tick, Credit, TypeOK
      <4>2. Credit = Threshold - 1 + Cardinality(Calls) * (1 + windows)
        BY DEF Tick, Credit, TypeOK
      <4> QED BY <3>1, <4>1, <4>2, AttemptsCount, CreditType, CircuitAssumption
    <3>5. Most * Credit' = Most * Credit + Most * Cardinality(Calls)
      BY <3>4, OneMore, AttemptsCount
    <3>6. hung' = hung /\ hung \in Nat
      BY MostHungType, CircuitAssumption DEF Tick, TypeOK
    <3>7. hung + Cardinality(Left) <= Most * Credit
      BY <3>1 DEF Budget
    <3> HIDE DEF Left, Credit
    <3> QED BY <3>3, <3>4, <3>5, <3>6, <3>7, LeftFinite, LeftFiniteNext, OneMore, AttemptsCount
  <2> QED BY <2>1, <2>2
<1> QED BY <1>1, <1>2, <1>3

\* The circuit is asked, and the job's row was left already.
LEMMA AdmitInv == ASSUME NEW c \in Calls PROVE CircuitInv /\ Admit(c) => CircuitInv'
<1> SUFFICES ASSUME CircuitInv, Admit(c) PROVE CircuitInv'
  OBVIOUS
<1> USE DEF CircuitInv
<1>1. TypeOK'
  BY CircuitAssumption DEF Admit, Start, TypeOK
<1>2. CallsOK' /\ CircuitOK'
  BY AttemptsCount DEF Admit, Start, TypeOK, CallsOK, CircuitOK
<1>3. Left' = Left
  <2>1. \A d \in Calls : May(d)' <=> May(d)
    BY DEF Admit, Start, May, Allow, TypeOK
  <2>2. \A d \in Calls : Used(d)' = Used(d)
    BY DEF Admit, Start, Used, TypeOK
  <2> QED BY <2>1, <2>2 DEF Left
<1>4. Budget'
  BY <1>3 DEF Admit, Budget, Credit
<1> QED BY <1>1, <1>2, <1>4

\* After an answer each job has a row, and the circuit is closed.
LEMMA AnswerInv == ASSUME NEW c \in Calls PROVE CircuitInv /\ Answer(c) => CircuitInv'
<1> SUFFICES ASSUME CircuitInv, Answer(c) PROVE CircuitInv'
  OBVIOUS
<1> USE DEF CircuitInv
<1>1. TypeOK'
  BY CircuitAssumption, MostHungType DEF Answer, RecordSuccess, Idle, TypeOK
<1>2. CallsOK' /\ CircuitOK'
  BY CircuitAssumption DEF Answer, RecordSuccess, Idle, TypeOK, CallsOK, CircuitOK
<1>3. Budget'
  <2>1. Credit' = Cardinality(Calls)
    BY AttemptsCount DEF Answer, RecordSuccess, Credit
  <2>2. hung' = 0
    BY DEF Answer
  <2> QED BY <2>1, <2>2, LeftFiniteNext, AttemptsCount DEF Budget
<1> QED BY <1>1, <1>2, <1>3

LEMMA RetryInv == ASSUME NEW c \in Calls PROVE CircuitInv /\ Retry(c) => CircuitInv'
<1> SUFFICES ASSUME CircuitInv, Retry(c) PROVE CircuitInv'
  OBVIOUS
<1> USE DEF CircuitInv
<1>0. call[c].attempt \in 1..Retries
  BY DEF Retry, CallsOK
<1>1. TypeOK'
  BY <1>0, CircuitAssumption DEF Retry, Start, TypeOK
<1>2. CallsOK' /\ CircuitOK'
  BY <1>0, AttemptsCount, CircuitAssumption DEF Retry, Start, TypeOK, CallsOK, CircuitOK, Most
<1>3. Left' = Left
  <2>1. \A d \in Calls : May(d)' <=> May(d)
    BY DEF Retry, Start, May, Allow, TypeOK
  <2>2. \A d \in Calls : Used(d)' = Used(d)
    BY <1>0 DEF Retry, Start, Used, TypeOK
  <2> QED BY <2>1, <2>2 DEF Left
<1>4. Budget'
  BY <1>3 DEF Retry, Budget, Credit
<1> QED BY <1>1, <1>2, <1>4

\* The attempt under way is left until it ends.
LEMMA UnderWay ==
    ASSUME CircuitInv, NEW c \in Calls, call[c].at = "running"
    PROVE  <<c, call[c].attempt>> \in Left
BY DEF CircuitInv, CallsOK, Left, May, Used, Attempts

\* A call that tries again gives up the attempt.
LEMMA KeepsTrying ==
    ASSUME CircuitInv, NEW c \in Calls, call[c].at = "running",
           call' = [call EXCEPT ![c].at = "waiting"], circuit' = circuit
    PROVE  Left' \subseteq Left \ {<<c, call[c].attempt>>}
<1>1. call[c].attempt \in 1..Most /\ call \in [Calls -> [at : {"idle", "running", "waiting"},
          attempt : 0..(Retries + 1), begun : {"well", "ill"}]]
  BY DEF CircuitInv, CallsOK, TypeOK
<1>2. Used(c) = call[c].attempt - 1 /\ Used(c)' = call[c].attempt
  BY <1>1 DEF Used
<1>3. \A d \in Calls \ {c} : Used(d)' = Used(d) /\ (May(d)' <=> May(d))
  BY <1>1 DEF Used, May, Allow
<1>4. May(c)
  BY DEF May
<1> SUFFICES ASSUME NEW q \in Left' PROVE q \in Left /\ q # <<c, call[c].attempt>>
  OBVIOUS
<1>5. PICK d \in Calls, i \in Attempts : q = <<d, i>> /\ May(d)' /\ Used(d)' < i
  BY DEF Left
<1>6. CASE d = c
  BY <1>1, <1>2, <1>4, <1>5, <1>6, AttemptsCount DEF Left, Attempts
<1>7. CASE d # c
  BY <1>3, <1>5, <1>7 DEF Left
<1> QED BY <1>6, <1>7

\* A call that gives up gives up the attempt too; its job has a new row only
\* if the circuit stays closed.
LEMMA GivesUp ==
    ASSUME CircuitInv, NEW c \in Calls, call[c].at = "running",
           call' = [call EXCEPT ![c] = Idle], RecordFailure
    PROVE  /\ circuit'.at = "closed" => Left' \subseteq (Left \ {<<c, call[c].attempt>>}) \cup Row(c)
           /\ circuit'.at = "opened" => Left' \subseteq Left \ {<<c, call[c].attempt>>}
<1>1. call[c].attempt \in 1..Most /\ call \in [Calls -> [at : {"idle", "running", "waiting"},
          attempt : 0..(Retries + 1), begun : {"well", "ill"}]]
  BY DEF CircuitInv, CallsOK, TypeOK
<1>2. \A d \in Calls \ {c} : Used(d)' = Used(d) /\ call'[d] = call[d]
  BY <1>1 DEF Used
<1>3. circuit'.at = "opened" => ~Allow'
  BY CircuitAssumption DEF RecordFailure, Allow
<1>4. circuit'.at = "closed" => circuit.at = "closed"
  BY DEF RecordFailure
<1>5. call'[c].at = "idle"
  BY <1>1 DEF Idle
<1>6. ASSUME NEW d \in Calls, NEW i \in Attempts, May(d)', Used(d)' < i, d # c
      PROVE  <<d, i>> \in Left
  <2>1. CASE circuit'.at = "closed"
    BY <1>2, <1>4, <1>6, <2>1 DEF Left, May, Allow
  <2>2. CASE circuit'.at # "closed"
    <3>1. circuit'.at = "opened"
      BY <2>2 DEF RecordFailure, CircuitInv, TypeOK
    <3> QED BY <1>2, <1>3, <1>6, <3>1 DEF Left, May
  <2> QED BY <2>1, <2>2
<1>7. ASSUME NEW q \in Left'
      PROVE  \/ q \in Left \ {<<c, call[c].attempt>>}
             \/ q \in Row(c) /\ circuit'.at # "opened"
  <2>1. PICK d \in Calls, i \in Attempts : q = <<d, i>> /\ May(d)' /\ Used(d)' < i
    BY <1>7 DEF Left
  <2>2. CASE d = c
    BY <1>3, <1>5, <2>1, <2>2 DEF May, Row
  <2>3. CASE d # c
    BY <1>6, <2>1, <2>3
  <2> QED BY <2>2, <2>3
<1> QED BY <1>7

\* What an attempt leaves behind is one call hanging at most, for one attempt
\* less, and a new row only for a failure counted.
LEMMA RaiseInv ==
    ASSUME CircuitInv, NEW c \in Calls, call[c].at = "running", NEW transient \in BOOLEAN,
           Raise(c, transient), windows' = windows, provider' = provider,
           hung' \in 0..(MostHung(MaxWindows) + 1), hung' <= hung + 1
    PROVE  CircuitInv'
<1> USE DEF CircuitInv
<1>1. CASE transient /\ call[c].attempt <= Retries
  <2>1. call' = [call EXCEPT ![c].at = "waiting"] /\ circuit' = circuit
    BY <1>1 DEF Raise
  <2>2. TypeOK'
    BY <2>1 DEF TypeOK
  <2>3. CallsOK' /\ CircuitOK'
    BY <1>1, <2>1, AttemptsCount, CircuitAssumption DEF TypeOK, CallsOK, CircuitOK, Most
  <2>4. Left' \in SUBSET (Left \ {<<c, call[c].attempt>>})
    BY <2>1, KeepsTrying
  <2>5. Cardinality(Left \ {<<c, call[c].attempt>>}) = Cardinality(Left) - 1
        /\ IsFiniteSet(Left \ {<<c, call[c].attempt>>})
    BY UnderWay, LeftFinite, FS_RemoveElement
  <2>6. Cardinality(Left') <= Cardinality(Left) - 1
    BY <2>4, <2>5, FS_Subset
  <2>7. Credit' = Credit
    BY <2>1 DEF Credit
  <2>8. Budget'
    <3> SUFFICES ASSUME windows' <= MaxWindows PROVE hung' + Cardinality(Left') <= Most * Credit'
      BY DEF Budget
    <3>1. hung + Cardinality(Left) <= Most * Credit
      BY DEF Budget
    <3>2. hung \in Nat /\ hung' \in Nat
      BY MostHungType, CircuitAssumption DEF TypeOK
    <3>3. Most * Credit \in Nat
      BY CreditType, OneMore
    <3> HIDE DEF Left, Credit, CircuitInv
    <3> QED BY <2>6, <2>7, <3>1, <3>2, <3>3, LeftFinite, LeftFiniteNext
  <2> QED BY <2>2, <2>3, <2>8
<1>2. CASE ~(transient /\ call[c].attempt <= Retries)
  <2>1. call' = [call EXCEPT ![c] = Idle] /\ RecordFailure
    BY <1>2 DEF Raise
  <2>2. TypeOK'
    BY <2>1, CircuitAssumption DEF TypeOK, RecordFailure, UpTo, Idle
  <2>3. CallsOK' /\ CircuitOK'
    BY <2>1, AttemptsCount, CircuitAssumption DEF TypeOK, CallsOK, CircuitOK, RecordFailure, UpTo, Idle
  <2>4. Cardinality(Left \ {<<c, call[c].attempt>>}) = Cardinality(Left) - 1
        /\ IsFiniteSet(Left \ {<<c, call[c].attempt>>})
    BY UnderWay, LeftFinite, FS_RemoveElement
  <2>5. hung \in Nat /\ hung' \in Nat /\ Credit \in Nat
    BY MostHungType, CreditType, CircuitAssumption DEF TypeOK
  <2>6. CASE circuit'.at = "closed"
    <3>1. Left' \in SUBSET ((Left \ {<<c, call[c].attempt>>}) \cup Row(c))
      BY <2>1, <2>6, GivesUp
    <3>2. Cardinality(Left') <= (Cardinality(Left) - 1) + Most
      BY <2>4, <3>1, RowCount, Gained
    <3>3. Credit' = Credit + 1
      <4>1. circuit.at = "closed" /\ circuit'.failures = circuit.failures + 1
        BY <2>1, <2>6, CircuitAssumption DEF RecordFailure, UpTo, CircuitOK, TypeOK
      <4>2. circuit.failures \in Nat /\ Cardinality(Calls) * (1 + windows) \in Nat
        BY AttemptsCount, CircuitAssumption DEF TypeOK
      <4> QED BY <2>6, <4>1, <4>2 DEF Credit
    <3>4. Most * Credit' = Most * Credit + Most /\ Most * Credit \in Nat
      BY <2>5, <3>3, OneMore
    <3>5. Budget'
      <4> SUFFICES ASSUME windows' <= MaxWindows PROVE hung' + Cardinality(Left') <= Most * Credit'
        BY DEF Budget
      <4>1. hung + Cardinality(Left) <= Most * Credit
        BY DEF Budget
      <4> HIDE DEF Left, Credit, CircuitInv
      <4> QED BY <2>5, <3>2, <3>4, <4>1, LeftFinite, LeftFiniteNext, AttemptsCount
    <3> QED BY <2>2, <2>3, <3>5
  <2>7. CASE circuit'.at = "opened"
    <3>1. Left' \in SUBSET (Left \ {<<c, call[c].attempt>>})
      BY <2>1, <2>7, GivesUp
    <3>2. Cardinality(Left') <= Cardinality(Left) - 1
      BY <2>4, <3>1, FS_Subset
    <3>3. Credit' = Credit
      <4>1. circuit.at = "closed" => circuit.failures = Threshold - 1
        BY <2>1, <2>7, CircuitAssumption DEF RecordFailure, UpTo, CircuitOK, TypeOK
      <4> QED BY <2>7, <4>1 DEF Credit
    <3>4. Most * Credit \in Nat
      BY <2>5, OneMore
    <3>5. Budget'
      <4> SUFFICES ASSUME windows' <= MaxWindows PROVE hung' + Cardinality(Left') <= Most * Credit'
        BY DEF Budget
      <4>1. hung + Cardinality(Left) <= Most * Credit
        BY DEF Budget
      <4> HIDE DEF Left, Credit, CircuitInv
      <4> QED BY <2>5, <3>2, <3>3, <3>4, <4>1, LeftFinite, LeftFiniteNext
    <3> QED BY <2>2, <2>3, <3>5
  <2> QED BY <2>1, <2>2, <2>6, <2>7 DEF TypeOK
<1> QED BY <1>1, <1>2

LEMMA FailInv == ASSUME NEW c \in Calls PROVE CircuitInv /\ Fail(c) => CircuitInv'
<1> SUFFICES ASSUME CircuitInv, Fail(c) PROVE CircuitInv'
  OBVIOUS
<1>1. PICK transient \in BOOLEAN : Raise(c, transient)
  BY DEF Fail
<1>2. hung' = hung /\ hung \in 0..(MostHung(MaxWindows) + 1) /\ windows' = windows
      /\ provider' = provider /\ call[c].at = "running"
  BY DEF Fail, CircuitInv, TypeOK
<1>3. hung' <= hung + 1
  BY <1>2, MostHungType, CircuitAssumption
<1> QED BY <1>1, <1>2, <1>3, RaiseInv

LEMMA TimeOutInv == ASSUME NEW c \in Calls PROVE CircuitInv /\ TimeOut(c) => CircuitInv'
<1> SUFFICES ASSUME CircuitInv, TimeOut(c) PROVE CircuitInv'
  OBVIOUS
<1>1. Raise(c, TRUE) /\ windows' = windows /\ provider' = provider /\ call[c].at = "running"
  BY DEF TimeOut
<1>2. MostHung(MaxWindows) \in Nat /\ hung \in Nat
  BY MostHungType, CircuitAssumption DEF CircuitInv, TypeOK
<1>3. hung' \in 0..(MostHung(MaxWindows) + 1) /\ hung' <= hung + 1
  BY <1>2, UpToType DEF TimeOut
<1> QED BY <1>1, <1>3, RaiseInv

LEMMA NextInv == CircuitInv /\ [Next]_vars => CircuitInv'
<1> SUFFICES ASSUME CircuitInv, [Next]_vars PROVE CircuitInv'
  OBVIOUS
<1>1. CASE Fluctuate
  BY <1>1, FluctuateInv
<1>2. CASE Tick
  BY <1>2, TickInv
<1>3. ASSUME NEW c \in Calls, Proceed(c) PROVE CircuitInv'
  BY <1>3, AdmitInv, AnswerInv, FailInv, TimeOutInv, RetryInv DEF Proceed
<1>4. CASE UNCHANGED vars
  <2>1. Left' = Left
    BY <1>4, SameLeft DEF vars
  <2> QED BY <1>4, <2>1 DEF vars, CircuitInv, TypeOK, CallsOK, CircuitOK, Budget, Credit
<1> QED BY <1>1, <1>2, <1>3, <1>4 DEF Next

-----------------------------------------------------------------------------
(* Theorems                                                                *)

\* The invariant of the breaker, its callers and the budget (CircuitBreaker,
\* call_with_retry) holds of every behaviour.
THEOREM Inductive == Spec => []CircuitInv
<1> QED BY InitInv, NextInv, PTL DEF Spec

\* No call makes more attempts than MODEL_MAX_RETRIES and one
\* (call_with_retry), and the circuit opens at its threshold.
THEOREM CircuitTypes == Spec => []TypeOK
<1>1. CircuitInv => TypeOK
  BY DEF CircuitInv
<1> QED BY <1>1, Inductive, PTL

\* For any number of jobs, retries and failures the circuit waits for: a
\* provider that hangs gets no more calls than the circuit bounds (allow,
\* record_failure, _run_with_timeout).
THEOREM HangingIsBounded == Spec => []HungCallsBounded
<1>1. CircuitInv => HungCallsBounded
  <2> SUFFICES ASSUME CircuitInv, windows <= MaxWindows PROVE hung <= MostHung(windows)
    BY DEF HungCallsBounded
  <2>1. hung + Cardinality(Left) <= Most * Credit
    BY DEF CircuitInv, Budget
  <2>2. hung \in Nat /\ windows \in Nat
    BY MostHungType, CircuitAssumption DEF CircuitInv, TypeOK
  <2>3. Credit \in Nat /\ Admitted(windows) \in Nat /\ Credit <= Admitted(windows)
    BY <2>2, AttemptsCount, CircuitAssumption
       DEF CircuitInv, CircuitOK, TypeOK, Credit, Admitted
  <2>4. Most * Credit <= Most * Admitted(windows) /\ Most * Credit \in Nat
    <3>1. PICK k \in Nat : Admitted(windows) = Credit + k
      <4>1. Admitted(windows) - Credit \in Nat
        BY <2>3
      <4> QED BY <2>3, <4>1
    <3> QED BY <2>3, <3>1, OneMore, AttemptsCount
  <2>5. MostHung(windows) = Most * Admitted(windows)
    BY <2>3, AttemptsCount DEF MostHung, Most
  <2> QED BY <2>1, <2>2, <2>4, <2>5, LeftFinite, MostHungType
<1> QED BY <1>1, Inductive, PTL
=============================================================================
