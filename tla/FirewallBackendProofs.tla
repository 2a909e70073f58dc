----------------------- MODULE FirewallBackendProofs -----------------------
(***************************************************************************)
(* For any number of threads, devices, changes and failing commands:       *)
(*                                                                         *)
(* A policy asked for after refresh is no older than the refresh.  A       *)
(* thread that refreshed while nobody had a read in hand can rely on every *)
(* time there is, in the caches and in other threads' hands, being one     *)
(* after its refresh: reads that begin later only bring later times.       *)
(*                                                                         *)
(* "No translation" is only said of a flow none touches: what a thread     *)
(* goes by and what is cached are of moments the device has been through.  *)
(*                                                                         *)
(* What is simulated is what the device does.  A group expands to what the *)
(* device means by it or to nothing; so each reader has the entry as the   *)
(* device has it or not at all; so the first rule that matches comes from  *)
(* the entry that decides, unless a rule that was not understood is above. *)
(***************************************************************************)
EXTENDS FirewallBackend, FiniteSetTheorems, WellFoundedInduction, TLAPS

\* Nothing of a read is older than a moment; what is missing is zero.
After(read, s) ==
    \A time \in {read.of, read.groups, read.objects} : time = 0 \/ time >= s

AllAfter(s) ==
    /\ After(cache, s)
    /\ \A time \in {defs.groups, defs.objects} : time = 0 \/ time >= s
    /\ \A u \in Threads : Underway(u) => After(reader[u].read, s)

Relying(t) == reader[t].since # 0 /\ reader[t].overlap = "alone"

Reliance ==
    \A t \in Threads :
        Relying(t) =>
            /\ reader[t].since <= Now
            /\ reader[t].at # "idle" => AllAfter(reader[t].since)
            /\ reader[t].at = "idle" => After(reader[t].got, reader[t].since)

\* A thread that asks for a translation has read nothing yet.
NatUnread == \A t \in Threads : reader[t].at = "nat" => reader[t].read = NotRead

Inv == TypeOK /\ Reliance /\ NatUnread

-----------------------------------------------------------------------------
(* Types                                                                   *)

LEMMA NowType == TypeOK => Now \in 1..(MaxChanges + 1) /\ Now \in Times
BY BackendAssumption DEF TypeOK, Now, Times

LEMMA InitTypes == Init => TypeOK
BY BackendAssumption DEF Init, TypeOK, Unread, NotRead, Idle, Read, Reader, Times

\* A thread's step changes its own reader.
LEMMA BecomesType ==
    ASSUME TypeOK, NEW t \in Threads, NEW r \in Reader, Becomes(t, r)
    PROVE  reader' \in [Threads -> Reader]
BY DEF TypeOK, Becomes

LEMMA IdleType ==
    Idle \in Reader /\ NotRead \in Read
BY BackendAssumption DEF Idle, NotRead, Reader, Read, Times

LEMMA StepTypes == TypeOK /\ [Next]_vars => TypeOK'
<1> SUFFICES ASSUME TypeOK, [Next]_vars PROVE TypeOK'
  OBVIOUS
<1>1. CASE Change
  <2>1. PICK pair \in Rewrites : history' = Append(history, pair[2])
    BY <1>1 DEF Change
  <2>2. history' \in Seq(Devices) /\ Len(history') = Len(history) + 1
    BY <2>1, BackendAssumption DEF TypeOK
  <2> QED BY <1>1, <2>2, BackendAssumption DEF Change, TypeOK, Now, backend
<1>2. ASSUME NEW t \in Threads,
             \/ AskPolicy(t) \/ Refresh(t) \/ Look(t) \/ ReadAccessList(t) \/ Raise(t)
             \/ ReadGroups(t) \/ ReadObjects(t) \/ Store(t) \/ Return(t)
             \/ AskNat(t) \/ IosNat(t) \/ ReadNat(t) \/ ResolveNat(t) \/ Assess(t)
      PROVE  TypeOK'
  <2> DEFINE r == reader[t]
  <2>0. r \in Reader /\ r.read \in Read /\ Now \in Times /\ 0 \in Times
    BY NowType, BackendAssumption DEF TypeOK, Reader, Times
  <2>1. CASE AskPolicy(t)
    BY <2>1, IdleType, BecomesType DEF AskPolicy, Asking, TypeOK, Reader, backend
  <2>2. CASE Refresh(t)
    <3>1. Refreshing(t) \in Reader
      BY <2>0, IdleType DEF Refreshing, Asking, Reader
    <3> QED BY <2>0, <2>2, <3>1, IdleType, BecomesType DEF Refresh, TypeOK, Unread
  <2>3. CASE Look(t)
    <3>1. [r EXCEPT !.at = IF cache.of # 0 THEN "return" ELSE "send"] \in Reader
      BY <2>0 DEF Reader
    <3> QED BY <2>3, <3>1, BecomesType DEF Look, TypeOK, backend
  <2>4. CASE ReadAccessList(t)
    <3> DEFINE s == [r EXCEPT !.read = [NotRead EXCEPT !.of = Now]]
    <3>1. s \in Reader /\ s.read \in Read /\ [s EXCEPT !.at = "store"] \in Reader
          /\ [s EXCEPT !.at = "groups"] \in Reader
      BY <2>0, IdleType DEF Reader, Read, NotRead
    <3>2. WithDefinitions(s) \in Reader
      BY <3>1 DEF WithDefinitions, TypeOK, Reader, Read
    <3> QED BY <2>4, <3>1, <3>2, BecomesType DEF ReadAccessList, TypeOK, backend
  <2>5. CASE Raise(t)
    BY <2>5, IdleType, BecomesType, BackendAssumption DEF Raise, TypeOK, backend
  <2>6. CASE ReadGroups(t)
    <3>1. PICK time \in {0, Now} : /\ Outcome(time)
                                   /\ Becomes(t, [r EXCEPT !.at = "objects", !.read.groups = time])
      BY <2>6 DEF ReadGroups
    <3>2. [r EXCEPT !.at = "objects", !.read.groups = time] \in Reader
      BY <2>0, <3>1 DEF Reader, Read
    <3>3. failures' \in 0..MaxFailures
      BY <3>1, BackendAssumption DEF Outcome, TypeOK
    <3> QED BY <2>6, <3>1, <3>2, <3>3, BecomesType DEF ReadGroups, TypeOK, backend
  <2>7. CASE ReadObjects(t)
    <3>1. PICK time \in {0, Now} :
             /\ Outcome(time)
             /\ defs' = [at |-> "read", groups |-> r.read.groups, objects |-> time]
             /\ Becomes(t, [r EXCEPT !.at = IF r.for = "nat" THEN "assess" ELSE "store",
                                     !.read.objects = time])
      BY <2>7 DEF ReadObjects
    <3>2. [r EXCEPT !.at = IF r.for = "nat" THEN "assess" ELSE "store",
                    !.read.objects = time] \in Reader
      BY <2>0, <3>1 DEF Reader, Read
    <3>3. failures' \in 0..MaxFailures
      BY <3>1, BackendAssumption DEF Outcome, TypeOK
    <3>4. defs' \in [at : {"unread", "read"}, groups : Times, objects : Times]
      BY <2>0, <3>1 DEF Read
    <3> QED BY <2>7, <3>1, <3>2, <3>3, <3>4, BecomesType DEF ReadObjects, TypeOK
  <2>8. CASE Store(t)
    <3>1. [r EXCEPT !.at = "return"] \in Reader
      BY <2>0 DEF Reader
    <3> QED BY <2>0, <2>8, <3>1, BecomesType DEF Store, TypeOK
  <2>9. CASE Return(t)
    <3>1. [r EXCEPT !.at = "idle", !.read = NotRead, !.got = cache] \in Reader
      BY <2>0, IdleType DEF Reader, TypeOK
    <3> QED BY <2>9, <3>1, BecomesType DEF Return, TypeOK, backend
  <2>10. CASE AskNat(t)
    <3>1. /\ [Idle EXCEPT !.said = "clear"] \in Reader
          /\ [Idle EXCEPT !.at = "nat", !.for = "nat"] \in Reader
      BY IdleType DEF Reader
    <3> QED BY <2>10, <3>1, BecomesType DEF AskNat, Said, TypeOK, backend
  <2>11. CASE IosNat(t)
    <3>1. PICK time \in {0, Now}, word \in {"unresolved", "translated", "clear"} :
             Outcome(time) /\ Said(t, word)
      BY <2>11 DEF IosNat, Word
    <3>2. [Idle EXCEPT !.said = word] \in Reader
      BY <3>1, IdleType DEF Reader
    <3>3. failures' \in 0..MaxFailures
      BY <3>1, BackendAssumption DEF Outcome, TypeOK
    <3> QED BY <2>11, <3>1, <3>2, <3>3, BecomesType DEF IosNat, Said, TypeOK, backend
  <2>12. CASE ReadNat(t)
    <3>1. PICK time \in {0, Now} :
             /\ Outcome(time)
             /\ nat' = [at |-> IF time = 0 THEN "failed" ELSE "read", of |-> time]
             /\ IF time = 0 THEN Said(t, "unresolved") ELSE UNCHANGED reader
      BY <2>12 DEF ReadNat
    <3>2. [Idle EXCEPT !.said = "unresolved"] \in Reader
      BY IdleType DEF Reader
    <3>3. failures' \in 0..MaxFailures
      BY <3>1, BackendAssumption DEF Outcome, TypeOK
    <3>4. reader' \in [Threads -> Reader]
      BY <3>1, <3>2, BecomesType DEF Said, TypeOK
    <3> QED BY <2>0, <2>12, <3>1, <3>3, <3>4 DEF ReadNat, TypeOK
  <2>13. CASE ResolveNat(t)
    <3>1. [Idle EXCEPT !.said = "clear"] \in Reader
      BY IdleType DEF Reader
    <3>2. /\ [r EXCEPT !.at = "groups"] \in Reader
          /\ [r EXCEPT !.at = "assess", !.read.objects = defs.objects] \in Reader
      BY <2>0 DEF Reader, Read, TypeOK
    <3> QED BY <2>13, <3>1, <3>2, BecomesType DEF ResolveNat, TypeOK, backend
  <2>14. CASE Assess(t)
    <3>1. PICK word \in {"unresolved", "translated", "clear"} : Said(t, word)
      BY <2>14 DEF Assess, Word
    <3>2. [Idle EXCEPT !.said = word] \in Reader
      BY <3>1, IdleType DEF Reader
    <3> QED BY <2>14, <3>1, <3>2, BecomesType DEF Assess, Said, TypeOK, backend
  <2> QED BY <1>2, <2>1, <2>2, <2>3, <2>4, <2>5, <2>6, <2>7, <2>8, <2>9, <2>10, <2>11, <2>12,
             <2>13, <2>14
<1>3. CASE UNCHANGED vars
  BY <1>3 DEF vars, TypeOK
<1> QED BY <1>1, <1>2, <1>3 DEF Next

-----------------------------------------------------------------------------
(* What a refreshed thread relies on                                       *)

\* Steps of any thread bring no earlier time than those there are.
LEMMA Keeps ==
    ASSUME TypeOK, NatUnread, NEW s \in Nat, s <= Now, AllAfter(s), NEW t \in Threads,
           \/ AskPolicy(t) \/ Refresh(t) \/ Look(t) \/ ReadAccessList(t) \/ Raise(t)
           \/ ReadGroups(t) \/ ReadObjects(t) \/ Store(t) \/ Return(t)
           \/ AskNat(t) \/ IosNat(t) \/ ReadNat(t) \/ ResolveNat(t) \/ Assess(t)
    PROVE  AllAfter(s)'
<1> DEFINE r == reader[t]
<1>0. /\ reader \in [Threads -> Reader] /\ r \in Reader /\ r.read \in Read
      /\ Now \in Nat
  BY NowType, BackendAssumption DEF TypeOK, Reader, Times
<1>1. After(NotRead, s)
  BY DEF After, NotRead
<1>2. ASSUME NEW x, Becomes(t, x)
      PROVE  reader'[t] = x /\ \A u \in Threads \ {t} : reader'[u] = reader[u]
  BY <1>0, <1>2 DEF Becomes
<1>3. ASSUME NEW x, Becomes(t, x), x.at \notin {"groups", "objects", "store"} \/ After(x.read, s),
             After(cache', s), \A time \in {defs'.groups, defs'.objects} : time = 0 \/ time >= s
      PROVE  AllAfter(s)'
  BY <1>2, <1>3 DEF AllAfter, After, Underway
<1>4. After(cache, s) /\ \A time \in {defs.groups, defs.objects} : time = 0 \/ time >= s
  BY DEF AllAfter
<1>5. Underway(t) => After(r.read, s)
  BY DEF AllAfter
<1>6. CASE AskPolicy(t)
  BY <1>3, <1>4, <1>6 DEF AskPolicy, Asking, Idle, backend
<1>7. CASE Refresh(t)
  BY <1>1, <1>3, <1>7 DEF Refresh, Refreshing, Asking, Idle, Unread
<1>8. CASE Look(t)
  <2> DEFINE x == [r EXCEPT !.at = IF cache.of # 0 THEN "return" ELSE "send"]
  <2>1. x.at \in {"return", "send"}
    BY <1>0 DEF Reader
  <2> QED BY <1>3, <1>4, <1>8, <2>1 DEF Look, backend
<1>9. CASE ReadAccessList(t)
  <2> DEFINE x == [r EXCEPT !.read = [NotRead EXCEPT !.of = Now]]
  <2>1. /\ After([x EXCEPT !.at = "store"].read, s) /\ After([x EXCEPT !.at = "groups"].read, s)
        /\ After(WithDefinitions(x).read, s)
    BY <1>0, <1>4 DEF After, NotRead, WithDefinitions, Reader
  <2> QED BY <1>3, <1>4, <1>9, <2>1 DEF ReadAccessList, backend
<1>10. CASE Raise(t)
  BY <1>3, <1>4, <1>10 DEF Raise, Idle, backend
<1>11. CASE ReadGroups(t)
  <2>1. PICK time \in {0, Now} : Becomes(t, [r EXCEPT !.at = "objects", !.read.groups = time])
    BY <1>11 DEF ReadGroups
  <2>2. After([r EXCEPT !.at = "objects", !.read.groups = time].read, s)
    BY <1>0, <1>5, <1>11, <2>1 DEF ReadGroups, Underway, After, Reader, Read
  <2> QED BY <1>3, <1>4, <1>11, <2>1, <2>2 DEF ReadGroups, backend
<1>12. CASE ReadObjects(t)
  <2>1. PICK time \in {0, Now} :
           /\ defs' = [at |-> "read", groups |-> r.read.groups, objects |-> time]
           /\ Becomes(t, [r EXCEPT !.at = IF r.for = "nat" THEN "assess" ELSE "store",
                                   !.read.objects = time])
    BY <1>12 DEF ReadObjects
  <2>2. After(r.read, s)
    BY <1>5, <1>12 DEF ReadObjects, Underway
  <2>3. After([r EXCEPT !.at = IF r.for = "nat" THEN "assess" ELSE "store",
                        !.read.objects = time].read, s)
    BY <1>0, <2>1, <2>2 DEF After, Reader, Read
  <2>4. \A d \in {defs'.groups, defs'.objects} : d = 0 \/ d >= s
    BY <2>1, <2>2 DEF After
  <2> QED BY <1>3, <1>4, <1>12, <2>1, <2>3, <2>4 DEF ReadObjects
<1>13. CASE Store(t)
  <2>1. After(cache', s)
    BY <1>5, <1>13 DEF Store, Underway
  <2>2. [r EXCEPT !.at = "return"].at = "return"
    BY <1>0 DEF Reader
  <2> QED BY <1>3, <1>4, <1>13, <2>1, <2>2 DEF Store
<1>14. CASE Return(t)
  <2>1. [r EXCEPT !.at = "idle", !.read = NotRead, !.got = cache].at = "idle"
    BY <1>0 DEF Reader
  <2> QED BY <1>3, <1>4, <1>14, <2>1 DEF Return, backend
<1>15. CASE AskNat(t)
  <2>1. /\ [Idle EXCEPT !.said = "clear"].at = "idle"
        /\ [Idle EXCEPT !.at = "nat", !.for = "nat"].at = "nat"
    BY DEF Idle
  <2> QED BY <1>3, <1>4, <1>15, <2>1 DEF AskNat, Said, backend
<1>16. ASSUME NEW word, Said(t, word), UNCHANGED <<cache, defs>> PROVE AllAfter(s)'
  <2>1. [Idle EXCEPT !.said = word].at = "idle"
    BY DEF Idle
  <2> QED BY <1>3, <1>4, <1>16, <2>1 DEF Said
<1>17. CASE IosNat(t)
  BY <1>16, <1>17 DEF IosNat, backend
<1>18. CASE ReadNat(t)
  <2>1. CASE UNCHANGED reader
    BY <1>18, <2>1 DEF ReadNat, AllAfter, Underway, After
  <2> QED BY <1>16, <1>18, <2>1 DEF ReadNat
<1>19. CASE ResolveNat(t)
  <2>1. CASE Said(t, "clear")
    BY <1>16, <1>19, <2>1 DEF ResolveNat, backend
  <2>2. CASE Becomes(t, [r EXCEPT !.at = "groups"])
    <3>1. After([r EXCEPT !.at = "groups"].read, s)
      BY <1>0, <1>1, <1>19 DEF ResolveNat, Assessing, NatUnread, Reader
    <3> QED BY <1>3, <1>4, <1>19, <2>2, <3>1 DEF ResolveNat, backend
  <2>3. CASE Becomes(t, [r EXCEPT !.at = "assess", !.read.objects = defs.objects])
    <3>1. [r EXCEPT !.at = "assess", !.read.objects = defs.objects].at = "assess"
      BY <1>0 DEF Reader, Read
    <3> QED BY <1>3, <1>4, <1>19, <2>3, <3>1 DEF ResolveNat, backend
  <2> QED BY <1>19, <2>1, <2>2, <2>3 DEF ResolveNat, Said
<1>20. CASE Assess(t)
  BY <1>16, <1>20 DEF Assess, backend
<1> QED BY <1>6, <1>7, <1>8, <1>9, <1>10, <1>11, <1>12, <1>13, <1>14, <1>15, <1>17, <1>18,
           <1>19, <1>20

LEMMA StepNatUnread == TypeOK /\ NatUnread /\ [Next]_vars => NatUnread'
<1> SUFFICES ASSUME TypeOK, NatUnread, [Next]_vars PROVE NatUnread'
  OBVIOUS
<1>0. reader \in [Threads -> Reader]
  BY DEF TypeOK
<1>1. ASSUME NEW t \in Threads, NEW x, Becomes(t, x), x.at # "nat" \/ x.read = NotRead
      PROVE  NatUnread'
  BY <1>0, <1>1 DEF Becomes, NatUnread
<1>2. CASE Change
  BY <1>2 DEF Change, NatUnread
<1>3. ASSUME NEW t \in Threads,
             \/ AskPolicy(t) \/ Refresh(t) \/ Look(t) \/ ReadAccessList(t) \/ Raise(t)
             \/ ReadGroups(t) \/ ReadObjects(t) \/ Store(t) \/ Return(t)
             \/ AskNat(t) \/ IosNat(t) \/ ReadNat(t) \/ ResolveNat(t) \/ Assess(t)
      PROVE  NatUnread'
  <2> DEFINE r == reader[t]
  <2>0. r \in Reader
    BY <1>0
  <2>1. CASE AskPolicy(t) \/ Raise(t)
    BY <1>1, <2>1 DEF AskPolicy, Asking, Raise, Idle
  <2>2. CASE Refresh(t)
    BY <1>1, <2>2 DEF Refresh, Refreshing, Asking, Idle
  <2>3. CASE Look(t)
    <3>1. [r EXCEPT !.at = IF cache.of # 0 THEN "return" ELSE "send"].at # "nat"
      BY <2>0 DEF Reader
    <3> QED BY <1>1, <2>3, <3>1 DEF Look
  <2>4. CASE ReadAccessList(t)
    <3> DEFINE x == [r EXCEPT !.read = [NotRead EXCEPT !.of = Now]]
    <3>1. /\ [x EXCEPT !.at = "store"].at # "nat" /\ [x EXCEPT !.at = "groups"].at # "nat"
          /\ WithDefinitions(x).at # "nat"
      BY <2>0 DEF WithDefinitions, Reader
    <3> QED BY <1>1, <2>4, <3>1 DEF ReadAccessList
  <2>5. CASE ReadGroups(t)
    <3>1. PICK time : Becomes(t, [r EXCEPT !.at = "objects", !.read.groups = time])
      BY <2>5 DEF ReadGroups
    <3>2. [r EXCEPT !.at = "objects", !.read.groups = time].at # "nat"
      BY <2>0 DEF Reader
    <3> QED BY <1>1, <3>1, <3>2
  <2>6. CASE ReadObjects(t)
    <3>1. PICK time : Becomes(t, [r EXCEPT !.at = IF r.for = "nat" THEN "assess" ELSE "store",
                                           !.read.objects = time])
      BY <2>6 DEF ReadObjects
    <3> DEFINE x == [r EXCEPT !.at = IF r.for = "nat" THEN "assess" ELSE "store",
                              !.read.objects = time]
    <3>2. Becomes(t, x) /\ x.at # "nat"
      BY <2>0, <3>1 DEF Reader
    <3> HIDE DEF x
    <3> QED BY <1>1, <3>2
  <2>7. CASE Store(t)
    <3>1. [r EXCEPT !.at = "return"].at # "nat"
      BY <2>0 DEF Reader
    <3> QED BY <1>1, <2>7, <3>1 DEF Store
  <2>8. CASE Return(t)
    <3>1. [r EXCEPT !.at = "idle", !.read = NotRead, !.got = cache].at # "nat"
      BY <2>0 DEF Reader
    <3> QED BY <1>1, <2>8, <3>1 DEF Return
  <2>9. ASSUME NEW word, Said(t, word) PROVE NatUnread'
    <3>1. [Idle EXCEPT !.said = word].at # "nat"
      BY DEF Idle
    <3> QED BY <1>1, <2>9, <3>1 DEF Said
  <2>10. CASE AskNat(t)
    <3>1. [Idle EXCEPT !.at = "nat", !.for = "nat"].read = NotRead
      BY DEF Idle
    <3> QED BY <1>1, <2>9, <2>10, <3>1 DEF AskNat
  <2>11. CASE IosNat(t) \/ Assess(t)
    BY <2>9, <2>11 DEF IosNat, Assess
  <2>12. CASE ReadNat(t)
    <3>1. CASE UNCHANGED reader
      BY <3>1 DEF NatUnread
    <3> QED BY <2>9, <2>12, <3>1 DEF ReadNat
  <2>13. CASE ResolveNat(t)
    <3>1. /\ [r EXCEPT !.at = "groups"].at # "nat"
          /\ [r EXCEPT !.at = "assess", !.read.objects = defs.objects].at # "nat"
          /\ [Idle EXCEPT !.said = "clear"].at # "nat"
      BY <2>0 DEF Reader, Idle
    <3> QED BY <1>1, <2>13, <3>1 DEF ResolveNat
  <2> QED BY <1>3, <2>1, <2>2, <2>3, <2>4, <2>5, <2>6, <2>7, <2>8, <2>10, <2>11, <2>12, <2>13
<1>4. CASE UNCHANGED vars
  BY <1>4 DEF vars, NatUnread
<1> QED BY <1>2, <1>3, <1>4 DEF Next

\* What a thread relies on is its own refresh, and every step keeps it.
LEMMA StepReliance == Inv /\ [Next]_vars => Reliance'
<1> SUFFICES ASSUME Inv, [Next]_vars PROVE Reliance'
  OBVIOUS
<1>0. /\ reader \in [Threads -> Reader] /\ Now \in Nat /\ TypeOK /\ NatUnread /\ Reliance
      /\ \A t \in Threads : reader[t].since \in Nat
  BY NowType, BackendAssumption DEF Inv, TypeOK, Reader, Times
<1>1. CASE Change
  <2>1. Now' = Now + 1
    BY <1>1 DEF Change, Now, TypeOK, Inv
  <2>2. \A t \in Threads : AllAfter(reader[t].since)' <=> AllAfter(reader[t].since)
    BY <1>1 DEF Change, backend, AllAfter, After, Underway
  <2> QED BY <1>0, <1>1, <2>1, <2>2 DEF Change, Reliance, Relying, After
<1>2. ASSUME NEW t \in Threads,
             \/ AskPolicy(t) \/ Refresh(t) \/ Look(t) \/ ReadAccessList(t) \/ Raise(t)
             \/ ReadGroups(t) \/ ReadObjects(t) \/ Store(t) \/ Return(t)
             \/ AskNat(t) \/ IosNat(t) \/ ReadNat(t) \/ ResolveNat(t) \/ Assess(t)
      PROVE  Reliance'
  <2> DEFINE r == reader[t]
             Fine(v) == Relying(v) =>
                            /\ reader[v].since <= Now
                            /\ reader[v].at # "idle" => AllAfter(reader[v].since)
                            /\ reader[v].at = "idle" => After(reader[v].got, reader[v].since)
  <2>0. r \in Reader /\ r.since \in Nat /\ Now' = Now
    BY <1>0, <1>2 DEF AskPolicy, Refresh, Look, ReadAccessList, Raise, ReadGroups, ReadObjects,
                      Store, Return, AskNat, IosNat, ReadNat, ResolveNat, Assess, Now
  <2>a. ASSUME NEW v \in Threads, Relying(v), reader[v].at # "idle"
         PROVE  \E s \in Nat : s = reader[v].since /\ s <= Now /\ AllAfter(s)'
    <3>1. PICK s \in Nat : s = reader[v].since
      BY <1>0
    <3>2. s <= Now /\ AllAfter(s)
      BY <1>0, <2>a, <3>1 DEF Reliance
    <3>3. AllAfter(s)'
      BY <1>0, <1>2, <3>2, Keeps
    <3> QED BY <3>1, <3>2, <3>3
  <2>1. ASSUME NEW v \in Threads, reader'[v] = reader[v] PROVE Fine(v)'
    <3>1. CASE ~Relying(v)
      BY <2>1, <3>1 DEF Relying
    <3>2. CASE Relying(v) /\ reader[v].at = "idle"
      BY <1>0, <2>0, <2>1, <3>2 DEF Reliance, Relying, After
    <3>3. CASE Relying(v) /\ reader[v].at # "idle"
      <4>1. PICK s \in Nat : s = reader[v].since /\ s <= Now /\ AllAfter(s)'
        BY <2>a, <3>3
      <4> QED BY <2>0, <2>1, <3>3, <4>1 DEF AllAfter, After
    <3> QED BY <3>1, <3>2, <3>3
  <2>2. ASSUME NEW x, Becomes(t, x), Fine(t)' PROVE Reliance'
    <3>1. \A v \in Threads \ {t} : reader'[v] = reader[v]
      BY <1>0, <2>2 DEF Becomes
    <3> QED BY <2>1, <2>2, <3>1 DEF Reliance
  <2>3. ASSUME NEW x, Becomes(t, x), x.since = 0 PROVE Reliance'
    <3>1. reader'[t] = x
      BY <1>0, <2>3 DEF Becomes
    <3> QED BY <2>2, <2>3, <3>1 DEF Relying
  <2>4. ASSUME NEW x, Becomes(t, x), r.at # "idle", x.at # "idle", x.since = r.since,
               x.overlap = r.overlap
        PROVE  Reliance'
    <3>1. reader'[t] = x
      BY <1>0, <2>4 DEF Becomes
    <3>2. CASE ~Relying(t)
      <4>1. Fine(t)'
        BY <2>4, <3>1, <3>2 DEF Relying
      <4> QED BY <2>2, <2>4, <4>1
    <3>3. CASE Relying(t)
      <4>1. PICK s \in Nat : s = r.since /\ s <= Now /\ AllAfter(s)'
        BY <2>4, <2>a, <3>3
      <4>2. Fine(t)'
        BY <2>0, <2>4, <3>1, <4>1 DEF AllAfter, After
      <4> QED BY <2>2, <2>4, <4>2
    <3> QED BY <3>2, <3>3
  <2>5. ASSUME NEW word, Said(t, word) PROVE Reliance'
    <3>1. [Idle EXCEPT !.said = word].since = 0
      BY DEF Idle
    <3> QED BY <2>3, <2>5, <3>1 DEF Said
  <2>6. CASE AskPolicy(t) \/ Raise(t)
    BY <2>3, <2>6 DEF AskPolicy, Asking, Raise, Idle
  <2>7. CASE Refresh(t)
    <3> DEFINE x == Refreshing(t)
    <3>1. /\ x.since = Now /\ x.at = "ask"
          /\ x.overlap = "alone" => \A u \in Threads \ {t} : ~Underway(u)
      BY DEF Refreshing, Asking, Idle
    <3>2. reader'[t] = x /\ \A u \in Threads \ {t} : reader'[u] = reader[u]
      BY <1>0, <2>7 DEF Refresh, Becomes
    <3>3. x.overlap = "alone" => \A u \in Threads : ~Underway(u)'
      BY <3>1, <3>2 DEF Underway
    <3>4. PICK s \in Nat : s = Now
      BY <1>0
    <3>5. x.overlap = "alone" => AllAfter(s)'
      BY <2>7, <3>3 DEF Refresh, AllAfter, After, NotRead, Unread
    <3>6. Fine(t)'
      <4>1. reader'[t].since = s /\ reader'[t].at = "ask" /\ reader'[t].overlap = x.overlap
        BY <3>1, <3>2, <3>4
      <4> HIDE DEF x
      <4> QED BY <2>0, <3>4, <3>5, <4>1 DEF Relying, AllAfter, After
    <3> QED BY <2>2, <2>7, <3>6 DEF Refresh
  <2>8. CASE Look(t)
    <3> DEFINE x == [r EXCEPT !.at = IF cache.of # 0 THEN "return" ELSE "send"]
    <3>1. x.at # "idle" /\ x.since = r.since /\ x.overlap = r.overlap
      BY <2>0 DEF Reader
    <3> QED BY <2>4, <2>8, <3>1 DEF Look
  <2>9. CASE ReadAccessList(t)
    <3> DEFINE x == [r EXCEPT !.read = [NotRead EXCEPT !.of = Now]]
    <3>1. \A y \in {[x EXCEPT !.at = "store"], [x EXCEPT !.at = "groups"], WithDefinitions(x)} :
             y.at # "idle" /\ y.since = r.since /\ y.overlap = r.overlap
      BY <2>0 DEF WithDefinitions, Reader
    <3> QED BY <2>4, <2>9, <3>1 DEF ReadAccessList
  <2>10. CASE ReadGroups(t)
    <3>1. PICK time : Becomes(t, [r EXCEPT !.at = "objects", !.read.groups = time])
      BY <2>10 DEF ReadGroups
    <3> DEFINE x == [r EXCEPT !.at = "objects", !.read.groups = time]
    <3>2. x.at # "idle" /\ x.since = r.since /\ x.overlap = r.overlap
      BY <2>0 DEF Reader
    <3> QED BY <2>4, <2>10, <3>1, <3>2 DEF ReadGroups
  <2>11. CASE ReadObjects(t)
    <3>1. PICK time : Becomes(t, [r EXCEPT !.at = IF r.for = "nat" THEN "assess" ELSE "store",
                                           !.read.objects = time])
      BY <2>11 DEF ReadObjects
    <3> DEFINE x == [r EXCEPT !.at = IF r.for = "nat" THEN "assess" ELSE "store",
                              !.read.objects = time]
    <3>2. x.at # "idle" /\ x.since = r.since /\ x.overlap = r.overlap
      BY <2>0 DEF Reader
    <3> QED BY <2>4, <2>11, <3>1, <3>2 DEF ReadObjects
  <2>12. CASE Store(t)
    <3> DEFINE x == [r EXCEPT !.at = "return"]
    <3>1. x.at # "idle" /\ x.since = r.since /\ x.overlap = r.overlap
      BY <2>0 DEF Reader
    <3> QED BY <2>4, <2>12, <3>1 DEF Store
  <2>13. CASE Return(t)
    <3> DEFINE x == [r EXCEPT !.at = "idle", !.read = NotRead, !.got = cache]
    <3>1. x.at = "idle" /\ x.since = r.since /\ x.overlap = r.overlap /\ x.got = cache
      BY <2>0 DEF Reader
    <3>2. reader'[t] = x
      BY <1>0, <2>13 DEF Return, Becomes
    <3>3. Relying(t) => r.since <= Now /\ After(cache, r.since)
      BY <1>0, <2>13 DEF Return, Reliance, AllAfter
    <3>4. Fine(t)'
      BY <2>0, <3>1, <3>2, <3>3 DEF Relying, After
    <3> QED BY <2>2, <2>13, <3>4 DEF Return
  <2>14. CASE AskNat(t)
    <3>1. [Idle EXCEPT !.at = "nat", !.for = "nat"].since = 0
      BY DEF Idle
    <3> QED BY <2>3, <2>5, <2>14, <3>1 DEF AskNat
  <2>15. CASE IosNat(t) \/ Assess(t)
    BY <2>5, <2>15 DEF IosNat, Assess
  <2>16. CASE ReadNat(t)
    <3>1. CASE UNCHANGED reader
      <4>1. Fine(t)'
        BY <2>1, <3>1
      <4> QED BY <2>1, <3>1, <4>1 DEF Reliance
    <3> QED BY <2>5, <2>16, <3>1 DEF ReadNat
  <2>17. CASE ResolveNat(t)
    <3>1. \A y \in {[r EXCEPT !.at = "groups"],
                    [r EXCEPT !.at = "assess", !.read.objects = defs.objects]} :
             y.at # "idle" /\ y.since = r.since /\ y.overlap = r.overlap
      BY <2>0 DEF Reader
    <3> QED BY <2>4, <2>5, <2>17, <3>1 DEF ResolveNat, Assessing, Said
  <2> QED BY <1>2, <2>6, <2>7, <2>8, <2>9, <2>10, <2>11, <2>12, <2>13, <2>14, <2>15, <2>16, <2>17
<1>3. CASE UNCHANGED vars
  BY <1>0, <1>3 DEF vars, Reliance, Relying, AllAfter, After, Underway, Now
<1> QED BY <1>1, <1>2, <1>3 DEF Next

-----------------------------------------------------------------------------
(* Theorems                                                                *)

LEMMA InitInv == Init => Inv
BY InitTypes DEF Init, Inv, Reliance, Relying, NatUnread, Idle

LEMMA StepInv == Inv /\ [Next]_vars => Inv'
BY StepTypes, StepReliance, StepNatUnread DEF Inv

\* What refreshed threads rely on (refresh and _policy_result, which share the
\* caches) holds of every behaviour.
THEOREM Inductive == Spec => []Inv
<1> QED BY InitInv, StepInv, PTL DEF Spec

\* The caches and what threads have in hand are of times the device has been
\* through (acl_policy, nat_assessment).
THEOREM BackendTypes == Spec => []TypeOK
<1>1. Inv => TypeOK
  BY DEF Inv
<1> QED BY <1>1, Inductive, PTL

\* For any number of threads, devices, changes and failing commands: a policy
\* asked for after refresh is no older than the refresh, unless a read was held
\* across it (refresh, _policy_result and _definitions).
THEOREM RefreshedIsFresh == Spec => []FreshUnlessOverlapped
<1>1. Inv => FreshUnlessOverlapped
  <2> SUFFICES ASSUME Inv, NEW t \in Threads, reader[t].at = "idle", reader[t].since # 0,
                      reader[t].got.of # 0, reader[t].overlap = "alone"
               PROVE  /\ reader[t].got.of >= reader[t].since
                      /\ \A time \in {reader[t].got.groups, reader[t].got.objects} :
                             time = 0 \/ time >= reader[t].since
    BY DEF FreshUnlessOverlapped
  <2>1. After(reader[t].got, reader[t].since)
    BY DEF Inv, Reliance, Relying
  <2> QED BY <2>1 DEF After
<1> QED BY <1>1, Inductive, PTL

-----------------------------------------------------------------------------
(* Induction over the naturals, for sets in the place of predicates        *)

LEMMA LeastNatural ==
    ASSUME NEW S \in SUBSET Nat, S # {}
    PROVE  \E n \in S : \A m \in S : n <= m
<1> DEFINE Below == {pair \in Nat \X Nat : pair[1] < pair[2]}
<1>1. IsWellFoundedOn(Below, Nat)
  BY NatLessThanWellFounded DEF OpToRel
<1>2. PICK n \in S : \A m \in S : ~(<<m, n>> \in Below)
  <2> HIDE DEF Below
  <2> QED BY <1>1, WFMin
<1>3. \A m \in S : n <= m
  <2> TAKE m \in S
  <2>1. m \in Nat /\ n \in Nat /\ <<m, n>> \in Nat \X Nat /\ <<m, n>> \notin Below
    BY <1>2
  <2>2. ~(m < n)
    BY <2>1
  <2> QED BY <2>1, <2>2
<1> QED BY <1>3

LEMMA NaturalInduction ==
    ASSUME NEW S, 0 \in S, \A n \in Nat : n \in S => n + 1 \in S
    PROVE  \A n \in Nat : n \in S
<1> SUFFICES ASSUME NEW k \in Nat, k \notin S PROVE FALSE
  OBVIOUS
<1>1. PICK n \in Nat \ S : \A m \in Nat \ S : n <= m
  BY LeastNatural
<1>2. n # 0 /\ n - 1 \in Nat /\ n - 1 \in S
  BY <1>1
<1> QED BY <1>1, <1>2

-----------------------------------------------------------------------------
(* What a translation means, and what the assessment makes of it           *)

\* A name that refers to nothing is all its expansion comes to.
LEMMA ReachedAlone ==
    ASSUME NEW key, NEW ds, References(key, ds) = {}
    PROVE  Reached(key, ds) = {key}
<1> DEFINE Step(f) == [n \in Nat |-> IF n = 0 THEN {key}
                                     ELSE f[n - 1] \cup UNION {References(k, ds) : k \in f[n - 1]}]
           within == CHOOSE f : f = Step(f)
           alone == [n \in Nat |-> {key}]
<1>1. Step(alone) = alone
  OBVIOUS
<1>2. within = Step(within)
  <2> HIDE DEF Step, alone
  <2> QED BY <1>1
<1>3. Reached(key, ds) = within[2 * Cardinality(Names)]
  BY DEF Reached
<1> HIDE DEF within
<1>4. /\ within[0] = {key}
      /\ \A n \in Nat : within[n + 1] = within[n] \cup UNION {References(k, ds) : k \in within[n]}
  BY <1>2
<1> DEFINE S == {n \in Nat : within[n] = {key}}
<1>5. 0 \in S /\ \A n \in Nat : n \in S => n + 1 \in S
  <2>1. ASSUME NEW n \in Nat, n \in S PROVE n + 1 \in S
    <3>1. within[n] = {key} /\ n + 1 \in Nat
      BY <2>1
    <3>2. UNION {References(k, ds) : k \in {key}} = {}
      OBVIOUS
    <3>3. within[n + 1] = {key}
      BY <1>4, <3>1, <3>2
    <3> QED BY <3>1, <3>3
  <2>2. 0 \in S
    BY <1>4
  <2> QED BY <2>1, <2>2
<1>6. \A n \in Nat : n \in S
  <2> HIDE DEF S
  <2> QED BY <1>5, NaturalInduction
<1>7. 2 * Cardinality(Names) \in Nat
  BY ReadingAssumption, FS_CardinalityType
<1> QED BY <1>3, <1>6, <1>7

\* Where the object is known, its one line is all it means to the device.
LEMMA ObjectMeans ==
    ASSUME NEW dev, IsDevice(dev), NEW end, end.kind = "object",
           \A name \in DOMAIN dev.objects : OneLine(dev.objects[name]),
           end.name \in DOMAIN dev.objects, dev.objects[end.name].networks # {}
    PROVE  EndMeans(end, dev) = UNION dev.objects[end.name].networks
<1> DEFINE ds == Definitions(dev.groups, dev.objects)
           key == <<"object", end.name>>
           object == dev.objects[end.name]
<1>1. ds["object"] = dev.objects /\ key[1] = "object" /\ key[2] = end.name
  BY DEF Definitions
<1>2. object.members = {} /\ object.refs = {} /\ object.foreign = {}
  BY DEF OneLine
<1>3. References(key, ds) = {} /\ Known(key, ds)
  BY <1>1, <1>2 DEF References, Known
<1>4. Reached(key, ds) = {key}
  BY <1>3, ReachedAlone
<1>5. Defined(key, dev) = {object}
  <2> HIDE DEF ds, key
  <2>1. {k \in Reached(key, ds) : Known(k, ds)} = {key}
    BY <1>3, <1>4
  <2>2. Defined(key, dev) = {ds[k[1]][k[2]] : k \in {key}}
    BY <2>1 DEF Defined, ds
  <2> QED BY <1>1, <2>2
<1>6. DefinedEnds(end, dev) = [kind : {"net"}, of : object.networks, name : {"none"}]
                                 \cup [kind : {"fqdn"}, of : {}, name : {"none"}]
  <2>1. UNION {d.networks : d \in {object}} = object.networks
    OBVIOUS
  <2>2. {d.foreign : d \in {object}} \ {{}} = {}
    BY <1>2
  <2> QED BY <1>5, <2>1, <2>2 DEF DefinedEnds
<1> DEFINE nets == [kind : {"net"}, of : object.networks, name : {"none"}]
<1>7. UNION {e.of : e \in DefinedEnds(end, dev)} = UNION {e.of : e \in nets}
  BY <1>6
<1>8. UNION {e.of : e \in nets} = UNION object.networks
  <2>1. \A e \in nets : e.of \in object.networks
    OBVIOUS
  <2>2. \A n \in object.networks : [kind |-> "net", of |-> n, name |-> "none"] \in nets
    OBVIOUS
  <2> HIDE DEF nets
  <2>3. \A n \in object.networks : \E e \in nets : e.of = n
    BY <2>2
  <2> QED BY <2>1, <2>3
<1> QED BY <1>7, <1>8 DEF EndMeans

\* An operand that covers no address of the flow is one the device does not
\* translate it by, as long as the definitions are those of the device.
LEMMA NotCovered ==
    ASSUME NEW dev, IsDevice(dev), NEW end, NEW addr, NEW objects,
           \A name \in DOMAIN dev.objects : OneLine(dev.objects[name]),
           objects = <<>> \/ objects = ParsedAll(dev.objects),
           end.kind \in {"any", "net", "wild", "fqdn", "keyword", "group", "object"},
           Covers(end, addr, Definitions(<<>>, objects)) \notin {"yes", "unknown"}
    PROVE  end.kind = "keyword" \/ addr \notin EndMeans(end, dev)
<1> DEFINE ds == Definitions(<<>>, objects)
           key == <<"object", end.name>>
           covers == Covers(end, addr, ds)
<1>1. CASE end.kind \in {"any", "fqdn", "group"}
  BY <1>1 DEF Covers
<1>2. CASE end.kind = "keyword"
  BY <1>2
<1>3. CASE end.kind \in {"net", "wild"}
  <2>1. covers = IF addr \in end.of THEN "yes" ELSE "no"
    BY <1>3 DEF Covers
  <2>2. addr \notin end.of
    BY <2>1
  <2>3. EndMeans(end, dev) = end.of
    BY <1>3 DEF EndMeans
  <2> QED BY <2>2, <2>3
<1>4. CASE end.kind = "object"
  <2> DEFINE expansion == Expand(key, ds)
  <2>1. covers = IF expansion.networks = {} THEN "unknown"
                 ELSE IF addr \in UNION expansion.networks THEN "yes" ELSE "no"
    BY <1>4 DEF Covers
  <2>2. expansion.networks # {} /\ addr \notin UNION expansion.networks
    BY <2>1
  <2>3. ds["object"] = objects /\ key[1] = "object" /\ key[2] = end.name
    BY DEF Definitions
  <2>4. References(key, ds) = {}
    <3>1. CASE ~Known(key, ds)
      BY <3>1 DEF References
    <3>2. CASE Known(key, ds)
      <4>1. end.name \in DOMAIN objects
        BY <2>3, <3>2 DEF Known
      <4>2. objects = ParsedAll(dev.objects) /\ end.name \in DOMAIN dev.objects
        BY <4>1 DEF ParsedAll
      <4>3. objects[end.name].members = {} /\ objects[end.name].refs = {}
        BY <4>2 DEF ParsedAll, Parsed, OneLine
      <4> QED BY <2>3, <4>3 DEF References
    <3> QED BY <3>1, <3>2
  <2>5. Reached(key, ds) = {key}
    BY <2>4, ReachedAlone
  <2>6. expansion.networks = UNION {e.networks : e \in {ds[k[1]][k[2]] :
                                        k \in {r \in {key} : Known(r, ds)}}}
    BY <2>5 DEF Expand
  <2>7. Known(key, ds) /\ expansion.networks = objects[end.name].networks
    <3> HIDE DEF key, ds
    <3>1. Known(key, ds)
      BY <2>2, <2>6
    <3>2. {r \in {key} : Known(r, ds)} = {key}
      BY <3>1
    <3>3. {ds[k[1]][k[2]] : k \in {key}} = {objects[end.name]}
      BY <2>3
    <3>4. UNION {e.networks : e \in {objects[end.name]}} = objects[end.name].networks
      OBVIOUS
    <3> QED BY <2>6, <3>1, <3>2, <3>3, <3>4
  <2>8. end.name \in DOMAIN objects
    BY <2>3, <2>7 DEF Known
  <2>9. objects = ParsedAll(dev.objects) /\ end.name \in DOMAIN dev.objects
    BY <2>8 DEF ParsedAll
  <2>10. objects[end.name].networks = dev.objects[end.name].networks
    BY <2>9 DEF ParsedAll, Parsed
  <2>11. EndMeans(end, dev) = UNION dev.objects[end.name].networks
    BY <1>4, <2>2, <2>7, <2>9, <2>10, ObjectMeans
  <2> QED BY <2>2, <2>7, <2>10, <2>11
<1> QED BY <1>1, <1>2, <1>3, <1>4

-----------------------------------------------------------------------------
(* What is said of translations                                            *)

IsAsa == device.platform = "cisco_asa"

\* On its way to an assessment, for which the translations were read.
Judging(t) ==
    \/ reader[t].at = "assess"
    \/ reader[t].at \in {"groups", "objects"} /\ reader[t].for = "nat"

\* The device stays what its backend was built for, only an ASA's translations
\* are ever read, and whoever judges by them, or has, comes after that.
NatRead ==
    /\ \A i \in 1..Now : history[i].platform = device.platform
    /\ nat.of <= Now /\ (nat.at # "read" => nat.of = 0)
    /\ nat.at # "unread" => IsAsa
    /\ defs.objects <= Now
    /\ \A t \in Threads :
          /\ reader[t].read.objects <= Now
          /\ reader[t].at \in {"ask", "send"} => reader[t].for = "policy"
          /\ Judging(t) => nat.at # "unread"
          /\ (reader[t].said = "clear" /\ IsAsa) => nat.at # "unread"

\* What NatTold says of a thread that said there is no translation.
Untouched ==
    (nat.of # 0 /\ \A i \in 1..Now : history[i].objects = device.objects) =>
        \A rule \in history[nat.of].nat : \A end \in rule.operands :
            rule.identity \/ end.kind = "keyword"
                \/ EndMeans(end, history[nat.of]) \cap Queried = {}

NatInv ==
    /\ TypeOK /\ NatRead
    /\ \A t \in Threads : reader[t].said = "clear" => Untouched

\* A step of one thread that leaves the device and the translations alone.
LEMMA ReaderStep ==
    ASSUME NatInv, NEW t \in Threads, NEW x, Becomes(t, x), UNCHANGED <<history, nat>>,
           defs'.objects <= Now, x.read.objects <= Now,
           x.at \in {"ask", "send"} => x.for = "policy",
           x.at = "assess" \/ (x.at \in {"groups", "objects"} /\ x.for = "nat")
               => nat.at # "unread",
           x.said = "clear" => Untouched /\ (IsAsa => nat.at # "unread")
    PROVE  NatRead' /\ \A u \in Threads : reader'[u].said = "clear" => Untouched'
<1>1. /\ reader'[t] = x
      /\ \A u \in Threads \ {t} : reader'[u] = reader[u]
  BY DEF NatInv, TypeOK, Becomes
<1>2. Now' = Now /\ device' = device /\ history' = history /\ nat' = nat
  BY DEF Now, device
<1>3. Untouched' <=> Untouched
  BY <1>2 DEF Untouched
<1>4. NatRead'
  <2>1. ASSUME NEW u \in Threads
        PROVE  /\ reader'[u].read.objects <= Now'
               /\ reader'[u].at \in {"ask", "send"} => reader'[u].for = "policy"
               /\ Judging(u)' => nat'.at # "unread"
               /\ (reader'[u].said = "clear" /\ IsAsa') => nat'.at # "unread"
    <3>1. CASE u = t
      BY <1>1, <1>2, <3>1 DEF Judging, IsAsa
    <3>2. CASE u # t
      BY <1>1, <1>2, <3>2 DEF Judging, IsAsa, NatInv, NatRead
    <3> QED BY <3>1, <3>2
  <2>2. /\ \A i \in 1..Now' : history'[i].platform = device'.platform
        /\ nat'.of <= Now' /\ (nat'.at # "read" => nat'.of = 0)
        /\ nat'.at # "unread" => IsAsa'
        /\ defs'.objects <= Now'
    BY <1>2 DEF IsAsa, NatInv, NatRead
  <2> QED BY <2>1, <2>2 DEF NatRead
<1>5. ASSUME NEW u \in Threads, reader'[u].said = "clear" PROVE Untouched'
  <2>1. CASE u = t
    BY <1>1, <1>3, <1>5, <2>1
  <2>2. CASE u # t
    BY <1>1, <1>3, <1>5, <2>2 DEF NatInv
  <2> QED BY <2>1, <2>2
<1> QED BY <1>4, <1>5

\* A change of the device leaves what was said true of the translations read.
LEMMA ChangeNat ==
    ASSUME NatInv, Change
    PROVE  NatRead' /\ \A t \in Threads : reader'[t].said = "clear" => Untouched'
<1>1. PICK pair \in Rewrites : pair[1] = device /\ history' = Append(history, pair[2])
  BY DEF Change
<1>2. /\ history \in Seq(Devices) /\ Now \in Nat \ {0} /\ nat.of \in Nat
      /\ pair[1] \in Devices /\ pair[2] \in Devices /\ pair[1].platform = pair[2].platform
  BY NowType, BackendAssumption DEF NatInv, TypeOK, Times
<1>3. /\ Now' = Now + 1 /\ device' = pair[2]
      /\ \A i \in 1..Now : history'[i] = history[i]
  BY <1>1, <1>2 DEF Now, device
<1>4. nat' = nat /\ defs' = defs /\ reader' = reader
  BY DEF Change, backend
<1>5. device'.platform = device.platform
  BY <1>1, <1>2, <1>3
<1>6. \A i \in 1..Now' : history'[i].platform = device'.platform
  <2> TAKE i \in 1..Now'
  <2>1. CASE i \in 1..Now
    BY <1>3, <1>5, <2>1 DEF NatInv, NatRead
  <2>2. CASE i = Now'
    BY <2>2 DEF device
  <2> QED BY <1>2, <1>3, <2>1, <2>2
<1>7. NatRead'
  <2>1. ASSUME NEW u \in Threads
        PROVE  /\ reader'[u].read.objects <= Now'
               /\ reader'[u].at \in {"ask", "send"} => reader'[u].for = "policy"
               /\ Judging(u)' => nat'.at # "unread"
               /\ (reader'[u].said = "clear" /\ IsAsa') => nat'.at # "unread"
    <3>1. reader[u].read.objects \in Nat
      BY BackendAssumption DEF NatInv, TypeOK, Reader, Read, Times
    <3> QED BY <1>2, <1>3, <1>4, <1>5, <3>1 DEF Judging, IsAsa, NatInv, NatRead
  <2>2. defs.objects \in Nat
    BY BackendAssumption DEF NatInv, TypeOK, Times
  <2>3. /\ nat'.of <= Now' /\ (nat'.at # "read" => nat'.of = 0)
        /\ nat'.at # "unread" => IsAsa'
        /\ defs'.objects <= Now'
    BY <1>2, <1>3, <1>4, <1>5, <2>2 DEF IsAsa, NatInv, NatRead
  <2> QED BY <1>6, <2>1, <2>3 DEF NatRead
<1>8. Untouched => Untouched'
  <2> SUFFICES ASSUME Untouched, nat.of # 0,
                      \A i \in 1..Now' : history'[i].objects = device'.objects
               PROVE  \A rule \in history'[nat.of].nat : \A end \in rule.operands :
                          rule.identity \/ end.kind = "keyword"
                              \/ EndMeans(end, history'[nat.of]) \cap Queried = {}
    BY <1>4 DEF Untouched
  <2>1. nat.of \in 1..Now /\ Now \in 1..Now
    BY <1>2 DEF NatInv, NatRead
  <2>2. history'[nat.of] = history[nat.of]
    BY <1>3, <2>1
  <2>3. \A i \in 1..Now : history[i].objects = device'.objects
    BY <1>2, <1>3
  <2>4. \A i \in 1..Now : history[i].objects = device.objects
    BY <2>1, <2>3 DEF device
  <2> QED BY <2>2, <2>4 DEF Untouched
<1> QED BY <1>4, <1>7, <1>8 DEF NatInv

\* Where the assessment finds nothing, no translation read touches the flow.
LEMMA ClearIsUntouched ==
    ASSUME NatInv, NEW objects \in 0..Now, nat.at # "unread",
           Word(Assessment(Translations, Queried, DefinitionsAt(0, objects))) = "clear"
    PROVE  Untouched
<1> SUFFICES ASSUME nat.of # 0, \A i \in 1..Now : history[i].objects = device.objects,
                    NEW rule \in history[nat.of].nat, NEW end \in rule.operands,
                    ~rule.identity, end.kind # "keyword", NEW addr \in Queried
             PROVE  addr \notin EndMeans(end, history[nat.of])
  BY DEF Untouched
<1> DEFINE dev == history[nat.of]
           parsed == IF objects = 0 THEN <<>> ELSE ParsedAll(history[objects].objects)
           ds == Definitions(<<>>, parsed)
<1>1. history \in Seq(Devices) /\ Now \in Nat \ {0} /\ nat.of \in 1..Now
  BY NowType, BackendAssumption DEF NatInv, NatRead, TypeOK, Times
<1>2. dev \in Devices
  BY <1>1 DEF Now
<1>3. IsDevice(dev) /\ \A name \in DOMAIN dev.objects : OneLine(dev.objects[name])
  BY <1>2, BackendAssumption
<1>4. end.kind \in {"any", "net", "wild", "fqdn", "keyword", "group", "object"}
  <2>1. rule \in NatRule
    BY <1>3 DEF IsDevice
  <2>2. end \in Endpoint
    BY <2>1 DEF NatRule
  <2> QED BY <2>2 DEF Endpoint
<1>5. parsed = <<>> \/ parsed = ParsedAll(dev.objects)
  <2>1. CASE objects = 0
    BY <2>1
  <2>2. CASE objects # 0
    <3>1. objects \in 1..Now
      BY <1>1, <2>2
    <3>2. history[objects].objects = dev.objects
      BY <1>1, <3>1
    <3> QED BY <2>2, <3>2
  <2> QED BY <2>1, <2>2
<1>6. Translations = dev.nat /\ DefinitionsAt(0, objects) = ds
  BY DEF Translations, DefinitionsAt
<1> DEFINE judged == Assessment(dev.nat, Queried, ds)
<1>7. ~judged.translated /\ ~judged.unresolved
  <2> HIDE DEF dev, ds, judged
  <2>1. Word(judged) = "clear"
    BY <1>6 DEF judged
  <2> QED BY <2>1 DEF Word
<1>8. ~Translates(rule, Queried, ds) /\ ~Unresolved(rule, Queried, ds)
  BY <1>7 DEF Assessment
<1>9. Covers(end, addr, ds) \notin {"yes", "unknown"}
  BY <1>8 DEF Translates, Unresolved
<1> QED
  <2> HIDE DEF dev, parsed
  <2> QED BY <1>3, <1>4, <1>5, <1>9, NotCovered DEF dev

\* Once the translations are read, those who judge by them have the outcome;
\* nobody has said anything by them before.
LEMMA ReadNatStep ==
    ASSUME NatInv, NEW t \in Threads, ReadNat(t)
    PROVE  NatRead' /\ \A u \in Threads : reader'[u].said = "clear" => Untouched'
<1>1. PICK time \in {0, Now} :
         /\ nat' = [at |-> IF time = 0 THEN "failed" ELSE "read", of |-> time]
         /\ IF time = 0 THEN Said(t, "unresolved") ELSE UNCHANGED reader
  BY DEF ReadNat
<1>2. /\ history' = history /\ defs' = defs /\ Now' = Now /\ device' = device
      /\ nat.at = "unread" /\ IsAsa /\ Now \in Nat \ {0}
  BY NowType, BackendAssumption DEF ReadNat, Assessing, IsAsa, Now, device, NatInv, Times
<1>3. \A u \in Threads :
         /\ reader'[u].read.objects <= Now
         /\ reader'[u].at \in {"ask", "send"} => reader'[u].for = "policy"
         /\ reader'[u].said # "clear"
  <2>1. \A u \in Threads :
           /\ reader[u].read.objects <= Now
           /\ reader[u].at \in {"ask", "send"} => reader[u].for = "policy"
           /\ reader[u].said # "clear"
    BY <1>2 DEF NatInv, NatRead
  <2>2. CASE UNCHANGED reader
    BY <2>1, <2>2
  <2>3. CASE Said(t, "unresolved")
    <3> DEFINE x == [Idle EXCEPT !.said = "unresolved"]
    <3>1. x.read.objects = 0 /\ x.at = "idle" /\ x.said = "unresolved"
      BY DEF Idle, NotRead
    <3> HIDE DEF x
    <3>2. reader' = [reader EXCEPT ![t] = x] /\ reader \in [Threads -> Reader]
      BY <2>3 DEF Said, Becomes, x, NatInv, TypeOK
    <3>3. reader'[t] = x /\ \A u \in Threads \ {t} : reader'[u] = reader[u]
      BY <3>2
    <3> TAKE u \in Threads
    <3>4. CASE u = t
      BY <1>2, <3>1, <3>3, <3>4
    <3>5. CASE u # t
      BY <2>1, <3>3, <3>5
    <3> QED BY <3>4, <3>5
  <2> QED BY <1>1, <2>2, <2>3
<1>4. /\ nat'.of <= Now /\ (nat'.at # "read" => nat'.of = 0) /\ nat'.at # "unread"
  BY <1>1, <1>2
<1>5. /\ \A i \in 1..Now' : history'[i].platform = device'.platform
      /\ IsAsa' /\ defs'.objects <= Now'
  BY <1>2 DEF NatInv, NatRead, IsAsa
<1>6. NatRead'
  BY <1>2, <1>3, <1>4, <1>5 DEF NatRead
<1> QED BY <1>3, <1>6

LEMMA NatStep ==
    ASSUME NatInv, [Next]_vars
    PROVE  NatRead' /\ \A u \in Threads : reader'[u].said = "clear" => Untouched'
<1>0. /\ reader \in [Threads -> Reader] /\ Now \in Nat \ {0} /\ TypeOK
      /\ defs.objects \in 0..Now
  BY NowType, BackendAssumption DEF NatInv, NatRead, TypeOK, Times
<1>1. CASE Change
  BY <1>1, ChangeNat
<1>2. ASSUME NEW t \in Threads,
             \/ AskPolicy(t) \/ Refresh(t) \/ Look(t) \/ ReadAccessList(t) \/ Raise(t)
             \/ ReadGroups(t) \/ ReadObjects(t) \/ Store(t) \/ Return(t)
             \/ AskNat(t) \/ IosNat(t) \/ ReadNat(t) \/ ResolveNat(t) \/ Assess(t)
      PROVE  NatRead' /\ \A u \in Threads : reader'[u].said = "clear" => Untouched'
  <2> DEFINE r == reader[t]
  <2>0. /\ r \in Reader /\ r.read.objects \in 0..Now
        /\ r.at \in {"ask", "send"} => r.for = "policy"
        /\ Judging(t) => nat.at # "unread"
        /\ r.said = "clear" => Untouched /\ (IsAsa => nat.at # "unread")
    <3>1. r \in Reader /\ r.read.objects \in Nat
      BY <1>0, BackendAssumption DEF Reader, Read, Times
    <3> QED BY <1>0, <3>1 DEF NatInv, NatRead
  <2>1. ASSUME NEW word, Said(t, word), UNCHANGED <<history, nat>>, defs' = defs,
               word = "clear" => Untouched /\ (IsAsa => nat.at # "unread")
        PROVE  NatRead' /\ \A u \in Threads : reader'[u].said = "clear" => Untouched'
    <3> DEFINE x == [Idle EXCEPT !.said = word]
    <3>1. x.at = "idle" /\ x.read.objects = 0 /\ x.said = word
      BY DEF Idle, NotRead
    <3>2. Becomes(t, x)
      BY <2>1 DEF Said
    <3> HIDE DEF x
    <3> QED BY <1>0, <2>1, <3>1, <3>2, ReaderStep
  <2>2. ASSUME NEW x, Becomes(t, x), UNCHANGED <<history, nat>>, defs'.objects \in 0..Now,
               x.read.objects \in 0..Now, x.at \notin {"groups", "objects", "assess"},
               x.at \in {"ask", "send"} => x.for = "policy", x.said \in {"nothing", r.said}
        PROVE  NatRead' /\ \A u \in Threads : reader'[u].said = "clear" => Untouched'
    BY <1>0, <2>0, <2>2, ReaderStep
  <2>3. CASE AskPolicy(t) \/ Raise(t)
    <3>1. /\ Asking(t).at = "ask" /\ Asking(t).for = "policy" /\ Asking(t).said = "nothing"
          /\ Idle.at = "idle" /\ Idle.said = "nothing"
          /\ Asking(t).read.objects = 0 /\ Idle.read.objects = 0
      BY DEF Asking, Idle, NotRead
    <3>2. /\ UNCHANGED <<history, nat>> /\ defs' = defs
          /\ Becomes(t, Asking(t)) \/ Becomes(t, Idle)
      BY <2>3 DEF AskPolicy, Raise, backend
    <3> QED BY <1>0, <2>2, <3>1, <3>2
  <2>4. CASE Refresh(t)
    <3> DEFINE x == Refreshing(t)
    <3>1. /\ x.at = "ask" /\ x.for = "policy" /\ x.said = "nothing" /\ x.read.objects = 0
      BY DEF Refreshing, Asking, Idle, NotRead
    <3>2. /\ UNCHANGED <<history, nat>> /\ defs'.objects = 0 /\ Becomes(t, x)
      BY <2>4 DEF Refresh, Unread
    <3> HIDE DEF x
    <3> QED BY <1>0, <2>2, <3>1, <3>2
  <2>5. CASE Look(t)
    <3> DEFINE x == [r EXCEPT !.at = IF cache.of # 0 THEN "return" ELSE "send"]
    <3>1. /\ x.at \in {"return", "send"} /\ x.for = r.for /\ x.said = r.said /\ x.read = r.read
      BY <2>0 DEF Reader
    <3>2. UNCHANGED <<history, nat>> /\ defs' = defs /\ Becomes(t, x) /\ r.for = "policy"
      BY <2>0, <2>5 DEF Look, backend
    <3> HIDE DEF x
    <3> QED BY <1>0, <2>0, <2>2, <3>1, <3>2
  <2>6. CASE ReadAccessList(t)
    <3> DEFINE y == [r EXCEPT !.read = [NotRead EXCEPT !.of = Now]]
               stored == [y EXCEPT !.at = "store"]
               wanting == [y EXCEPT !.at = "groups"]
    <3>1. /\ stored.at = "store" /\ stored.said = r.said /\ stored.read.objects = 0
          /\ WithDefinitions(y).at = "store" /\ WithDefinitions(y).said = r.said
          /\ WithDefinitions(y).read.objects = defs.objects
          /\ wanting.at = "groups" /\ wanting.for = r.for /\ wanting.said = r.said
          /\ wanting.read.objects = 0
      BY <2>0 DEF WithDefinitions, Reader, NotRead
    <3>2. /\ UNCHANGED <<history, nat>> /\ defs' = defs /\ r.for = "policy"
          /\ \/ Becomes(t, stored) \/ Becomes(t, WithDefinitions(y)) \/ Becomes(t, wanting)
      BY <2>0, <2>6 DEF ReadAccessList, backend
    <3> DEFINE kept == WithDefinitions(y)
    <3> HIDE DEF y, stored, wanting, kept
    <3>3. CASE Becomes(t, stored)
      BY <1>0, <2>2, <3>1, <3>2, <3>3
    <3>4. CASE Becomes(t, WithDefinitions(y))
      <4>1. /\ kept.at = "store" /\ kept.said = r.said /\ kept.read.objects = defs.objects
            /\ Becomes(t, kept)
        BY <3>1, <3>4 DEF kept
      <4> QED BY <1>0, <2>2, <3>2, <4>1
    <3>5. CASE Becomes(t, wanting)
      <4>1. ~(wanting.at = "assess" \/ (wanting.at \in {"groups", "objects"}
                                          /\ wanting.for = "nat"))
        BY <3>1, <3>2
      <4> QED BY <1>0, <2>0, <3>1, <3>2, <3>5, <4>1, ReaderStep
    <3> QED BY <3>2, <3>3, <3>4, <3>5
  <2>7. CASE ReadGroups(t)
    <3>1. PICK time \in {0, Now} : Becomes(t, [r EXCEPT !.at = "objects", !.read.groups = time])
      BY <2>7 DEF ReadGroups
    <3> DEFINE x == [r EXCEPT !.at = "objects", !.read.groups = time]
    <3>2. /\ x.at = "objects" /\ x.for = r.for /\ x.said = r.said
          /\ x.read.objects = r.read.objects
      BY <2>0 DEF Reader, Read
    <3>3. /\ UNCHANGED <<history, nat>> /\ defs' = defs /\ Becomes(t, x) /\ r.at = "groups"
      BY <2>7, <3>1 DEF ReadGroups, backend
    <3> HIDE DEF x
    <3>4. x.at = "assess" \/ (x.at \in {"groups", "objects"} /\ x.for = "nat")
              => nat.at # "unread"
      BY <2>0, <3>2, <3>3 DEF Judging
    <3> QED BY <1>0, <2>0, <3>2, <3>3, <3>4, ReaderStep
  <2>8. CASE ReadObjects(t)
    <3>1. PICK time \in {0, Now} :
             /\ defs' = [at |-> "read", groups |-> r.read.groups, objects |-> time]
             /\ Becomes(t, [r EXCEPT !.at = IF r.for = "nat" THEN "assess" ELSE "store",
                                     !.read.objects = time])
      BY <2>8 DEF ReadObjects
    <3> DEFINE x == [r EXCEPT !.at = IF r.for = "nat" THEN "assess" ELSE "store",
                              !.read.objects = time]
    <3>2. /\ x.at = IF r.for = "nat" THEN "assess" ELSE "store"
          /\ x.said = r.said /\ x.read.objects = time
      BY <2>0 DEF Reader, Read
    <3>3. /\ UNCHANGED <<history, nat>> /\ defs'.objects = time /\ Becomes(t, x)
          /\ r.at = "objects"
      BY <2>8, <3>1 DEF ReadObjects
    <3> HIDE DEF x
    <3>4. x.at = "assess" \/ (x.at \in {"groups", "objects"} /\ x.for = "nat")
              => nat.at # "unread"
      BY <2>0, <3>2, <3>3 DEF Judging
    <3>5. x.at \notin {"ask", "send"}
      BY <3>2
    <3> QED BY <1>0, <2>0, <3>2, <3>3, <3>4, <3>5, ReaderStep
  <2>9. CASE Store(t)
    <3> DEFINE x == [r EXCEPT !.at = "return"]
    <3>1. x.at = "return" /\ x.said = r.said /\ x.read = r.read
      BY <2>0 DEF Reader
    <3>2. UNCHANGED <<history, nat>> /\ defs' = defs /\ Becomes(t, x)
      BY <2>9 DEF Store
    <3> HIDE DEF x
    <3> QED BY <1>0, <2>0, <2>2, <3>1, <3>2
  <2>10. CASE Return(t)
    <3> DEFINE x == [r EXCEPT !.at = "idle", !.read = NotRead, !.got = cache]
    <3>1. x.at = "idle" /\ x.said = r.said /\ x.read.objects = 0
      BY <2>0 DEF Reader, NotRead
    <3>2. UNCHANGED <<history, nat>> /\ defs' = defs /\ Becomes(t, x)
      BY <2>10 DEF Return, backend
    <3> HIDE DEF x
    <3> QED BY <1>0, <2>0, <2>2, <3>1, <3>2
  <2>11. ~IsAsa => Untouched
    BY DEF NatInv, NatRead, Untouched
  <2>12. CASE AskNat(t)
    <3> DEFINE x == [Idle EXCEPT !.at = "nat", !.for = "nat"]
    <3>1. x.at = "nat" /\ x.said = "nothing" /\ x.read.objects = 0
      BY DEF Idle, NotRead
    <3>2. /\ UNCHANGED <<history, nat>> /\ defs' = defs
          /\ (Said(t, "clear") /\ ~IsAsa) \/ Becomes(t, x)
      BY <2>12 DEF AskNat, backend, IsAsa
    <3> HIDE DEF x
    <3>3. CASE Said(t, "clear") /\ ~IsAsa
      BY <2>1, <2>11, <3>2, <3>3
    <3>4. CASE Becomes(t, x)
      BY <1>0, <2>2, <3>1, <3>2, <3>4
    <3> QED BY <3>2, <3>3, <3>4
  <2>13. CASE IosNat(t)
    <3>1. PICK word : Said(t, word)
      BY <2>13 DEF IosNat
    <3>2. UNCHANGED <<history, nat>> /\ defs' = defs /\ ~IsAsa
      BY <2>13 DEF IosNat, backend, IsAsa
    <3> QED BY <2>1, <2>11, <3>1, <3>2
  <2>14. CASE ReadNat(t)
    BY <2>14, ReadNatStep
  <2>15. CASE ResolveNat(t)
    <3> DEFINE wanting == [r EXCEPT !.at = "groups"]
               judging == [r EXCEPT !.at = "assess", !.read.objects = defs.objects]
    <3>1. /\ wanting.at = "groups" /\ wanting.said = r.said /\ wanting.read = r.read
          /\ judging.at = "assess" /\ judging.said = r.said
          /\ judging.read.objects = defs.objects
      BY <2>0 DEF Reader, Read
    <3>2. /\ UNCHANGED <<history, nat>> /\ defs' = defs /\ nat.at # "unread"
          /\ \/ Translations = {} /\ Said(t, "clear")
             \/ Becomes(t, wanting) \/ Becomes(t, judging)
      BY <2>15 DEF ResolveNat, backend, Said
    <3> HIDE DEF wanting, judging
    <3>3. CASE Translations = {} /\ Said(t, "clear")
      <4>1. Untouched
        BY <3>3 DEF Translations, Untouched
      <4> QED BY <2>1, <3>2, <3>3, <4>1
    <3>4. CASE Becomes(t, wanting)
      BY <1>0, <2>0, <3>1, <3>2, <3>4, ReaderStep
    <3>5. CASE Becomes(t, judging)
      BY <1>0, <2>0, <3>1, <3>2, <3>5, ReaderStep
    <3> QED BY <3>2, <3>3, <3>4, <3>5
  <2>16. CASE Assess(t)
    <3> DEFINE word == Word(Assessment(Translations, Queried,
                                       DefinitionsAt(0, r.read.objects)))
    <3>1. Said(t, word) /\ UNCHANGED <<history, nat>> /\ defs' = defs /\ r.at = "assess"
      BY <2>16 DEF Assess, backend
    <3>2. nat.at # "unread"
      BY <2>0, <3>1 DEF Judging
    <3>3. word = "clear" => Untouched
      BY <2>0, <3>2, ClearIsUntouched
    <3> HIDE DEF word
    <3> QED BY <2>1, <3>1, <3>2, <3>3
  <2> QED BY <1>2, <2>3, <2>4, <2>5, <2>6, <2>7, <2>8, <2>9, <2>10, <2>12, <2>13, <2>14, <2>15,
             <2>16
<1>3. CASE UNCHANGED vars
  <2>1. history' = history /\ nat' = nat /\ defs' = defs /\ reader' = reader
        /\ Now' = Now /\ device' = device
    BY <1>3 DEF vars, Now, device
  <2>2. NatRead' <=> NatRead
    BY <2>1 DEF NatRead, IsAsa, Judging
  <2>3. Untouched' <=> Untouched
    BY <2>1 DEF Untouched
  <2> QED BY <2>1, <2>2, <2>3 DEF NatInv
<1> QED BY <1>1, <1>2, <1>3 DEF Next

LEMMA NatInit == Init => NatInv
<1> SUFFICES ASSUME Init PROVE NatInv
  OBVIOUS
<1>1. TypeOK
  BY InitTypes
<1>2. /\ Now = 1 /\ device = history[1] /\ nat.of = 0 /\ nat.at = "unread" /\ defs.objects = 0
      /\ \A t \in Threads : /\ reader[t].read.objects = 0 /\ reader[t].at = "idle"
                            /\ reader[t].said = "nothing"
  BY DEF Init, Now, device, Unread, Idle, NotRead
<1>3. NatRead
  BY <1>2 DEF NatRead, Judging
<1> QED BY <1>1, <1>2, <1>3 DEF NatInv

\* For any number of threads, changes and failing commands, and whatever the
\* translations are: when they were read, and no object changed since, "no
\* translation" is only said of a flow none of them touches; an operand that
\* could not be resolved is told as such (nat_assessment, assess_flow, _covers).
THEOREM TranslationsAreTold == Spec => []NatTold
<1>1. Init => NatInv
  BY NatInit
<1>2. NatInv /\ [Next]_vars => NatInv'
  BY NatStep, StepTypes DEF NatInv
<1>3. NatInv => NatTold
  BY DEF NatInv, Untouched, NatTold
<1> QED BY <1>1, <1>2, <1>3, PTL DEF Spec

-----------------------------------------------------------------------------
(* The names a group leads to                                              *)

Kinds == {"group", "object"}

\* One more step of the recursion of _expand.
Further(keys, ds) == keys \cup UNION {References(k, ds) : k \in keys}

\* The first n steps from a key.
Steps(g, n, key, ds) ==
    g[0] = {key} /\ \A m \in 0..(n - 1) : g[m + 1] = Further(g[m], ds)

LEMMA StepsExist ==
    ASSUME NEW key, NEW ds
    PROVE  \A n \in Nat : \E g : Steps(g, n, key, ds)
<1> DEFINE S == {n \in Nat : \E g : Steps(g, n, key, ds)}
<1>1. 0 \in S
  <2> DEFINE g == [m \in {0} |-> {key}]
  <2>1. Steps(g, 0, key, ds)
    BY DEF Steps
  <2> QED BY <2>1
<1>2. ASSUME NEW n \in Nat, n \in S PROVE n + 1 \in S
  <2>1. PICK g : Steps(g, n, key, ds)
    BY <1>2
  <2> DEFINE h == [m \in 0..(n + 1) |-> IF m <= n THEN g[m] ELSE Further(g[n], ds)]
  <2>2. h[0] = {key}
    BY <2>1 DEF Steps
  <2>3. ASSUME NEW m \in 0..n PROVE h[m + 1] = Further(h[m], ds)
    <3>1. h[m] = g[m]
      OBVIOUS
    <3>2. CASE m = n
      BY <3>1, <3>2
    <3>3. CASE m < n
      <4>1. h[m + 1] = g[m + 1] /\ m \in 0..(n - 1)
        BY <3>3
      <4>2. g[m + 1] = Further(g[m], ds)
        BY <2>1, <4>1 DEF Steps
      <4> QED BY <3>1, <4>1, <4>2
    <3> QED BY <3>2, <3>3
  <2> HIDE DEF h
  <2>4. Steps(h, n + 1, key, ds)
    BY <2>2, <2>3 DEF Steps
  <2> QED BY <2>4
<1>3. \A n \in Nat : n \in S
  <2> HIDE DEF S
  <2> QED BY <1>1, <1>2, NaturalInduction
<1> QED BY <1>3

LEMMA StepsAgree ==
    ASSUME NEW key, NEW ds, NEW g, NEW h, NEW n \in Nat, NEW k \in 0..n,
           Steps(g, n, key, ds), Steps(h, k, key, ds)
    PROVE  g[k] = h[k]
<1> DEFINE S == {m \in Nat : m <= k => g[m] = h[m]}
<1>1. 0 \in S
  BY DEF Steps
<1>2. ASSUME NEW m \in Nat, m \in S PROVE m + 1 \in S
  <2>1. CASE m + 1 <= k
    <3>1. m \in 0..(n - 1) /\ m \in 0..(k - 1) /\ g[m] = h[m]
      BY <1>2, <2>1
    <3>2. g[m + 1] = Further(g[m], ds) /\ h[m + 1] = Further(h[m], ds)
      BY <3>1 DEF Steps
    <3> QED BY <3>1, <3>2
  <2>2. CASE ~(m + 1 <= k)
    BY <2>2
  <2> QED BY <2>1, <2>2
<1>3. \A m \in Nat : m \in S
  <2> HIDE DEF S
  <2> QED BY <1>1, <1>2, NaturalInduction
<1>4. k \in S
  BY <1>3
<1> QED BY <1>4

Unfolds(w, key, ds) ==
    /\ w[0] = {key}
    /\ \A n \in Nat : w[n + 1] = Further(w[n], ds)
    /\ Reached(key, ds) = w[2 * Cardinality(Names)]

\* Reached is what its recursion says.
LEMMA ReachedIsSteps ==
    ASSUME NEW key, NEW ds
    PROVE  \E w : Unfolds(w, key, ds)
<1> DEFINE Step(f) == [n \in Nat |-> IF n = 0 THEN {key}
                                     ELSE f[n - 1] \cup UNION {References(k, ds) : k \in f[n - 1]}]
           within == CHOOSE f : f = Step(f)
           first(n) == CHOOSE g : Steps(g, n, key, ds)
           f == [n \in Nat |-> first(n)[n]]
<1>1. \A n \in Nat : Steps(first(n), n, key, ds)
  BY StepsExist
<1>2. f[0] = {key}
  BY <1>1 DEF Steps
<1>3. ASSUME NEW n \in Nat PROVE f[n + 1] = Further(f[n], ds)
  <2>1. Steps(first(n + 1), n + 1, key, ds) /\ Steps(first(n), n, key, ds)
    BY <1>1
  <2>2. first(n + 1)[n] = first(n)[n]
    <3>1. n + 1 \in Nat /\ n \in 0..(n + 1)
      OBVIOUS
    <3> HIDE DEF first
    <3> QED BY <2>1, <3>1, StepsAgree
  <2>3. first(n + 1)[n + 1] = Further(first(n + 1)[n], ds)
    BY <2>1 DEF Steps
  <2> QED BY <2>2, <2>3
<1>4. Step(f) = f
  <2> HIDE DEF f
  <2>1. \A n \in Nat : f[n] = IF n = 0 THEN {key} ELSE Further(f[n - 1], ds)
    <3> TAKE n \in Nat
    <3>1. CASE n = 0
      BY <1>2, <3>1
    <3>2. CASE n # 0
      <4>1. n - 1 \in Nat /\ (n - 1) + 1 = n
        BY <3>2
      <4> QED BY <1>3, <3>2, <4>1
    <3> QED BY <3>1, <3>2
  <2>2. f = [n \in Nat |-> f[n]]
    BY DEF f
  <2> QED BY <2>1, <2>2 DEF Further
<1>5. within = Step(within)
  <2> HIDE DEF Step, f
  <2> QED BY <1>4
<1>6. Reached(key, ds) = within[2 * Cardinality(Names)]
  BY DEF Reached
<1> HIDE DEF within
<1>7. within[0] = {key} /\ \A n \in Nat : within[n + 1] = Further(within[n], ds)
  BY <1>5 DEF Further
<1> QED BY <1>6, <1>7 DEF Unfolds

AllOf(dev) == Definitions(dev.groups, dev.objects)

\* Definitions that were read of a device, or not read at all.
ReadFrom(ds, dev) ==
    /\ ds["group"] \in {<<>>, ParsedAll(dev.groups)}
    /\ ds["object"] \in {<<>>, ParsedAll(dev.objects)}

LEMMA KnownIsParsed ==
    ASSUME NEW ds, NEW dev, ReadFrom(ds, dev), NEW key, key[1] \in Kinds, Known(key, ds)
    PROVE  /\ Known(key, AllOf(dev))
           /\ ds[key[1]][key[2]] = Parsed(AllOf(dev)[key[1]][key[2]])
           /\ References(key, ds) = References(key, AllOf(dev))
<1> DEFINE all == AllOf(dev)
<1>1. /\ all["group"] = dev.groups /\ all["object"] = dev.objects
      /\ key[2] \in DOMAIN ds[key[1]]
  BY DEF AllOf, Definitions, Known
<1>2. \A x : x \notin DOMAIN <<>>
  OBVIOUS
<1>3. ds[key[1]] = ParsedAll(all[key[1]])
  BY <1>1, <1>2 DEF ReadFrom, Kinds
<1>4. key[2] \in DOMAIN all[key[1]] /\ ds[key[1]][key[2]] = Parsed(all[key[1]][key[2]])
  BY <1>1, <1>3 DEF ParsedAll
<1>5. /\ ds[key[1]][key[2]].members = all[key[1]][key[2]].members
      /\ ds[key[1]][key[2]].refs = all[key[1]][key[2]].refs
  BY <1>4 DEF Parsed
<1> QED BY <1>1, <1>4, <1>5 DEF Known, References

\* When every name was known, the reader went where the device goes.
LEMMA SameReached ==
    ASSUME NEW ds, NEW dev, ReadFrom(ds, dev), NEW key, key[1] \in Kinds,
           \A k \in Reached(key, ds) : Known(k, ds)
    PROVE  /\ Reached(key, ds) = Reached(key, AllOf(dev))
           /\ \A k \in Reached(key, ds) : k[1] \in Kinds
<1> DEFINE all == AllOf(dev)
           N == 2 * Cardinality(Names)
<1>1. N \in Nat
  BY ReadingAssumption, FS_CardinalityType
<1>a. PICK w : Unfolds(w, key, ds)
  BY ReachedIsSteps
<1>b. PICK v : Unfolds(v, key, all)
  BY ReachedIsSteps
<1>2. /\ w[0] = {key}
      /\ \A n \in Nat : w[n + 1] = Further(w[n], ds)
      /\ Reached(key, ds) = w[N]
  BY <1>a DEF Unfolds
<1>3. /\ v[0] = {key}
      /\ \A n \in Nat : v[n + 1] = Further(v[n], all)
      /\ Reached(key, all) = v[N]
  BY <1>b DEF Unfolds
<1> HIDE DEF N, all
<1>4. \A n \in 0..N : w[n] \subseteq w[N]
  <2> DEFINE S == {d \in Nat : d <= N => w[N - d] \subseteq w[N]}
  <2>1. 0 \in S
    BY <1>1
  <2>2. ASSUME NEW d \in Nat, d \in S PROVE d + 1 \in S
    <3>1. CASE d + 1 <= N
      <4>1. N - (d + 1) \in Nat /\ (N - (d + 1)) + 1 = N - d /\ w[N - d] \subseteq w[N]
        BY <1>1, <2>2, <3>1
      <4>2. w[N - (d + 1)] \subseteq w[N - d]
        BY <1>2, <4>1 DEF Further
      <4> QED BY <4>1, <4>2
    <3>2. CASE ~(d + 1 <= N)
      BY <3>2
    <3> QED BY <3>1, <3>2
  <2>3. \A d \in Nat : d \in S
    <3> HIDE DEF S
    <3> QED BY <2>1, <2>2, NaturalInduction
  <2> TAKE n \in 0..N
  <2>4. N - n \in S /\ N - (N - n) = n
    BY <1>1, <2>3
  <2> QED BY <1>1, <2>4
<1> DEFINE Same(n) == w[n] = v[n] /\ \A k \in w[n] : k[1] \in Kinds
           S == {n \in Nat : n <= N => Same(n)}
<1>5. 0 \in S
  BY <1>2, <1>3
<1>6. ASSUME NEW n \in Nat, n \in S PROVE n + 1 \in S
  <2>1. CASE n + 1 <= N
    <3>1. n \in 0..N /\ Same(n)
      BY <1>1, <1>6, <2>1
    <3>2. \A k \in w[n] : Known(k, ds)
      BY <1>2, <1>4, <3>1
    <3>3. \A k \in w[n] : References(k, ds) = References(k, all)
      BY <3>1, <3>2, KnownIsParsed DEF all
    <3>4. w[n + 1] = v[n + 1]
      <4>1. {References(k, ds) : k \in w[n]} = {References(k, all) : k \in w[n]}
        BY <3>3
      <4>2. Further(w[n], ds) = Further(w[n], all)
        BY <4>1 DEF Further
      <4> QED BY <1>2, <1>3, <3>1, <4>2
    <3>5. \A k \in w[n] : \A r \in References(k, ds) : r[1] \in Kinds
      BY DEF References, Kinds
    <3>6. \A k \in w[n + 1] : k[1] \in Kinds
      BY <1>2, <3>1, <3>5 DEF Further
    <3> QED BY <3>4, <3>6
  <2>2. CASE ~(n + 1 <= N)
    BY <2>2
  <2> QED BY <2>1, <2>2
<1>7. \A n \in Nat : n \in S
  <2> HIDE DEF S
  <2> QED BY <1>5, <1>6, NaturalInduction
<1>8. Same(N)
  BY <1>1, <1>7
<1> QED BY <1>2, <1>3, <1>8 DEF all

\* A complete expansion has what the device's definitions have, all of it.
LEMMA CompleteExpansion ==
    ASSUME NEW ds, NEW dev, ReadFrom(ds, dev), NEW key, key[1] \in Kinds,
           Expand(key, ds).complete
    PROVE  /\ Expand(key, ds).networks = UNION {d.networks : d \in Defined(key, dev)}
           /\ Expand(key, ds).protocols = UNION {Parsed(d).protocols : d \in Defined(key, dev)}
           /\ Expand(key, ds).ports = UNION {Parsed(d).ports : d \in Defined(key, dev)}
           /\ \A d \in Defined(key, dev) : Parsed(d).complete
<1> DEFINE reached == Reached(key, ds)
           all == AllOf(dev)
           entries == {ds[k[1]][k[2]] : k \in {r \in reached : Known(r, ds)}}
           defined == {all[k[1]][k[2]] : k \in {r \in Reached(key, all) : Known(r, all)}}
<1>1. /\ \A r \in reached : Known(r, ds)
      /\ \A e \in entries : e.complete
  BY DEF Expand
<1>2. reached = Reached(key, all) /\ \A k \in reached : k[1] \in Kinds
  BY <1>1, SameReached
<1>3. \A k \in reached : Known(k, all) /\ ds[k[1]][k[2]] = Parsed(all[k[1]][k[2]])
  BY <1>1, <1>2, KnownIsParsed
<1>4. entries = {Parsed(d) : d \in defined}
  <2> HIDE DEF reached, all
  <2>1. entries = {ds[k[1]][k[2]] : k \in reached}
    BY <1>1
  <2>2. defined = {all[k[1]][k[2]] : k \in reached}
    BY <1>2, <1>3
  <2>3. \A k \in reached : ds[k[1]][k[2]] \in {Parsed(d) : d \in defined}
    BY <1>3, <2>2
  <2>4. \A d \in defined : \E k \in reached : d = all[k[1]][k[2]]
    BY <2>2
  <2>5. ASSUME NEW d \in defined PROVE Parsed(d) \in entries
    <3>1. PICK k \in reached : d = all[k[1]][k[2]]
      BY <2>4
    <3>2. Parsed(d) = ds[k[1]][k[2]]
      BY <1>3, <3>1
    <3> QED BY <2>1, <3>2
  <2> HIDE DEF entries, defined
  <2>6. \A e \in entries : e \in {Parsed(d) : d \in defined}
    BY <2>1, <2>3
  <2>7. \A e \in {Parsed(d) : d \in defined} : e \in entries
    BY <2>5
  <2> QED BY <2>6, <2>7
<1>5. defined = Defined(key, dev)
  BY DEF Defined, AllOf
<1>6. /\ Expand(key, ds).networks = UNION {e.networks : e \in entries}
      /\ Expand(key, ds).protocols = UNION {e.protocols : e \in entries}
      /\ Expand(key, ds).ports = UNION {e.ports : e \in entries}
  BY DEF Expand
<1> HIDE DEF entries, defined
<1>7. \A d : Parsed(d).networks = d.networks
  BY DEF Parsed
<1>8. UNION {e.networks : e \in {Parsed(d) : d \in defined}} = UNION {d.networks : d \in defined}
  <2>1. \A n : n \in UNION {e.networks : e \in {Parsed(d) : d \in defined}}
                   <=> \E d \in defined : n \in Parsed(d).networks
    OBVIOUS
  <2>2. \A n : n \in UNION {d.networks : d \in defined} <=> \E d \in defined : n \in d.networks
    OBVIOUS
  <2> QED BY <1>7, <2>1, <2>2
<1>9. /\ UNION {e.protocols : e \in {Parsed(d) : d \in defined}}
            = UNION {Parsed(d).protocols : d \in defined}
      /\ UNION {e.ports : e \in {Parsed(d) : d \in defined}}
            = UNION {Parsed(d).ports : d \in defined}
  OBVIOUS
<1>10. \A d \in defined : Parsed(d).complete
  BY <1>1, <1>4
<1> QED BY <1>4, <1>5, <1>6, <1>8, <1>9, <1>10

LEMMA ReachedKinds ==
    ASSUME NEW key, key[1] \in Kinds, NEW ds
    PROVE  \A k \in Reached(key, ds) : k[1] \in Kinds
<1>1. PICK w : Unfolds(w, key, ds)
  BY ReachedIsSteps
<1> DEFINE S == {n \in Nat : \A k \in w[n] : k[1] \in Kinds}
<1>2. 0 \in S
  BY <1>1 DEF Unfolds
<1>3. ASSUME NEW n \in Nat, n \in S PROVE n + 1 \in S
  <2>1. \A k \in w[n] : \A r \in References(k, ds) : r[1] \in Kinds
    BY DEF References, Kinds
  <2>2. w[n + 1] = w[n] \cup UNION {References(k, ds) : k \in w[n]}
    BY <1>1 DEF Unfolds, Further
  <2>3. \A k \in w[n] : k[1] \in Kinds
    BY <1>3
  <2>4. \A r \in UNION {References(k, ds) : k \in w[n]} : r[1] \in Kinds
    BY <2>1
  <2> QED BY <2>2, <2>3, <2>4
<1>4. \A n \in Nat : n \in S
  <2> HIDE DEF S
  <2> QED BY <1>2, <1>3, NaturalInduction
<1>5. 2 * Cardinality(Names) \in Nat
  BY ReadingAssumption, FS_CardinalityType
<1> QED BY <1>1, <1>4, <1>5 DEF Unfolds

\* What a name stands for are definitions of the device, in its grammar.
LEMMA DefinedAreDefinitions ==
    ASSUME NEW dev, IsDevice(dev), NEW key, key[1] \in Kinds, NEW d \in Defined(key, dev)
    PROVE  /\ d \in Definition
           /\ \A s \in d.services : Operand(s.port) /\ s.port.op # "group"
<1> DEFINE all == Definitions(dev.groups, dev.objects)
<1>1. PICK k \in Reached(key, all) : Known(k, all) /\ d = all[k[1]][k[2]]
  BY DEF Defined
<1>2. k[1] \in Kinds
  BY <1>1, ReachedKinds
<1>3. /\ all[k[1]] \in {dev.groups, dev.objects} /\ k[2] \in DOMAIN all[k[1]]
  BY <1>1, <1>2 DEF Kinds, Known, Definitions
<1> HIDE DEF all
<1>4. \A defns \in {dev.groups, dev.objects} :
         /\ Configured(defns)
         /\ \A name \in DOMAIN defns : \A s \in defns[name].services :
               Operand(s.port) /\ s.port.op # "group"
  BY DEF IsDevice
<1>5. d \in Definition
  BY <1>1, <1>3, <1>4 DEF Configured
<1>6. \A s \in d.services : Operand(s.port) /\ s.port.op # "group"
  BY <1>1, <1>3, <1>4
<1> QED BY <1>5, <1>6

-----------------------------------------------------------------------------
(* The rules of an entry                                                   *)

LEMMA RuleFields ==
    ASSUME NEW ace, NEW nth, NEW protos, NEW srcs, NEW dsts, NEW ports,
           NEW r \in Rules(ace, nth, protos, srcs, dsts, ports)
    PROVE  /\ r.line = ace.line /\ r.nth = nth
           /\ r.action = ace.action /\ r.action \in {"permit", "deny"}
           /\ r.proto \in protos /\ r.src \in srcs /\ r.dst \in dsts /\ r.port \in ports
BY DEF Rules

\* The rules are the cross product of what the entry's words were read as.
LEMMA SomeRuleMatches ==
    ASSUME NEW ace, NEW nth, NEW protos, NEW srcs, NEW dsts, NEW ports, NEW flow,
           Rules(ace, nth, protos, srcs, dsts, ports) # {}
    PROVE  (\E r \in Rules(ace, nth, protos, srcs, dsts, ports) : Matches(r, flow))
           <=> /\ \E p \in protos : p \in {"ip", flow.proto}
               /\ \E q \in ports : q \in {AnyPort, flow.port}
               /\ \E s \in srcs : flow.src \in s
               /\ \E d \in dsts : flow.dst \in d
<1> DEFINE rules == Rules(ace, nth, protos, srcs, dsts, ports)
<1>1. ASSUME NEW r \in rules, Matches(r, flow)
      PROVE  /\ \E p \in protos : p \in {"ip", flow.proto}
             /\ \E q \in ports : q \in {AnyPort, flow.port}
             /\ \E s \in srcs : flow.src \in s
             /\ \E d \in dsts : flow.dst \in d
  BY <1>1, RuleFields DEF Matches
<1>2. ASSUME NEW p \in protos, p \in {"ip", flow.proto},
             NEW q \in ports, q \in {AnyPort, flow.port},
             NEW s \in srcs, flow.src \in s, NEW d \in dsts, flow.dst \in d
      PROVE  \E r \in rules : Matches(r, flow)
  <2>1. ace.action \in {"permit", "deny"}
    BY RuleFields
  <2> DEFINE r == [line |-> ace.line, nth |-> nth, action |-> ace.action, proto |-> p,
                   src |-> s, dst |-> d, port |-> q]
  <2>2. r \in rules
    BY <2>1 DEF Rules
  <2>3. Matches(r, flow)
    BY <1>2, <2>1 DEF Matches
  <2> QED BY <2>2, <2>3
<1> QED BY <1>1, <1>2

-----------------------------------------------------------------------------
(* Ends and services                                                       *)

EndKinds == {"any", "net", "wild", "fqdn", "keyword", "group", "object"}

LEMMA DefinedEndKinds ==
    ASSUME NEW dev, NEW end, NEW e \in DefinedEnds(end, dev)
    PROVE  e.kind \in {"net", "fqdn"} /\ EndMeans(e, dev) = e.of
<1>1. e.kind \in {"net", "fqdn"}
  BY DEF DefinedEnds
<1> QED BY <1>1 DEF EndMeans

\* An end means what the ends it stands for mean.
LEMMA EndsMean ==
    ASSUME NEW dev, NEW end, end.kind \in EndKinds, NEW addr
    PROVE  (\E e \in Ends(end, dev) : addr \in EndMeans(e, dev)) <=> addr \in EndMeans(end, dev)
<1>1. CASE end.kind \in {"group", "object"}
  <2>1. Ends(end, dev) = DefinedEnds(end, dev)
    BY <1>1 DEF Ends
  <2>2. EndMeans(end, dev) = UNION {e.of : e \in DefinedEnds(end, dev)}
    BY <1>1 DEF EndMeans
  <2>3. \A e \in DefinedEnds(end, dev) : EndMeans(e, dev) = e.of
    BY DefinedEndKinds
  <2> QED BY <2>1, <2>2, <2>3
<1>2. CASE end.kind \notin {"group", "object"}
  BY <1>2 DEF Ends
<1> QED BY <1>1, <1>2

\* _resolve_endpoint gives up, or finds what the device means.
LEMMA AsaEnd ==
    ASSUME NEW dev, NEW ds, ReadFrom(ds, dev), NEW end, end.kind \in EndKinds \ {"fqdn"},
           AsaSpecs(end, ds) # {}, NEW addr
    PROVE  (\E s \in AsaSpecs(end, ds) : addr \in s) <=> addr \in EndMeans(end, dev)
<1>1. CASE end.kind = "any"
  BY <1>1 DEF AsaSpecs, EndMeans
<1>2. CASE end.kind \in {"net", "wild"}
  BY <1>2 DEF AsaSpecs, EndMeans
<1>3. CASE end.kind = "keyword"
  BY <1>3 DEF AsaSpecs
<1>4. CASE end.kind \in {"group", "object"}
  <2> DEFINE key == <<end.kind, end.name>>
             defined == Defined(key, dev)
             foreign == {d.foreign : d \in defined} \ {{}}
  <2>1. AsaSpecs(end, ds) = IF Expand(key, ds).complete THEN Expand(key, ds).networks ELSE {}
    BY <1>4 DEF AsaSpecs
  <2>2. Expand(key, ds).complete /\ key[1] \in Kinds
    BY <1>4, <2>1 DEF Kinds
  <2>3. /\ AsaSpecs(end, ds) = UNION {d.networks : d \in defined}
        /\ \A d \in defined : Parsed(d).complete
    <3> HIDE DEF key
    <3> QED BY <2>1, <2>2, CompleteExpansion
  <2>4. \A d \in defined : d.foreign = {}
    BY <2>3 DEF Parsed
  <2>5. DefinedEnds(end, dev) =
           [kind : {"net"}, of : UNION {d.networks : d \in defined}, name : {"none"}]
              \cup [kind : {"fqdn"}, of : foreign, name : {"none"}]
    BY DEF DefinedEnds
  <2> HIDE DEF defined
  <2>6. foreign = {}
    BY <2>4
  <2>7. DefinedEnds(end, dev) =
           [kind : {"net"}, of : UNION {d.networks : d \in defined}, name : {"none"}]
    BY <2>5, <2>6
  <2> DEFINE nets == UNION {d.networks : d \in defined}
  <2> HIDE DEF nets
  <2>8. DefinedEnds(end, dev) = [kind : {"net"}, of : nets, name : {"none"}]
    BY <2>7 DEF nets
  <2>9. \A e \in DefinedEnds(end, dev) : e.of \in nets
    BY <2>8
  <2>10. \A n \in nets : [kind |-> "net", of |-> n, name |-> "none"] \in DefinedEnds(end, dev)
    BY <2>8
  <2>11. \A n \in nets : \E e \in DefinedEnds(end, dev) : e.of = n
    BY <2>10
  <2>12. EndMeans(end, dev) = UNION {e.of : e \in DefinedEnds(end, dev)}
    BY <1>4 DEF EndMeans
  <2> QED BY <2>3, <2>9, <2>11, <2>12 DEF nets
<1> QED BY <1>1, <1>2, <1>3, <1>4 DEF EndKinds

\* A service group whose services are of one protocol, with ports or without,
\* is read for what it is, or given up.
LEMMA AsaGroupService ==
    ASSUME NEW dev, IsDevice(dev), NEW ds, ReadFrom(ds, dev), NEW name, NEW flow \in Flow,
           \A s1, s2 \in DefinedServices(name, dev) :
              s1.proto = s2.proto /\ (s1.port.op = "none" <=> s2.port.op = "none"),
           NEW service, service.kind = "group", service.name = name,
           AsaService(service, ds).protocols # {}
    PROVE  /\ \E p \in AsaService(service, ds).protocols : p \in {"ip", flow.proto}
           /\ \E q \in FirstNonEmpty({}, {}, AsaService(service, ds).ports) :
                 q \in {AnyPort, flow.port}
           <=> \E s \in DefinedServices(name, dev) :
                  /\ s.proto \in {"ip", flow.proto}
                  /\ s.port.op = "none" \/ flow.port \in s.port.of
<1> DEFINE key == <<"group", name>>
           defined == Defined(key, dev)
           offered == DefinedServices(name, dev)
           read == AsaService(service, ds)
<1>1. /\ Expand(key, ds).complete
      /\ read.protocols = Expand(key, ds).protocols /\ read.ports = Expand(key, ds).ports
  BY DEF AsaService
<1>2. /\ read.protocols = UNION {Parsed(d).protocols : d \in defined}
      /\ read.ports = UNION {Parsed(d).ports : d \in defined}
      /\ \A d \in defined : Parsed(d).complete
  <2>1. key[1] \in Kinds
    BY DEF Kinds
  <2> HIDE DEF key
  <2> QED BY <1>1, <2>1, CompleteExpansion
<1>3. offered = UNION {d.services : d \in defined}
  BY DEF DefinedServices
<1>4. \A d \in defined : \A s \in d.services :
         /\ PortKnown(s.port) \/ s.port.op = "none"
         /\ s.port.of \subseteq Ports /\ Operand(s.port)
  <2> TAKE d \in defined
  <2>1. d \in Definition /\ \A s \in d.services : Operand(s.port)
    <3>1. key[1] \in Kinds
      BY DEF Kinds
    <3> HIDE DEF key
    <3> QED BY <3>1, DefinedAreDefinitions
  <2>2. \A s \in d.services : s.port \in PortTerm
    BY <2>1 DEF Definition
  <2>3. \A s \in d.services : s.port.of \subseteq Ports
    BY <2>2 DEF PortTerm
  <2>4. \A s \in d.services : PortKnown(s.port) \/ s.port.op = "none"
    BY <1>2 DEF Parsed
  <2> QED BY <2>1, <2>3, <2>4
<1> HIDE DEF defined, key, read
<1>5. \A s \in offered : \E d \in defined : s \in d.services
  BY <1>3
<1>6. \A p : p \in read.protocols <=> \E s \in offered : p = s.proto /\ p # "none"
  <2>1. \A d, p : p \in Parsed(d).protocols <=> \E s \in d.services : p = s.proto /\ p # "none"
    BY DEF Parsed
  <2> QED BY <1>2, <1>3, <2>1
<1>7. \A q : q \in read.ports <=> \E s \in offered : PortKnown(s.port) /\ q \in s.port.of
  <2>1. \A d, q : q \in Parsed(d).ports
                     <=> \E s \in d.services : PortKnown(s.port) /\ q \in s.port.of
    BY DEF Parsed
  <2> QED BY <1>2, <1>3, <2>1
<1>8. PICK s0 \in offered : s0.proto # "none"
  <2>1. read.protocols # {}
    BY DEF read
  <2> QED BY <1>6, <2>1
<1>9. \A s \in offered : s.proto = s0.proto /\ (s.port.op = "none" <=> s0.port.op = "none")
  OBVIOUS
<1>10. \A p : p \in read.protocols <=> p = s0.proto
  BY <1>6, <1>8, <1>9
<1>11. \A s \in offered : PortKnown(s.port) => s.port.op \in {"eq", "range"}
  BY DEF PortKnown
<1>12. CASE s0.port.op = "none"
  <2>1. read.ports = {}
    BY <1>7, <1>9, <1>11, <1>12
  <2>2. FirstNonEmpty({}, {}, read.ports) = {AnyPort}
    BY <2>1 DEF FirstNonEmpty
  <2> QED BY <1>9, <1>10, <1>12, <2>2 DEF read
<1>13. CASE s0.port.op # "none"
  <2>1. \A s \in offered : /\ PortKnown(s.port) /\ s.port.op # "none" /\ s.port.of \subseteq Ports
                           /\ s.port.of # {}
    <3> TAKE s \in offered
    <3>1. s.port.op # "none" /\ PortKnown(s.port) /\ s.port.of \subseteq Ports /\ Operand(s.port)
      BY <1>4, <1>5, <1>9, <1>13
    <3>2. s.port.of # {}
      BY <1>11, <3>1 DEF Operand
    <3> QED BY <3>1, <3>2
  <2>2. read.ports # {}
    BY <1>7, <2>1
  <2>3. FirstNonEmpty({}, {}, read.ports) = read.ports
    BY <2>2 DEF FirstNonEmpty
  <2>4. AnyPort \notin read.ports
    BY <1>7, <2>1, PolicyAssumption DEF AnyPort
  <2>5. (\E q \in read.ports : q \in {AnyPort, flow.port})
           <=> \E s \in offered : flow.port \in s.port.of
    BY <1>7, <2>1, <2>4
  <2> QED BY <1>9, <1>10, <2>1, <2>3, <2>5 DEF read
<1> QED BY <1>12, <1>13

-----------------------------------------------------------------------------
(* The readers                                                             *)

Fields == {"line", "action", "service", "src", "sport", "dst", "dport", "trailer"}

\* An entry, or an element of one, as its platform prints it.
Printed(platform, ace) ==
    /\ DOMAIN ace = Fields
    /\ Grammatical(platform, ace)
    /\ ace.dport \in PortTerm
    /\ ace.service.kind \in {"proto", "group"}
    /\ ace.src.kind \in EndKinds /\ ace.dst.kind \in EndKinds

ServiceAdmits(ace, flow, dev) ==
    \E v \in Offers(ace, dev) : /\ v[1].name \in {"ip", flow.proto}
                                /\ v[2].op = "none" \/ flow.port \in v[2].of

\* What an entry without a source port admits is decided field by field.
LEMMA AdmitsByField ==
    ASSUME NEW dev, NEW flow, NEW ace, DOMAIN ace = Fields,
           ace.src.kind \in EndKinds, ace.dst.kind \in EndKinds, ace.sport.op = "none"
    PROVE  AceAdmits(ace, flow, dev)
           <=> /\ ServiceAdmits(ace, flow, dev)
               /\ flow.src \in EndMeans(ace.src, dev) /\ flow.dst \in EndMeans(ace.dst, dev)
               /\ ace.trailer \in {"none", "log"}
<1> DEFINE element(v, s, p, d) ==
               [ace EXCEPT !.service = v[1], !.src = s, !.sport = p, !.dst = d, !.dport = v[2]]
<1>1. ASSUME NEW v, NEW s, NEW p, NEW d
      PROVE  ElementAdmits(element(v, s, p, d), flow, dev)
             <=> /\ v[1].name \in {"ip", flow.proto}
                 /\ v[2].op = "none" \/ flow.port \in v[2].of
                 /\ p.op \in {"none", "over"}
                 /\ flow.src \in EndMeans(s, dev) /\ flow.dst \in EndMeans(d, dev)
                 /\ ace.trailer \in {"none", "log"}
  <2> DEFINE a == element(v, s, p, d)
  <2>1. /\ a.service = v[1] /\ a.src = s /\ a.sport = p /\ a.dst = d /\ a.dport = v[2]
        /\ a.trailer = ace.trailer
    BY DEF Fields
  <2> HIDE DEF a
  <2>2. ElementAdmits(a, flow, dev)
             <=> /\ v[1].name \in {"ip", flow.proto}
                 /\ v[2].op = "none" \/ flow.port \in v[2].of
                 /\ p.op \in {"none", "over"}
                 /\ flow.src \in EndMeans(s, dev) /\ flow.dst \in EndMeans(d, dev)
                 /\ ace.trailer \in {"none", "log"}
    BY <2>1 DEF ElementAdmits
  <2> QED BY <2>2 DEF a
<1>2. Terms(ace.sport, dev) = {ace.sport}
  BY DEF Terms
<1>3. Elements(ace, dev) = {element(v, s, p, d) : v \in Offers(ace, dev), s \in Ends(ace.src, dev),
                                                  p \in {ace.sport}, d \in Ends(ace.dst, dev)}
  BY <1>2 DEF Elements
<1> HIDE DEF element
<1>4. AceAdmits(ace, flow, dev) <=>
         \E v \in Offers(ace, dev), s \in Ends(ace.src, dev), d \in Ends(ace.dst, dev) :
            ElementAdmits(element(v, s, ace.sport, d), flow, dev)
  BY <1>3 DEF AceAdmits
<1>5. AceAdmits(ace, flow, dev) <=>
         /\ ServiceAdmits(ace, flow, dev)
         /\ \E s \in Ends(ace.src, dev) : flow.src \in EndMeans(s, dev)
         /\ \E d \in Ends(ace.dst, dev) : flow.dst \in EndMeans(d, dev)
         /\ ace.trailer \in {"none", "log"}
  BY <1>1, <1>4 DEF ServiceAdmits
<1> QED BY <1>5, EndsMean

LEMMA PlainService ==
    ASSUME NEW dev, NEW flow, NEW ace, ace.service.kind # "group", ace.dport.op # "group"
    PROVE  ServiceAdmits(ace, flow, dev)
           <=> /\ ace.service.name \in {"ip", flow.proto}
               /\ ace.dport.op = "none" \/ flow.port \in ace.dport.of
<1> DEFINE pair == <<ace.service, ace.dport>>
<1>1. \A v : v \in Offers(ace, dev) <=> v = pair
  BY DEF Offers, Terms
<1>2. pair[1] = ace.service /\ pair[2] = ace.dport
  OBVIOUS
<1> HIDE DEF pair
<1> QED BY <1>1, <1>2 DEF ServiceAdmits

\* A port of a term, where the reader has its ports and no others.
LEMMA TermPorts ==
    ASSUME NEW term, term.of \subseteq Ports, term.op # "none", NEW flow
    PROVE  /\ AnyPort \notin term.of /\ term.of \ {AnyPort} = term.of
           /\ (\E q \in term.of : q \in {AnyPort, flow.port}) <=> flow.port \in term.of
BY PolicyAssumption DEF AnyPort

LEMMA AsaReads ==
    ASSUME NEW dev, IsDevice(dev), dev.platform = "cisco_asa", NEW ds, ReadFrom(ds, dev),
           NEW ace, Printed("cisco_asa", ace), KnownSyntax(dev, ace), NEW nth,
           AsaRules(ace, nth, ds) # {}, NEW flow \in Flow
    PROVE  (\E r \in AsaRules(ace, nth, ds) : Matches(r, flow)) <=> AceAdmits(ace, flow, dev)
<1> DEFINE service == AsaService(ace.service, ds)
           dports == AsaPorts(ace.dport, ds)
           ports == FirstNonEmpty(dports \ {AnyPort}, {}, service.ports)
           rules == Rules(ace, nth, service.protocols, AsaSpecs(ace.src, ds),
                          AsaSpecs(ace.dst, ds), ports)
<1>1. /\ ace.sport.op = "none" /\ ace.dport.op \in {"none", "eq", "service", "range"}
      /\ ace.src.kind \in EndKinds \ {"fqdn"} /\ ace.dst.kind \in EndKinds \ {"fqdn"}
      /\ ace.trailer \in {"none", "log"}
  BY DEF KnownSyntax, IosLike, Printed, PortTerm
<1>2. AsaPorts(ace.sport, ds) = {AnyPort}
  BY <1>1 DEF AsaPorts
<1>3. AsaRules(ace, nth, ds) = rules /\ dports # {}
  <2>1. {AnyPort} \ {AnyPort} = {}
    OBVIOUS
  <2> HIDE DEF service
  <2> QED BY <1>1, <1>2, <2>1 DEF AsaRules, service
<1>4. /\ AsaSpecs(ace.src, ds) # {} /\ AsaSpecs(ace.dst, ds) # {}
      /\ service.protocols # {}
  <2>1. PICK r \in rules : TRUE
    BY <1>3
  <2> HIDE DEF service, ports
  <2> QED BY <2>1, RuleFields
<1>5. (\E r \in rules : Matches(r, flow))
         <=> /\ \E p \in service.protocols : p \in {"ip", flow.proto}
             /\ \E q \in ports : q \in {AnyPort, flow.port}
             /\ \E s \in AsaSpecs(ace.src, ds) : flow.src \in s
             /\ \E d \in AsaSpecs(ace.dst, ds) : flow.dst \in d
  <2> HIDE DEF service, ports
  <2> QED BY <1>3, SomeRuleMatches
<1>6. /\ (\E s \in AsaSpecs(ace.src, ds) : flow.src \in s) <=> flow.src \in EndMeans(ace.src, dev)
      /\ (\E d \in AsaSpecs(ace.dst, ds) : flow.dst \in d) <=> flow.dst \in EndMeans(ace.dst, dev)
  BY <1>1, <1>4, AsaEnd
<1>7. ((\E p \in service.protocols : p \in {"ip", flow.proto})
          /\ (\E q \in ports : q \in {AnyPort, flow.port}))
         <=> ServiceAdmits(ace, flow, dev)
  <2>1. CASE ace.service.kind = "proto"
    <3>1. service.protocols = {ace.service.name} /\ service.ports = {}
      BY <2>1 DEF AsaService
    <3>2. ServiceAdmits(ace, flow, dev)
             <=> /\ ace.service.name \in {"ip", flow.proto}
                 /\ ace.dport.op = "none" \/ flow.port \in ace.dport.of
      BY <1>1, <2>1, PlainService
    <3>3. (\E q \in ports : q \in {AnyPort, flow.port})
             <=> ace.dport.op = "none" \/ flow.port \in ace.dport.of
      <4>1. CASE ace.dport.op = "none"
        <5>1. dports = {AnyPort}
          BY <4>1 DEF AsaPorts
        <5>2. ports = {AnyPort}
          BY <3>1, <5>1 DEF FirstNonEmpty
        <5> QED BY <4>1, <5>2
      <4>2. CASE ace.dport.op = "service"
        <5>1. dports = {}
          BY <4>2 DEF AsaPorts
        <5> QED BY <1>3, <5>1
      <4>3. CASE ace.dport.op \in {"eq", "range"}
        <5>1. dports = ace.dport.of
          BY <1>3, <4>3 DEF AsaPorts
        <5>2. ace.dport.of \subseteq Ports
          BY DEF Printed, PortTerm
        <5>3. /\ AnyPort \notin ace.dport.of /\ ace.dport.of \ {AnyPort} = ace.dport.of
              /\ (\E q \in ace.dport.of : q \in {AnyPort, flow.port})
                    <=> flow.port \in ace.dport.of
          BY <4>3, <5>2, TermPorts
        <5>4. ports = ace.dport.of
          BY <1>3, <5>1, <5>3 DEF FirstNonEmpty
        <5> QED BY <4>3, <5>3, <5>4
      <4> QED BY <1>1, <4>1, <4>2, <4>3
    <3> HIDE DEF ports
    <3> QED BY <3>1, <3>2, <3>3
  <2>2. CASE ace.service.kind = "group"
    <3> DEFINE offered == DefinedServices(ace.service.name, dev)
    <3>1. ace.dport.op = "none"
      BY <2>2 DEF Printed, Grammatical
    <3>2. dports = {AnyPort}
      BY <3>1 DEF AsaPorts
    <3>3. ports = FirstNonEmpty({}, {}, service.ports)
      BY <3>2
    <3>4. \A s1, s2 \in offered : s1.proto = s2.proto /\ (s1.port.op = "none" <=> s2.port.op = "none")
      BY <2>2 DEF KnownSyntax
    <3>5. ((\E p \in service.protocols : p \in {"ip", flow.proto})
             /\ (\E q \in FirstNonEmpty({}, {}, service.ports) : q \in {AnyPort, flow.port}))
             <=> \E s \in offered : /\ s.proto \in {"ip", flow.proto}
                                    /\ s.port.op = "none" \/ flow.port \in s.port.of
      BY <1>4, <2>2, <3>4, AsaGroupService
    <3>6. ServiceAdmits(ace, flow, dev)
             <=> \E s \in offered : /\ s.proto \in {"ip", flow.proto}
                                    /\ s.port.op = "none" \/ flow.port \in s.port.of
      <4> DEFINE pair(s) == <<[kind |-> "proto", name |-> s.proto], s.port>>
      <4>1. Offers(ace, dev) = {pair(s) : s \in offered}
        BY <2>2 DEF Offers
      <4>2. \A s : pair(s)[1].name = s.proto /\ pair(s)[2] = s.port
        OBVIOUS
      <4> HIDE DEF offered, pair
      <4> QED BY <4>1, <4>2 DEF ServiceAdmits
    <3> QED BY <3>3, <3>5, <3>6
  <2> QED BY <2>1, <2>2 DEF Printed
<1>8. AceAdmits(ace, flow, dev)
         <=> /\ ServiceAdmits(ace, flow, dev)
             /\ flow.src \in EndMeans(ace.src, dev) /\ flow.dst \in EndMeans(ace.dst, dev)
             /\ ace.trailer \in {"none", "log"}
  BY <1>1, AdmitsByField DEF Printed
<1> HIDE DEF rules, service, ports
<1> QED BY <1>1, <1>3, <1>5, <1>6, <1>7, <1>8

LEMMA IosEnd ==
    ASSUME NEW end, end.kind \in EndKinds \ {"wild"}, IosSpecs(end) # {}, NEW addr, NEW dev
    PROVE  (\E s \in IosSpecs(end) : addr \in s) <=> addr \in EndMeans(end, dev)
<1>1. CASE end.kind = "any"
  BY <1>1 DEF IosSpecs, EndMeans
<1>2. CASE end.kind = "net"
  BY <1>2 DEF IosSpecs, EndMeans
<1>3. CASE end.kind \notin {"any", "net"}
  BY <1>3 DEF IosSpecs, EndKinds
<1> QED BY <1>1, <1>2, <1>3

\* The three readers without groups differ in what they take for the port.
LEMMA PlainReads ==
    ASSUME NEW dev, NEW ace, NEW nth, NEW ports, NEW flow \in Flow, DOMAIN ace = Fields,
           ace.service.kind = "proto", ace.sport.op = "none", ace.trailer \in {"none", "log"},
           ace.src.kind \in EndKinds \ {"wild"}, ace.dst.kind \in EndKinds \ {"wild"},
           ace.dport.op # "group",
           (\E q \in ports : q \in {AnyPort, flow.port})
              <=> ace.dport.op = "none" \/ flow.port \in ace.dport.of,
           NEW rules, rules # {},
           rules = Rules(ace, nth, {ace.service.name}, IosSpecs(ace.src), IosSpecs(ace.dst), ports)
    PROVE  (\E r \in rules : Matches(r, flow)) <=> AceAdmits(ace, flow, dev)
<1>1. IosSpecs(ace.src) # {} /\ IosSpecs(ace.dst) # {}
  <2>1. PICK r \in rules : TRUE
    OBVIOUS
  <2> QED BY <2>1, RuleFields
<1>2. (\E r \in rules : Matches(r, flow))
         <=> /\ \E p \in {ace.service.name} : p \in {"ip", flow.proto}
             /\ \E q \in ports : q \in {AnyPort, flow.port}
             /\ \E s \in IosSpecs(ace.src) : flow.src \in s
             /\ \E d \in IosSpecs(ace.dst) : flow.dst \in d
  BY SomeRuleMatches
<1>3. /\ (\E s \in IosSpecs(ace.src) : flow.src \in s) <=> flow.src \in EndMeans(ace.src, dev)
      /\ (\E d \in IosSpecs(ace.dst) : flow.dst \in d) <=> flow.dst \in EndMeans(ace.dst, dev)
  BY <1>1, IosEnd
<1>4. ServiceAdmits(ace, flow, dev)
         <=> /\ ace.service.name \in {"ip", flow.proto}
             /\ ace.dport.op = "none" \/ flow.port \in ace.dport.of
  BY PlainService
<1>5. AceAdmits(ace, flow, dev)
         <=> /\ ServiceAdmits(ace, flow, dev)
             /\ flow.src \in EndMeans(ace.src, dev) /\ flow.dst \in EndMeans(ace.dst, dev)
             /\ ace.trailer \in {"none", "log"}
  BY AdmitsByField
<1> QED BY <1>2, <1>3, <1>4, <1>5

LEMMA IosReads ==
    ASSUME NEW dev, dev.platform = "cisco_ios", NEW ace, Printed("cisco_ios", ace),
           KnownSyntax(dev, ace), NEW nth, IosRules(ace, nth) # {}, NEW flow \in Flow
    PROVE  (\E r \in IosRules(ace, nth) : Matches(r, flow)) <=> AceAdmits(ace, flow, dev)
<1> DEFINE ports == IosPorts(ace.dport)
           rules == Rules(ace, nth, {ace.service.name}, IosSpecs(ace.src), IosSpecs(ace.dst), ports)
<1>1. ace.src.kind \in EndKinds \ {"wild"} /\ ace.dst.kind \in EndKinds \ {"wild"}
  BY DEF KnownSyntax, Printed
<1>2. /\ ace.service.kind = "proto" /\ IosPortKnown(ace.sport) /\ IosPortKnown(ace.dport)
      /\ IosRules(ace, nth) = rules
  BY <1>1 DEF IosRules, Printed
<1>3. ace.sport.op = "none" /\ ace.dport.op \in {"none", "eq"} /\ ace.trailer \in {"none", "log"}
  BY <1>2 DEF KnownSyntax, IosLike, IosPortKnown
<1>4. (\E q \in ports : q \in {AnyPort, flow.port})
         <=> ace.dport.op = "none" \/ flow.port \in ace.dport.of
  <2>1. CASE ace.dport.op = "none"
    BY <2>1 DEF IosPorts
  <2>2. CASE ace.dport.op = "eq"
    <3>1. ace.dport.of \subseteq Ports /\ ports = ace.dport.of
      BY <2>2 DEF Printed, PortTerm, IosPorts
    <3> QED BY <2>2, <3>1, TermPorts
  <2> QED BY <1>3, <2>1, <2>2
<1>5. DOMAIN ace = Fields
  BY DEF Printed
<1> HIDE DEF ports
<1> QED BY <1>1, <1>2, <1>3, <1>4, <1>5, PlainReads

LEMMA EosReads ==
    ASSUME NEW dev, dev.platform = "arista_eos", NEW ace, Printed("arista_eos", ace),
           KnownSyntax(dev, ace), NEW nth, EosRules(ace, nth) # {}, NEW flow \in Flow
    PROVE  (\E r \in EosRules(ace, nth) : Matches(r, flow)) <=> AceAdmits(ace, flow, dev)
<1> DEFINE ports == FirstNonEmpty(IosPorts(ace.dport) \ {AnyPort},
                                  IosPorts(ace.sport) \ {AnyPort}, {})
           rules == Rules(ace, nth, {ace.service.name}, IosSpecs(ace.src), IosSpecs(ace.dst), ports)
<1>1. /\ ace.trailer # "unknown" /\ "wild" \notin {ace.src.kind, ace.dst.kind}
      /\ ace.service.kind = "proto" /\ IosPortKnown(ace.sport) /\ IosPortKnown(ace.dport)
      /\ EosRules(ace, nth) = rules
  <2> HIDE DEF ports
  <2> QED BY DEF EosRules, Printed, ports
<1>2. ace.src.kind \in EndKinds \ {"wild"} /\ ace.dst.kind \in EndKinds \ {"wild"}
  BY <1>1 DEF Printed
<1>3. ace.sport.op = "none" /\ ace.dport.op \in {"none", "eq"} /\ ace.trailer \in {"none", "log"}
  BY <1>1 DEF KnownSyntax, IosLike, IosPortKnown
<1>4. IosPorts(ace.sport) \ {AnyPort} = {}
  BY <1>3 DEF IosPorts
<1>5. (\E q \in ports : q \in {AnyPort, flow.port})
         <=> ace.dport.op = "none" \/ flow.port \in ace.dport.of
  <2>1. CASE ace.dport.op = "none"
    <3>1. IosPorts(ace.dport) \ {AnyPort} = {}
      BY <2>1 DEF IosPorts
    <3>2. ports = {AnyPort}
      BY <1>4, <3>1 DEF FirstNonEmpty
    <3> QED BY <2>1, <3>2
  <2>2. CASE ace.dport.op = "eq"
    <3>1. ace.dport.of \subseteq Ports /\ IosPorts(ace.dport) = ace.dport.of
      BY <2>2 DEF Printed, PortTerm, IosPorts
    <3>2. ace.dport.of # {}
      BY <2>2 DEF Printed, Grammatical, Operand
    <3>3. /\ ace.dport.of \ {AnyPort} = ace.dport.of
          /\ (\E q \in ace.dport.of : q \in {AnyPort, flow.port}) <=> flow.port \in ace.dport.of
      BY <2>2, <3>1, TermPorts
    <3>4. ports = ace.dport.of
      BY <3>1, <3>2, <3>3 DEF FirstNonEmpty
    <3> QED BY <2>2, <3>3, <3>4
  <2> QED BY <1>3, <2>1, <2>2
<1>6. DOMAIN ace = Fields
  BY DEF Printed
<1> HIDE DEF ports
<1> QED BY <1>1, <1>2, <1>3, <1>5, <1>6, PlainReads

LEMMA SrlReads ==
    ASSUME NEW dev, dev.platform = "nokia_srl", NEW ace, Printed("nokia_srl", ace),
           KnownSyntax(dev, ace), NEW nth, SrlRules(ace, nth) # {}, NEW flow \in Flow
    PROVE  (\E r \in SrlRules(ace, nth) : Matches(r, flow)) <=> AceAdmits(ace, flow, dev)
<1> DEFINE ports == IF ace.dport.op = "none" \/ Cardinality(ace.dport.of) # 1 THEN {AnyPort}
                    ELSE ace.dport.of
<1>1. SrlRules(ace, nth) = Rules(ace, nth, {ace.service.name}, IosSpecs(ace.src),
                                 IosSpecs(ace.dst), ports)
  BY DEF SrlRules
<1>2. /\ ace.service.kind = "proto"
      /\ ace.src.kind \in EndKinds \ {"wild"} /\ ace.dst.kind \in EndKinds \ {"wild"}
  BY DEF Printed, Grammatical, EndKinds
<1>3. ace.sport.op = "none" /\ ace.dport.op \in {"none", "eq"} /\ ace.trailer \in {"none", "log"}
  BY DEF KnownSyntax, IosLike
<1>4. (\E q \in ports : q \in {AnyPort, flow.port})
         <=> ace.dport.op = "none" \/ flow.port \in ace.dport.of
  <2>1. CASE ace.dport.op = "none"
    BY <2>1
  <2>2. CASE ace.dport.op = "eq"
    <3>1. PICK p \in Ports : ace.dport.of = {p}
      BY <2>2 DEF Printed, Grammatical, Operand
    <3>2. ports = ace.dport.of
      BY <2>2, <3>1, FS_Singleton
    <3>3. ace.dport.of \subseteq Ports
      BY <3>1
    <3> HIDE DEF ports
    <3> QED BY <2>2, <3>2, <3>3, TermPorts
  <2> QED BY <1>3, <2>1, <2>2
<1>5. DOMAIN ace = Fields
  BY DEF Printed
<1> HIDE DEF ports
<1> QED BY <1>1, <1>2, <1>3, <1>4, <1>5, PlainReads

LEMMA RulesRead ==
    ASSUME NEW dev, IsDevice(dev), NEW ds, ReadFrom(ds, dev), NEW ace,
           Printed(dev.platform, ace), KnownSyntax(dev, ace), NEW nth,
           RulesOf(dev.platform, ace, nth, ds) # {}, NEW flow \in Flow
    PROVE  (\E r \in RulesOf(dev.platform, ace, nth, ds) : Matches(r, flow))
           <=> AceAdmits(ace, flow, dev)
<1>1. CASE dev.platform = "cisco_asa"
  <2>1. RulesOf(dev.platform, ace, nth, ds) = AsaRules(ace, nth, ds)
    BY <1>1 DEF RulesOf
  <2> QED BY <1>1, <2>1, AsaReads
<1>2. CASE dev.platform = "cisco_ios"
  <2>1. RulesOf(dev.platform, ace, nth, ds) = IosRules(ace, nth)
    BY <1>2 DEF RulesOf
  <2> QED BY <1>2, <2>1, IosReads
<1>3. CASE dev.platform = "arista_eos"
  <2>1. RulesOf(dev.platform, ace, nth, ds) = EosRules(ace, nth)
    BY <1>3 DEF RulesOf
  <2> QED BY <1>3, <2>1, EosReads
<1>4. CASE dev.platform = "nokia_srl"
  <2>1. RulesOf(dev.platform, ace, nth, ds) = SrlRules(ace, nth)
    BY <1>4 DEF RulesOf
  <2> QED BY <1>4, <2>1, SrlReads
<1> QED BY <1>1, <1>2, <1>3, <1>4 DEF IsDevice, Platforms

-----------------------------------------------------------------------------
(* The elements of an entry                                                *)

\* The ports of a service are no groups: a group of services has them.
LEMMA ServicePorts ==
    ASSUME NEW dev, IsDevice(dev), NEW name, NEW s \in DefinedServices(name, dev)
    PROVE  s.port \in PortTerm /\ Operand(s.port) /\ s.port.op # "group"
<1> DEFINE key == <<"group", name>>
<1>1. PICK d \in Defined(key, dev) : s \in d.services
  BY DEF DefinedServices
<1>2. key[1] \in Kinds
  BY DEF Kinds
<1> HIDE DEF key
<1>3. d \in Definition /\ Operand(s.port) /\ s.port.op # "group"
  BY <1>1, <1>2, DefinedAreDefinitions
<1> QED BY <1>1, <1>3 DEF Definition

LEMMA TermKinds ==
    ASSUME NEW dev, IsDevice(dev), NEW term, Operand(term), NEW p \in Terms(term, dev)
    PROVE  /\ Operand(p) /\ p.op # "group"
           /\ term \in PortTerm => p \in PortTerm
<1>1. CASE term.op = "group"
  <2>1. PICK s \in DefinedServices(term.name, dev) : p = s.port
    BY <1>1 DEF Terms
  <2> QED BY <2>1, ServicePorts
<1>2. CASE term.op # "group"
  BY <1>2 DEF Terms
<1> QED BY <1>1, <1>2

LEMMA EndsKinds ==
    ASSUME NEW dev, NEW end, end.kind \in EndKinds, NEW e \in Ends(end, dev)
    PROVE  /\ e.kind \in EndKinds \ {"group", "object"}
           /\ end.kind \notin {"group", "object"} => e = end
<1>1. CASE end.kind \in {"group", "object"}
  <2>1. e \in DefinedEnds(end, dev)
    BY <1>1 DEF Ends
  <2> QED BY <1>1, <2>1, DefinedEndKinds DEF EndKinds
<1>2. CASE end.kind \notin {"group", "object"}
  BY <1>2 DEF Ends
<1> QED BY <1>1, <1>2

LEMMA OfferKinds ==
    ASSUME NEW dev, IsDevice(dev), NEW ace, ace.service.kind \in {"proto", "group"},
           Operand(ace.dport), ace.dport \in PortTerm, NEW v \in Offers(ace, dev)
    PROVE  /\ v[1].kind = "proto"
           /\ v[2] \in PortTerm /\ Operand(v[2]) /\ v[2].op # "group"
<1>1. CASE ace.service.kind = "group"
  <2> DEFINE pair(s) == <<[kind |-> "proto", name |-> s.proto], s.port>>
  <2>1. Offers(ace, dev) = {pair(s) : s \in DefinedServices(ace.service.name, dev)}
    BY <1>1 DEF Offers
  <2>2. \A s : pair(s)[1].kind = "proto" /\ pair(s)[2] = s.port
    OBVIOUS
  <2> HIDE DEF pair
  <2>3. PICK s \in DefinedServices(ace.service.name, dev) : v = pair(s)
    BY <2>1
  <2> QED BY <2>2, <2>3, ServicePorts
<1>2. CASE ace.service.kind = "proto"
  <2>1. Offers(ace, dev) = {ace.service} \X Terms(ace.dport, dev)
    BY <1>2 DEF Offers
  <2>2. v[1] = ace.service /\ v[2] \in Terms(ace.dport, dev)
    BY <2>1
  <2> QED BY <1>2, <2>2, TermKinds
<1> QED BY <1>1, <1>2

Element(ace, v, s, p, d) ==
    [ace EXCEPT !.service = v[1], !.src = s, !.sport = p, !.dst = d, !.dport = v[2]]

LEMMA ElementFields ==
    ASSUME NEW ace, DOMAIN ace = Fields, NEW v, NEW s, NEW p, NEW d
    PROVE  LET e == Element(ace, v, s, p, d)
           IN /\ DOMAIN e = Fields
              /\ e.service = v[1] /\ e.src = s /\ e.sport = p /\ e.dst = d /\ e.dport = v[2]
              /\ e.line = ace.line /\ e.action = ace.action /\ e.trailer = ace.trailer
BY DEF Element, Fields

LEMMA SomeElement ==
    ASSUME NEW ace, NEW dev, NEW b
    PROVE  b \in Elements(ace, dev)
           <=> \E v \in Offers(ace, dev), s \in Ends(ace.src, dev), p \in Terms(ace.sport, dev),
                  d \in Ends(ace.dst, dev) : b = Element(ace, v, s, p, d)
BY DEF Elements, Element

\* An element is printed as an entry is, and stands for itself.
LEMMA ElementsArePrinted ==
    ASSUME NEW dev, IsDevice(dev), NEW ace, Printed(dev.platform, ace),
           NEW b \in Elements(ace, dev)
    PROVE  /\ Printed(dev.platform, b) /\ b.line = ace.line /\ b.action = ace.action
           /\ \A flow : AceAdmits(b, flow, dev) <=> ElementAdmits(b, flow, dev)
<1>1. PICK v \in Offers(ace, dev), s \in Ends(ace.src, dev), p \in Terms(ace.sport, dev),
           d \in Ends(ace.dst, dev) : b = Element(ace, v, s, p, d)
  BY SomeElement
<1>2. /\ DOMAIN b = Fields
      /\ b.service = v[1] /\ b.src = s /\ b.sport = p /\ b.dst = d /\ b.dport = v[2]
      /\ b.line = ace.line /\ b.action = ace.action /\ b.trailer = ace.trailer
  <2>1. DOMAIN ace = Fields
    BY DEF Printed
  <2> QED BY <1>1, <2>1, ElementFields
<1>3. /\ b.src.kind \in EndKinds \ {"group", "object"}
      /\ b.dst.kind \in EndKinds \ {"group", "object"}
      /\ ace.src.kind \notin {"group", "object"} => b.src = ace.src
      /\ ace.dst.kind \notin {"group", "object"} => b.dst = ace.dst
  BY <1>2, EndsKinds DEF Printed
<1>4. /\ b.service.kind = "proto"
      /\ b.dport \in PortTerm /\ Operand(b.dport) /\ b.dport.op # "group"
  BY <1>2, OfferKinds DEF Printed, Grammatical
<1>5. Operand(b.sport) /\ b.sport.op # "group"
  BY <1>2, TermKinds DEF Printed, Grammatical
<1>6. dev.platform = "nokia_srl" => {b.src.kind, b.dst.kind} \subseteq {"any", "net"}
  BY <1>3 DEF Printed, Grammatical
<1>7. Printed(dev.platform, b)
  <2>1. Grammatical(dev.platform, b)
    BY <1>4, <1>5, <1>6 DEF Grammatical
  <2> QED BY <1>2, <1>3, <1>4, <2>1 DEF Printed
<1>8. \A flow : AceAdmits(b, flow, dev) <=> ElementAdmits(b, flow, dev)
  <2> TAKE flow
  <2>1. Ends(b.src, dev) = {b.src} /\ Ends(b.dst, dev) = {b.dst} /\ Terms(b.sport, dev) = {b.sport}
    BY <1>3, <1>5 DEF Ends, Terms
  <2> DEFINE pair == <<b.service, b.dport>>
  <2>2. \A w : w \in Offers(b, dev) <=> w = pair
    BY <1>4 DEF Offers, Terms
  <2> DEFINE e == Element(b, pair, b.src, b.sport, b.dst)
  <2>3. /\ e.service = pair[1] /\ e.src = b.src /\ e.sport = b.sport /\ e.dst = b.dst
        /\ e.dport = pair[2] /\ e.trailer = b.trailer
    BY <1>2, ElementFields
  <2>4. pair[1] = b.service /\ pair[2] = b.dport
    OBVIOUS
  <2>5. \A x : x \in Elements(b, dev) <=> x = e
    <3> HIDE DEF pair
    <3> QED BY <2>1, <2>2, SomeElement
  <2> HIDE DEF e, pair
  <2>6. ElementAdmits(e, flow, dev) <=> ElementAdmits(b, flow, dev)
    BY <2>3, <2>4 DEF ElementAdmits
  <2> QED BY <2>5, <2>6 DEF AceAdmits
<1> QED BY <1>2, <1>7, <1>8

LEMMA NumberedIsPrinted ==
    ASSUME NEW dev, IsDevice(dev), NEW i \in DOMAIN dev.aces
    PROVE  /\ Printed(dev.platform, Numbered(dev, i))
           /\ Numbered(dev, i).line \in Nat /\ Numbered(dev, i).action = dev.aces[i].action
<1> DEFINE ace == dev.aces[i]
           unnumbered == {j \in 1..i : dev.aces[j].line = 0}
<1>1. ace \in Ace /\ i \in Nat /\ Grammatical(dev.platform, ace)
  BY DEF IsDevice
<1>2. 10 * Cardinality(unnumbered) \in Nat
  <2>1. IsFiniteSet(1..i)
    BY <1>1, FS_Interval
  <2>2. unnumbered \in SUBSET (1..i)
    OBVIOUS
  <2> HIDE DEF unnumbered
  <2>3. Cardinality(unnumbered) \in Nat
    BY <2>1, <2>2, FS_Subset, FS_CardinalityType
  <2> QED BY <2>3
<1> HIDE DEF unnumbered
<1>3. \/ Numbered(dev, i) = ace
      \/ Numbered(dev, i) = [ace EXCEPT !.line = 10 * Cardinality(unnumbered)]
  BY DEF Numbered, unnumbered
<1> HIDE DEF ace
<1>4. PICK n \in Nat : \/ Numbered(dev, i) = ace
                       \/ Numbered(dev, i) = [ace EXCEPT !.line = n]
  BY <1>2, <1>3
<1> DEFINE a == Numbered(dev, i)
<1>5. /\ DOMAIN a = Fields /\ a.line \in Nat /\ a.action = ace.action
      /\ a.service = ace.service /\ a.src = ace.src /\ a.sport = ace.sport
      /\ a.dst = ace.dst /\ a.dport = ace.dport
  BY <1>1, <1>4 DEF Ace, Fields
<1> HIDE DEF a
<1>6. Grammatical(dev.platform, a)
  BY <1>1, <1>5 DEF Grammatical
<1>7. a.dport \in PortTerm /\ a.service \in Service /\ a.src \in Endpoint /\ a.dst \in Endpoint
  BY <1>1, <1>5 DEF Ace
<1>8. /\ a.service.kind \in {"proto", "group"}
      /\ a.src.kind \in EndKinds /\ a.dst.kind \in EndKinds
  BY <1>7 DEF Service, Endpoint, EndKinds
<1> QED BY <1>5, <1>6, <1>7, <1>8 DEF Printed, a, ace

-----------------------------------------------------------------------------
(* Entries and verdicts                                                    *)

\* A rule keeps the place and the action of the line it was read from.
RulesKeepPlace(p, nth, ds) ==
    \A a : \A r \in RulesOf(p, a, nth, ds) :
        /\ r.line = a.line /\ r.nth = nth /\ r.action = a.action
        /\ r.action \in {"permit", "deny"}

LEMMA RulesPlaces ==
    ASSUME NEW dev, IsDevice(dev), NEW ds, NEW nth
    PROVE  RulesKeepPlace(dev.platform, nth, ds)
<1> SUFFICES ASSUME NEW a, NEW r \in RulesOf(dev.platform, a, nth, ds)
             PROVE  /\ r.line = a.line /\ r.nth = nth /\ r.action = a.action
                    /\ r.action \in {"permit", "deny"}
  BY DEF RulesKeepPlace
<1>1. \E protos, srcs, dsts, ports : r \in Rules(a, nth, protos, srcs, dsts, ports)
  <2>1. CASE r \in AsaRules(a, nth, ds)
    BY <2>1 DEF AsaRules
  <2>2. CASE r \in IosRules(a, nth)
    BY <2>2 DEF IosRules
  <2>3. CASE r \in EosRules(a, nth)
    BY <2>3 DEF EosRules
  <2>4. CASE r \in SrlRules(a, nth)
    BY <2>4 DEF SrlRules
  <2> QED BY <2>1, <2>2, <2>3, <2>4 DEF RulesOf, IsDevice, Platforms
<1> QED BY <1>1, RuleFields

\* What an entry was read as, where every element of it was understood.
LEMMA EntryAgrees ==
    ASSUME NEW dev, IsDevice(dev), NEW ds, ReadFrom(ds, dev), NEW i \in DOMAIN dev.aces,
           \A a \in Shown(dev, i) : KnownSyntax(dev, a), NEW flow \in Flow
    PROVE  /\ \A r \in ParsedEntry(dev, i, ds) :
                 /\ r.line = Numbered(dev, i).line /\ r.nth = i
                 /\ r.action \in {"permit", "deny"} =>
                       r.action = dev.aces[i].action
           /\ (\A r \in ParsedEntry(dev, i, ds) : r.action # "unparsed") =>
                 ((\E r \in ParsedEntry(dev, i, ds) : Matches(r, flow))
                     <=> AceAdmits(Numbered(dev, i), flow, dev))
<1> DEFINE ace == Numbered(dev, i)
           read(a) == RulesOf(dev.platform, a, i, ds)
           entry == ParsedEntry(dev, i, ds)
           shown == Shown(dev, i)
           some(a) == IF read(a) = {} THEN Unparsed(a, i) ELSE read(a)
<1>1. Printed(dev.platform, ace) /\ ace.action = dev.aces[i].action
  BY NumberedIsPrinted
<1>2. \A a \in shown : Printed(dev.platform, a) /\ a.line = ace.line /\ a.action = ace.action
  <2> HIDE DEF ace
  <2>1. shown = IF dev.prints /\ HasGroup(ace) THEN Elements(ace, dev) ELSE {ace}
    BY DEF Shown, ace
  <2> HIDE DEF shown
  <2>2. CASE dev.prints /\ HasGroup(ace)
    BY <1>1, <2>1, <2>2, ElementsArePrinted
  <2>3. CASE ~(dev.prints /\ HasGroup(ace))
    BY <1>1, <2>1, <2>3
  <2> QED BY <2>2, <2>3
<1>3. entry = UNION {some(a) : a \in shown}
  BY DEF ParsedEntry
<1>4. \A a : \A r \in Unparsed(a, i) : r.line = a.line /\ r.nth = i /\ r.action = "unparsed"
  BY DEF Unparsed
<1>5. \A a : Unparsed(a, i) # {}
  BY DEF Unparsed
<1>6. \A a : \A r \in read(a) : /\ r.line = a.line /\ r.nth = i /\ r.action = a.action
                                /\ r.action \in {"permit", "deny"}
  BY RulesPlaces DEF RulesKeepPlace
<1>7. \A a \in shown : KnownSyntax(dev, a)
  OBVIOUS
<1>8. AceAdmits(ace, flow, dev) <=> \E a \in shown : AceAdmits(a, flow, dev)
  <2> HIDE DEF ace
  <2>1. shown = IF dev.prints /\ HasGroup(ace) THEN Elements(ace, dev) ELSE {ace}
    BY DEF Shown, ace
  <2> HIDE DEF shown
  <2>2. CASE dev.prints /\ HasGroup(ace)
    <3>1. \A a \in Elements(ace, dev) :
             AceAdmits(a, flow, dev) <=> ElementAdmits(a, flow, dev)
      BY <1>1, ElementsArePrinted
    <3> QED BY <2>1, <2>2, <3>1 DEF AceAdmits
  <2>3. CASE ~(dev.prints /\ HasGroup(ace))
    BY <2>1, <2>3
  <2> QED BY <2>2, <2>3
<1>9. \A a \in shown : read(a) # {} =>
         ((\E r \in read(a) : Matches(r, flow)) <=> AceAdmits(a, flow, dev))
  <2> TAKE a \in shown
  <2> HAVE read(a) # {}
  <2> HIDE DEF shown
  <2> QED BY <1>2, <1>7, RulesRead
<1> HIDE DEF entry, shown, read, ace
<1>10. \A r \in entry : /\ r.line = ace.line /\ r.nth = i
                        /\ r.action \in {"permit", "deny"} => r.action = ace.action
  BY <1>2, <1>3, <1>4, <1>6
<1>11. ASSUME \A r \in entry : r.action # "unparsed"
       PROVE  (\E r \in entry : Matches(r, flow)) <=> AceAdmits(ace, flow, dev)
  <2>1. \A a \in shown : read(a) # {}
    BY <1>3, <1>4, <1>5, <1>11
  <2>2. entry = UNION {read(a) : a \in shown}
    BY <1>3, <2>1
  <2> QED BY <1>8, <1>9, <2>1, <2>2
<1> QED BY <1>1, <1>10, <1>11 DEF entry, ace

\* A policy of a device whose entries were all in known syntax gives, where no
\* unmodelled rule is above the match, the verdict of the device.
LEMMA VerdictAgrees ==
    ASSUME NEW dev, IsDevice(dev), NEW ds, ReadFrom(ds, dev),
           \A i \in DOMAIN dev.aces : \A a \in Shown(dev, i) : KnownSyntax(dev, a),
           NEW flow \in Flow, Trusted(ParsedPolicy(dev, ds), flow)
    PROVE  Verdict(ParsedPolicy(dev, ds), flow) = DeviceVerdict(dev, flow)
<1> DEFINE policy == ParsedPolicy(dev, ds)
           places == DOMAIN dev.aces
           line(i) == Numbered(dev, i).line
           entry(i) == ParsedEntry(dev, i, ds)
           admits == {i \in places : AceAdmits(Numbered(dev, i), flow, dev)}
           before(i, j) == \/ line(i) < line(j)
                           \/ line(i) = line(j) /\ i < j
           hits == Hits(policy, flow)
           firsts == FirstHits(policy, flow)
<1>1. \A i \in places : line(i) \in Nat /\ i \in Nat
  BY NumberedIsPrinted DEF IsDevice
<1>2. \A i \in places : \A r \in entry(i) :
         /\ r.line = line(i) /\ r.nth = i
         /\ r.action \in {"permit", "deny"} => r.action = dev.aces[i].action
  BY EntryAgrees
<1>3. \A i \in places :
         (\A r \in entry(i) : r.action # "unparsed") =>
            ((\E r \in entry(i) : Matches(r, flow)) <=> i \in admits)
  BY EntryAgrees
<1>4. policy = UNION {entry(i) : i \in places}
  BY DEF ParsedPolicy
<1>5. /\ hits = {r \in policy : Matches(r, flow)}
      /\ firsts = {r \in hits : \A other \in hits : ~Earlier(other, r)}
  BY DEF Hits, FirstHits
<1>6. DeviceVerdict(dev, flow)
         = IF admits = {} THEN "deny"
           ELSE IF dev.aces[CHOOSE i \in admits : \A j \in admits : ~before(j, i)].action = "deny"
                THEN "deny" ELSE "permit"
  <2> DEFINE place(i) == <<Numbered(dev, i).line, i>>
             earlier(i, j) == \/ place(i)[1] < place(j)[1]
                              \/ place(i)[1] = place(j)[1] /\ i < j
  <2>1. \A i, j : earlier(i, j) <=> before(i, j)
    OBVIOUS
  <2>2. DeviceVerdict(dev, flow)
           = IF admits = {} THEN "deny"
             ELSE IF dev.aces[CHOOSE i \in admits : \A j \in admits : ~earlier(j, i)].action = "deny"
                  THEN "deny" ELSE "permit"
    BY DEF DeviceVerdict
  <2> HIDE DEF admits
  <2> QED BY <2>2
<1>7. /\ Verdict(policy, flow) = IF \E r \in firsts : r.action = "permit" THEN "permit" ELSE "deny"
      /\ \A r \in policy : r.action = "unparsed" => \E first \in firsts : first.line < r.line
  BY DEF Verdict, Trusted
<1> HIDE DEF policy, places, line, entry, admits, hits, firsts
<1>8. \A r \in policy : /\ r.nth \in places /\ r \in entry(r.nth)
                        /\ r.line = line(r.nth) /\ r.line \in Nat /\ r.nth \in Nat
  BY <1>1, <1>2, <1>4
<1>9. \A r \in hits : /\ r \in policy /\ Matches(r, flow)
                      /\ r.action \in {"permit", "deny"} /\ r.action = dev.aces[r.nth].action
  BY <1>2, <1>5, <1>8 DEF Matches
<1>10. CASE hits = {}
  <2>1. firsts = {}
    BY <1>5, <1>10
  <2>2. \A i \in places : \A r \in entry(i) : r.action # "unparsed"
    BY <1>4, <1>7, <2>1
  <2>3. admits = {}
    <3>1. \A i \in places : ~\E r \in entry(i) : Matches(r, flow)
      BY <1>4, <1>5, <1>10
    <3>2. \A i \in places : i \notin admits
      BY <1>3, <2>2, <3>1
    <3> QED BY <3>2 DEF admits
  <2> QED BY <1>6, <1>7, <2>1, <2>3 DEF policy
<1>11. CASE hits # {}
  <2>1. PICK f \in firsts : TRUE
    <3> DEFINE lines == {r.line : r \in hits}
    <3>1. lines \in SUBSET Nat /\ lines # {}
      BY <1>8, <1>9, <1>11
    <3>2. PICK n \in lines : \A m \in lines : n <= m
      <4> HIDE DEF lines
      <4> QED BY <3>1, LeastNatural
    <3> DEFINE nths == {r.nth : r \in {x \in hits : x.line = n}}
    <3>3. nths \in SUBSET Nat /\ nths # {}
      BY <1>8, <1>9, <3>2
    <3>4. PICK k \in nths : \A m \in nths : k <= m
      <4> HIDE DEF nths
      <4> QED BY <3>3, LeastNatural
    <3>5. PICK f \in hits : f.line = n /\ f.nth = k
      BY <3>4
    <3>6. \A other \in hits : ~Earlier(other, f)
      <4> TAKE other \in hits
      <4>1. /\ other.line \in Nat /\ other.nth \in Nat /\ n \in Nat /\ k \in Nat
        BY <1>8, <1>9, <3>5
      <4>2. n <= other.line
        BY <3>2
      <4>3. other.line = n => k <= other.nth
        BY <3>4
      <4> QED BY <3>5, <4>1, <4>2, <4>3 DEF Earlier
    <3> QED BY <1>5, <3>5, <3>6
  <2> DEFINE k == f.nth
  <2>2. f \in hits /\ f \in policy /\ \A other \in hits : ~Earlier(other, f)
    BY <1>5, <1>9, <2>1
  <2>3. k \in places /\ f \in entry(k) /\ f.line = line(k) /\ f.line \in Nat /\ k \in Nat
    BY <1>8, <2>2
  <2>4. \A g \in firsts : g.line = f.line /\ g.nth = k
    <3> TAKE g \in firsts
    <3>1. /\ g \in hits /\ g \in policy /\ ~Earlier(f, g) /\ ~Earlier(g, f)
      BY <1>5, <1>9, <2>2
    <3>2. g.line \in Nat /\ g.nth \in Nat
      BY <1>8, <3>1
    <3> QED BY <2>3, <3>1, <3>2 DEF Earlier
  <2>5. \A g \in firsts : g.action = dev.aces[k].action
    BY <1>5, <1>9, <2>4
  <2>6. dev.aces[k].action \in {"permit", "deny"}
    BY <1>9, <2>2
  <2>7. Verdict(policy, flow) = dev.aces[k].action
    <3> HIDE DEF k
    <3> QED BY <1>7, <2>1, <2>5, <2>6
  <2>8. \A i \in places : line(i) <= f.line => \A r \in entry(i) : r.action # "unparsed"
    <3> SUFFICES ASSUME NEW i \in places, line(i) <= f.line, NEW r \in entry(i),
                        r.action = "unparsed"
                 PROVE  FALSE
      OBVIOUS
    <3>1. r \in policy
      BY <1>4
    <3>2. PICK first \in firsts : first.line < r.line
      BY <1>7, <3>1
    <3>3. first.line = f.line /\ r.line = line(i)
      BY <1>2, <2>4
    <3> QED BY <1>1, <2>3, <3>2, <3>3
  <2>9. k \in admits
    <3>1. \A r \in entry(k) : r.action # "unparsed"
      BY <2>3, <2>8
    <3>2. Matches(f, flow)
      BY <1>9, <2>2
    <3> QED BY <1>3, <2>3, <3>1, <3>2
  <2>10. \A j \in admits : ~before(j, k)
    <3> SUFFICES ASSUME NEW j \in admits, before(j, k) PROVE FALSE
      OBVIOUS
    <3>1. j \in places /\ line(j) \in Nat /\ j \in Nat
      BY <1>1 DEF admits
    <3>2. line(j) <= f.line
      BY <2>3, <3>1
    <3>3. PICK r \in entry(j) : Matches(r, flow)
      BY <1>3, <2>8, <3>1, <3>2
    <3>4. r \in hits /\ r.line = line(j) /\ r.nth = j
      BY <1>2, <1>4, <1>5, <3>1, <3>3
    <3>5. Earlier(r, f)
      BY <2>3, <3>4 DEF Earlier
    <3> QED BY <2>2, <3>4, <3>5
  <2>11. \A j \in admits : (\A m \in admits : ~before(m, j)) => j = k
    <3> SUFFICES ASSUME NEW j \in admits, ~before(k, j), ~before(j, k) PROVE j = k
      BY <2>9, <2>10
    <3>1. line(j) \in Nat /\ j \in Nat /\ line(k) \in Nat
      BY <1>1, <2>3 DEF admits
    <3> QED BY <2>3, <3>1
  <2> DEFINE first == CHOOSE i \in admits : \A j \in admits : ~before(j, i)
  <2> HIDE DEF k, before
  <2>12. first = k
    BY <2>9, <2>10, <2>11
  <2> HIDE DEF first
  <2>13. admits # {}
    BY <2>9
  <2> QED BY <1>6, <2>6, <2>7, <2>12, <2>13 DEF first, policy
<1> QED BY <1>10, <1>11

\* What a thread has in hand was read of a device that has been there.
ReadMade == \A t \in Threads : reader[t].read.of \in 0..Now

LEMMA ReadMadeStep == TypeOK /\ ReadMade /\ [Next]_vars => ReadMade'
<1> SUFFICES ASSUME TypeOK, ReadMade, [Next]_vars PROVE ReadMade'
  OBVIOUS
<1>0. reader \in [Threads -> Reader] /\ Now \in Nat /\ Now # 0
  BY NowType, BackendAssumption DEF TypeOK, Times
<1>1. ASSUME history' = history, NEW t \in Threads, NEW x, Becomes(t, x), x.read.of \in 0..Now
      PROVE  ReadMade'
  BY <1>0, <1>1 DEF Becomes, ReadMade, Now
<1>2. CASE Change
  <2>1. PICK pair \in Rewrites : history' = Append(history, pair[2])
    BY <1>2 DEF Change
  <2>2. Now' = Now + 1 /\ reader' = reader
    BY <1>2, <2>1, BackendAssumption DEF Change, TypeOK, Now
  <2> QED BY <1>0, <2>2 DEF ReadMade
<1>3. ASSUME NEW t \in Threads,
             \/ AskPolicy(t) \/ Refresh(t) \/ Look(t) \/ ReadAccessList(t) \/ Raise(t)
             \/ ReadGroups(t) \/ ReadObjects(t) \/ Store(t) \/ Return(t)
             \/ AskNat(t) \/ IosNat(t) \/ ReadNat(t) \/ ResolveNat(t) \/ Assess(t)
      PROVE  ReadMade'
  <2> DEFINE r == reader[t]
  <2>0. r \in Reader /\ r.read.of \in 0..Now
    BY <1>0 DEF ReadMade
  <2>1. history' = history
    BY <1>3 DEF AskPolicy, Refresh, Look, ReadAccessList, Raise, ReadGroups, ReadObjects, Store,
                Return, AskNat, IosNat, ReadNat, ResolveNat, Assess
  <2>2. /\ Idle.read.of = 0 /\ Asking(t).read.of = 0 /\ Refreshing(t).read.of = 0
        /\ [Idle EXCEPT !.at = "nat", !.for = "nat"].read.of = 0
        /\ \A word : [Idle EXCEPT !.said = word].read.of = 0
    BY DEF Idle, NotRead, Asking, Refreshing
  <2> DEFINE Sound(x) == x.read.of \in {0, Now}
  <2>2a. ASSUME NEW x, Becomes(t, x), Sound(x) PROVE ReadMade'
    BY <1>0, <1>1, <2>1, <2>2a
  <2> HIDE DEF Sound
  <2>3. ASSUME NEW word, Said(t, word) PROVE ReadMade'
    <3> DEFINE x == [Idle EXCEPT !.said = word]
    <3>1. Becomes(t, x) /\ Sound(x)
      BY <2>2, <2>3 DEF Said, Sound
    <3> HIDE DEF x
    <3> QED BY <2>2a, <3>1
  <2>4. CASE AskPolicy(t) \/ Raise(t)
    BY <1>0, <1>1, <2>1, <2>2, <2>4 DEF AskPolicy, Raise
  <2>5. CASE Refresh(t)
    BY <1>0, <1>1, <2>1, <2>2, <2>5 DEF Refresh
  <2>6. CASE Look(t)
    <3>1. [r EXCEPT !.at = IF cache.of # 0 THEN "return" ELSE "send"].read = r.read
      BY <2>0 DEF Reader
    <3> QED BY <1>1, <2>0, <2>1, <2>6, <3>1 DEF Look
  <2>7. CASE ReadAccessList(t)
    <3> DEFINE y == [r EXCEPT !.read = [NotRead EXCEPT !.of = Now]]
    <3>1. /\ [y EXCEPT !.at = "store"].read.of = Now /\ [y EXCEPT !.at = "groups"].read.of = Now
          /\ WithDefinitions(y).read.of = Now
      BY <2>0 DEF WithDefinitions, Reader, NotRead
    <3>2. \/ Becomes(t, [y EXCEPT !.at = "store"]) \/ Becomes(t, WithDefinitions(y))
          \/ Becomes(t, [y EXCEPT !.at = "groups"])
      <4>1. Becomes(t, IF ~NeedsDefinitions([NotRead EXCEPT !.of = Now])
                       THEN [y EXCEPT !.at = "store"]
                       ELSE IF defs.at = "read" THEN WithDefinitions(y)
                       ELSE [y EXCEPT !.at = "groups"])
        BY <2>7 DEF ReadAccessList
      <4> HIDE DEF y
      <4> QED BY <4>1
    <3> DEFINE stored == [y EXCEPT !.at = "store"]
               wanting == [y EXCEPT !.at = "groups"]
    <3>3. Sound(stored) /\ Sound(wanting) /\ Sound(WithDefinitions(y))
      BY <3>1 DEF Sound
    <3>4. Becomes(t, stored) \/ Becomes(t, WithDefinitions(y)) \/ Becomes(t, wanting)
      BY <3>2
    <3> HIDE DEF y, stored, wanting
    <3> QED BY <2>2a, <3>3, <3>4
  <2>8. CASE ReadGroups(t)
    <3>1. \A time : [r EXCEPT !.at = "objects", !.read.groups = time].read.of = r.read.of
      BY <2>0 DEF Reader, Read
    <3> QED BY <1>1, <2>0, <2>1, <2>8, <3>1 DEF ReadGroups
  <2>9. CASE ReadObjects(t)
    <3>1. \A time, at : [r EXCEPT !.at = at, !.read.objects = time].read.of = r.read.of
      BY <2>0 DEF Reader, Read
    <3> QED BY <1>1, <2>0, <2>1, <2>9, <3>1 DEF ReadObjects
  <2>10. CASE Store(t)
    <3>1. [r EXCEPT !.at = "return"].read = r.read
      BY <2>0 DEF Reader
    <3> QED BY <1>1, <2>0, <2>1, <2>10, <3>1 DEF Store
  <2>11. CASE Return(t)
    <3> DEFINE x == [r EXCEPT !.at = "idle", !.read = NotRead, !.got = cache]
    <3>1. Sound(x)
      BY <2>0 DEF Reader, NotRead, Sound
    <3>2. Becomes(t, x)
      BY <2>11 DEF Return
    <3> HIDE DEF x
    <3> QED BY <2>2a, <3>1, <3>2
  <2>12. CASE AskNat(t)
    <3> DEFINE x == [Idle EXCEPT !.at = "nat", !.for = "nat"]
    <3>1. Sound(x)
      BY <2>2 DEF Sound
    <3>2. Said(t, "clear") \/ Becomes(t, x)
      BY <2>12 DEF AskNat
    <3> HIDE DEF x
    <3> QED BY <2>3, <2>2a, <3>1, <3>2
  <2>13. CASE IosNat(t) \/ Assess(t)
    BY <2>3, <2>13 DEF IosNat, Assess
  <2>14. CASE ReadNat(t)
    <3>1. CASE UNCHANGED reader
      BY <2>1, <3>1 DEF ReadMade, Now
    <3> QED BY <2>3, <2>14, <3>1 DEF ReadNat
  <2>15. CASE ResolveNat(t)
    <3> DEFINE wanting == [r EXCEPT !.at = "groups"]
               judging == [r EXCEPT !.at = "assess", !.read.objects = defs.objects]
    <3>1. wanting.read = r.read /\ judging.read.of = r.read.of
      BY <2>0 DEF Reader, Read
    <3>2. Said(t, "clear") \/ Becomes(t, wanting) \/ Becomes(t, judging)
      BY <2>15 DEF ResolveNat, Said
    <3> HIDE DEF wanting, judging
    <3>3. CASE Said(t, "clear")
      BY <2>3, <3>3
    <3>4. CASE Becomes(t, wanting)
      BY <1>1, <2>0, <2>1, <3>1, <3>4
    <3>5. CASE Becomes(t, judging)
      BY <1>1, <2>0, <2>1, <3>1, <3>5
    <3> QED BY <3>2, <3>3, <3>4, <3>5
  <2> QED BY <1>3, <2>4, <2>5, <2>6, <2>7, <2>8, <2>9, <2>10, <2>11, <2>12, <2>13, <2>14, <2>15
<1>4. CASE UNCHANGED vars
  BY <1>4 DEF vars, ReadMade, Now
<1> QED BY <1>2, <1>3, <1>4 DEF Next

\* For every device, whatever its entries, groups and objects are: what is
\* simulated is what the device does, wherever the entries are in the syntax
\* the readers claim and no unmodelled rule is above the match, and whichever
\* of the reads of definitions failed (the four parsers and objectgroup.py).
THEOREM PoliciesAreReal == Spec => []ReadingAgrees
<1>1. Init => ReadMade
  BY DEF Init, ReadMade, Now, Idle, NotRead
<1>2. TypeOK /\ ReadMade => ReadingAgrees
  <2> SUFFICES ASSUME TypeOK, ReadMade, NEW t \in Threads, Coherent(reader[t].read),
                      \A i \in DOMAIN history[reader[t].read.of].aces :
                         \A a \in Shown(history[reader[t].read.of], i) :
                            KnownSyntax(history[reader[t].read.of], a),
                      NEW flow \in Flow, Trusted(PolicyOf(reader[t].read), flow)
               PROVE  Verdict(PolicyOf(reader[t].read), flow)
                         = DeviceVerdict(history[reader[t].read.of], flow)
    BY DEF ReadingAgrees
  <2> DEFINE read == reader[t].read
             dev == history[read.of]
             ds == DefinitionsAt(read.groups, read.objects)
  <2>1. read.of \in 1..Now
    BY NowType DEF ReadMade, Coherent, Times
  <2>2. dev \in Devices
    BY <2>1 DEF TypeOK, Now
  <2>3. IsDevice(dev)
    BY <2>2, BackendAssumption
  <2>4. /\ ds["group"] = IF read.groups = 0 THEN <<>> ELSE ParsedAll(history[read.groups].groups)
        /\ ds["object"] = IF read.objects = 0 THEN <<>>
                          ELSE ParsedAll(history[read.objects].objects)
    BY DEF DefinitionsAt, Definitions
  <2>5. /\ read.groups = 0 \/ history[read.groups].groups = dev.groups
        /\ read.objects = 0 \/ history[read.objects].objects = dev.objects
    BY DEF Coherent
  <2>6. PolicyOf(read) = ParsedPolicy(dev, ds)
    BY DEF PolicyOf
  <2> HIDE DEF read, dev, ds
  <2>7. ReadFrom(ds, dev)
    BY <2>4, <2>5 DEF ReadFrom
  <2> QED BY <2>3, <2>6, <2>7, VerdictAgrees DEF read, dev
<1> QED BY <1>1, <1>2, ReadMadeStep, BackendTypes, PTL DEF Spec
=============================================================================
