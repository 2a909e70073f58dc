-------------------------- MODULE FirewallBackend --------------------------
(***************************************************************************)
(* The read-only backend of one device (CiscoAsaFirewall and the three     *)
(* others over SshDevice), an object that every thread of the process      *)
(* shares: a cached policy, cached definitions and, on the ASA, cached     *)
(* translations, filled by one `show` command at a time.                   *)
(*                                                                         *)
(* history is the device as its operators change it.  A read is known by   *)
(* the place in history it was made at; 0 is a read that was not made or   *)
(* that failed.  The rules of a policy follow from it (PolicyOf).          *)
(***************************************************************************)
EXTENDS PolicyReading

CONSTANTS
    Threads,
    Devices,     \* configurations a device may have
    Rewrites,    \* pairs of them: one change by an operator
    Queried,     \* addresses of the flow whose translation is asked for
    MaxChanges,  \* bound: changes to the device
    MaxFailures  \* bound: commands that fail twice

ASSUME BackendAssumption ==
    /\ MaxChanges \in Nat /\ MaxFailures \in Nat
    /\ \A dev \in Devices :
          IsDevice(dev) /\ \A name \in DOMAIN dev.objects : OneLine(dev.objects[name])
    /\ \A pair \in Rewrites : /\ {pair[1], pair[2]} \subseteq Devices
                              /\ pair[1].platform = pair[2].platform

VARIABLES history, cache, defs, nat, reader, failures

backend == <<cache, defs, nat>>
vars == <<history, cache, defs, nat, reader, failures>>

Now == Len(history)
device == history[Now]
Times == 0..(MaxChanges + 1)

Read == [of : Times, groups : Times, objects : Times]
NotRead == [of |-> 0, groups |-> 0, objects |-> 0]

Reader == [at : {"idle", "ask", "send", "groups", "objects", "store", "return",
                 "nat", "assess"},
           for : {"policy", "nat"},
           read : Read,      \* what it has in hand
           since : Times,    \* when it refreshed; 0 if it did not
           overlap : {"alone", "overlapped"},  \* of other reads, when it refreshed
           got : Read,       \* the policy that was returned
           said : {"nothing", "translated", "unresolved", "clear"}]

TypeOK ==
    /\ history \in Seq(Devices) /\ Len(history) \in 1..(MaxChanges + 1)
    /\ cache \in Read
    /\ defs \in [at : {"unread", "read"}, groups : Times, objects : Times]
    /\ nat \in [at : {"unread", "read", "failed"}, of : Times]
    /\ reader \in [Threads -> Reader]
    /\ failures \in 0..MaxFailures

Idle == [at |-> "idle", for |-> "policy", read |-> NotRead, since |-> 0,
         overlap |-> "alone", got |-> NotRead, said |-> "nothing"]

Unread == [at |-> "unread", groups |-> 0, objects |-> 0]

Init ==
    /\ \E d \in Devices : history = <<d>>
    /\ cache = NotRead
    /\ defs = Unread
    /\ nat = [at |-> "unread", of |-> 0]
    /\ reader = [t \in Threads |-> Idle]
    /\ failures = 0

DefinitionsAt(groups, objects) ==
    Definitions(IF groups = 0 THEN <<>> ELSE ParsedAll(history[groups].groups),
                IF objects = 0 THEN <<>> ELSE ParsedAll(history[objects].objects))

PolicyOf(read) ==
    ParsedPolicy(history[read.of], DefinitionsAt(read.groups, read.objects))

Becomes(t, r) == reader' = [reader EXCEPT ![t] = r]

\* Operators change the device while anything goes on.
Change ==
    /\ Now <= MaxChanges
    /\ \E pair \in Rewrites : pair[1] = device /\ history' = Append(history, pair[2])
    /\ UNCHANGED <<backend, reader, failures>>

-----------------------------------------------------------------------------
(* acl_policy, alone or after refresh.                                     *)

Asking(t) == [Idle EXCEPT !.at = "ask"]

AskPolicy(t) ==
    /\ reader[t].at = "idle"
    /\ Becomes(t, Asking(t))
    /\ UNCHANGED <<history, backend, failures>>

\* Between a read and its place in a cache.
Underway(t) == reader[t].at \in {"groups", "objects", "store"}

Refreshing(t) ==
    [Asking(t) EXCEPT !.since = Now,
                      !.overlap = IF \E u \in Threads \ {t} : Underway(u)
                                  THEN "overlapped" ELSE "alone"]

\* Mutant: refresh forgets the definitions and not the policy.
RefreshDefs(t) ==
    /\ reader[t].at = "idle"
    /\ defs' = Unread
    /\ Becomes(t, Refreshing(t))
    /\ UNCHANGED <<history, cache, nat, failures>>

\* refresh drops the policy and the definitions, and not the translations.
Refresh(t) ==
    /\ reader[t].at = "idle"
    /\ cache' = NotRead
    /\ defs' = Unread
    /\ Becomes(t, Refreshing(t))
    /\ UNCHANGED <<history, nat, failures>>

Look(t) ==
    /\ reader[t].at = "ask"
    /\ Becomes(t, [reader[t] EXCEPT !.at = IF cache.of # 0 THEN "return" ELSE "send"])
    /\ UNCHANGED <<history, backend, failures>>

WithDefinitions(r) == [r EXCEPT !.at = "store", !.read.groups = defs.groups,
                                !.read.objects = defs.objects]

\* The definitions are only read when an entry was not understood.
NeedsDefinitions(read) == device.platform = "cisco_asa" /\ HasUnparsed(PolicyOf(read))

ReadAccessList(t) ==
    /\ reader[t].at = "send"
    /\ LET read == [NotRead EXCEPT !.of = Now]
           r == [reader[t] EXCEPT !.read = read]
       IN Becomes(t, IF ~NeedsDefinitions(read) THEN [r EXCEPT !.at = "store"]
                     ELSE IF defs.at = "read" THEN WithDefinitions(r)
                     ELSE [r EXCEPT !.at = "groups"])
    /\ UNCHANGED <<history, backend, failures>>

\* A command that fails twice is survived where definitions are read.
Outcome(time) ==
    \/ time = Now /\ UNCHANGED failures
    \/ time = 0 /\ failures < MaxFailures /\ failures' = failures + 1

ReadGroups(t) ==
    /\ reader[t].at = "groups"
    /\ \E time \in {0, Now} :
          /\ Outcome(time)
          /\ Becomes(t, [reader[t] EXCEPT !.at = "objects", !.read.groups = time])
    /\ UNCHANGED <<history, backend>>

ReadObjects(t) ==
    /\ reader[t].at = "objects"
    /\ \E time \in {0, Now} :
          /\ Outcome(time)
          /\ defs' = [at |-> "read", groups |-> reader[t].read.groups, objects |-> time]
          /\ Becomes(t, [reader[t] EXCEPT
                            !.at = IF reader[t].for = "nat" THEN "assess" ELSE "store",
                            !.read.objects = time])
    /\ UNCHANGED <<history, cache, nat>>

Store(t) ==
    /\ reader[t].at = "store"
    /\ cache' = reader[t].read
    /\ Becomes(t, [reader[t] EXCEPT !.at = "return"])
    /\ UNCHANGED <<history, defs, nat, failures>>

\* The cache is read once more: a refresh in between makes it a KeyError.
Return(t) ==
    /\ reader[t].at = "return"
    /\ Becomes(t, [reader[t] EXCEPT !.at = "idle", !.read = NotRead, !.got = cache])
    /\ UNCHANGED <<history, backend, failures>>

\* `show access-list` failed twice: the caller gets an exception.
Raise(t) ==
    /\ reader[t].at = "send"
    /\ failures < MaxFailures
    /\ failures' = failures + 1
    /\ Becomes(t, Idle)
    /\ UNCHANGED <<history, backend>>

-----------------------------------------------------------------------------
(* nat_assessment, with what verify._nat_findings makes of its exceptions. *)

Said(t, word) == Becomes(t, [Idle EXCEPT !.said = word])

Word(assessment) == IF assessment.translated THEN "translated"
                    ELSE IF assessment.unresolved THEN "unresolved" ELSE "clear"

\* On EOS and SR Linux the constructor raises a TypeError, which is taken for
\* a backend without translations.
AskNat(t) ==
    /\ reader[t].at = "idle"
    /\ IF device.platform \in {"arista_eos", "nokia_srl"} THEN Said(t, "clear")
       ELSE Becomes(t, [Idle EXCEPT !.at = "nat", !.for = "nat"])
    /\ UNCHANGED <<history, backend, failures>>

\* IOS shows the translations of this moment: any address in one counts.
IosNat(t) ==
    /\ reader[t].at = "nat" /\ device.platform = "cisco_ios"
    /\ \E time \in {0, Now} :
          /\ Outcome(time)
          /\ Said(t, IF time = 0 THEN "unresolved"
                     ELSE Word([translated |-> \E rule \in device.nat :
                                          ~rule.identity /\ \E end \in rule.operands :
                                             end.of \cap Queried # {},
                                unresolved |-> FALSE]))
    /\ UNCHANGED <<history, backend>>

Assessing(t) == reader[t].at = "nat" /\ device.platform = "cisco_asa"

\* A failure is told once, and cached as a device without translations.
ReadNat(t) ==
    /\ Assessing(t) /\ nat.at = "unread"
    /\ \E time \in {0, Now} :
          /\ Outcome(time)
          /\ nat' = [at |-> IF time = 0 THEN "failed" ELSE "read", of |-> time]
          /\ IF time = 0 THEN Said(t, "unresolved") ELSE UNCHANGED reader
    /\ UNCHANGED <<history, cache, defs>>

Translations == IF nat.of = 0 THEN {} ELSE history[nat.of].nat

\* Named objects are only wanted where there is a translation.
ResolveNat(t) ==
    /\ Assessing(t) /\ nat.at # "unread"
    /\ Becomes(t, IF Translations = {} THEN [Idle EXCEPT !.said = "clear"]
                  ELSE IF defs.at = "unread" THEN [reader[t] EXCEPT !.at = "groups"]
                  ELSE [reader[t] EXCEPT !.at = "assess", !.read.objects = defs.objects])
    /\ UNCHANGED <<history, backend, failures>>

\* Mutant: an operand that cannot be resolved is one that does not match.
AssessResolved(t) ==
    /\ reader[t].at = "assess"
    /\ Said(t, IF Assessment(Translations, Queried,
                             DefinitionsAt(0, reader[t].read.objects)).translated
               THEN "translated" ELSE "clear")
    /\ UNCHANGED <<history, backend, failures>>

Assess(t) ==
    /\ reader[t].at = "assess"
    /\ Said(t, Word(Assessment(Translations, Queried,
                               DefinitionsAt(0, reader[t].read.objects))))
    /\ UNCHANGED <<history, backend, failures>>

Next ==
    \/ Change
    \/ \E t \in Threads :
          \/ AskPolicy(t) \/ Refresh(t) \/ Look(t) \/ ReadAccessList(t) \/ Raise(t)
          \/ ReadGroups(t) \/ ReadObjects(t) \/ Store(t) \/ Return(t)
          \/ AskNat(t) \/ IosNat(t) \/ ReadNat(t) \/ ResolveNat(t) \/ Assess(t)

Spec == Init /\ [][Next]_vars

-----------------------------------------------------------------------------
(* Properties.                                                             *)

\* The definitions a policy was read with are still those of its device.
Coherent(read) ==
    /\ read.of # 0
    /\ read.groups = 0 \/ history[read.groups].groups = history[read.of].groups
    /\ read.objects = 0 \/ history[read.objects].objects = history[read.of].objects

\* What is simulated is what the device does: for every flow with no unmodelled
\* rule above its match, a policy of entries in the syntax the readers claim
\* gives the device's verdict, whichever of the reads of definitions failed.
\* (parse_show_access_list and the other readers, "never be mistaken for a
\* complete one".)
ReadingAgrees ==
    \A t \in Threads :
        LET read == reader[t].read
            dev == history[read.of]
            policy == PolicyOf(read)
        IN (reader[t].at = "store" /\ Coherent(read)
              /\ \A i \in DOMAIN dev.aces : \A ace \in Shown(dev, i) : KnownSyntax(dev, ace)) =>
           \A flow \in Flow :
              Trusted(policy, flow) => Verdict(policy, flow) = DeviceVerdict(dev, flow)

\* A policy asked for after refresh is no older than the refresh, and neither
\* are its definitions, unless another thread held a read of its own across it
\* (refresh, _policy_result and _definitions share the caches without a lock).
FreshUnlessOverlapped ==
    \A t \in Threads :
        LET r == reader[t]
        IN (r.at = "idle" /\ r.since # 0 /\ r.got.of # 0 /\ r.overlap = "alone") =>
              /\ r.got.of >= r.since
              /\ \A time \in {r.got.groups, r.got.objects} : time = 0 \/ time >= r.since

\* When the ASA's translations were read, "no translation" is only said of a
\* flow none of them touches; a name that could not be resolved is told as such
\* (nat_assessment and assess_flow).
NatTold ==
    \A t \in Threads :
        (reader[t].said = "clear" /\ nat.of # 0
           /\ \A i \in 1..Now : history[i].objects = device.objects) =>
        \A rule \in history[nat.of].nat : \A end \in rule.operands :
            rule.identity \/ end.kind = "keyword"
                \/ EndMeans(end, history[nat.of]) \cap Queried = {}

=============================================================================
