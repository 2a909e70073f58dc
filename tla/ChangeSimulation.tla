-------------------------- MODULE ChangeSimulation --------------------------
(***************************************************************************)
(* One change of a policy, from the evidence to the device: the specialist *)
(* asks for a denied flow and proposes a rule, verify_change and           *)
(* verify_rollback try both on the policy as the backend has it cached     *)
(* (app/verify.py), an engineer approves, and the executor renders the     *)
(* command for the platform, sends it, reads the policy back and reverses  *)
(* what did not work (app/execute).                                        *)
(*                                                                         *)
(* The ASA is the emulator of infra/fakeasa; what the other platforms do   *)
(* with a rendered command is external.  Operators edit the device at any  *)
(* time.  How the policy is read is in PolicyReading: an entry is readable *)
(* or it becomes an unparsed rule.                                         *)
(***************************************************************************)
EXTENDS AclPolicy

CONSTANTS
    Initial,      \* <<platform, entries>> a device may start with
    Proposals,    \* changes the specialist may propose
    Reversals,    \* reversals it may author
    Queries,      \* flows it may ask for
    Foreign,      \* entries operators may add or remove
    MaxAttempts,  \* MAX_VERIFY_ATTEMPTS, 3 in the code
    MaxEdits      \* bound: changes by operators

Platforms == {"cisco_asa", "cisco_ios", "arista_eos", "nokia_srl"}

Body == [action : {"permit", "deny"}, proto : Protos \cup {"ip"},
         src : Specs, dst : Specs, port : Ports \cup {AnyPort}]

\* stated is the number in the command's own text, position the argument; 0 is
\* not given.
Proposal == [body : Body, stated : Nat, position : Nat]

\* The model's own reversal is the removal of a rule or a rule to compensate;
\* "derived" is `no` and the command.
Reversal == [kind : {"derived", "removal", "rule"}, body : Body]

Entry == [rule : {rule \in AclRule : rule.nth = 0}, reads : {"rule", "unparsed"}]

Topped(entries) ==
    entries = {} \/ \E e \in entries : \A other \in entries : other.rule.line <= e.rule.line

ASSUME ChangeAssumption ==
    /\ \A pair \in Initial : /\ pair[1] \in Platforms
                             /\ pair[2] \in SUBSET Entry /\ Topped(pair[2])
    /\ Proposals \subseteq Proposal /\ Reversals \subseteq Reversal
    /\ Queries \subseteq Flow /\ Foreign \subseteq Entry
    /\ MaxAttempts \in Nat /\ MaxEdits \in Nat

VARIABLES
    platform, device,
    view,      \* the backend's cached policy
    evidence,  \* denied_flows of the incident's state
    attempts,  \* verify_attempts
    action,    \* what is pending
    run,       \* the execution of it
    edits

vars == <<platform, device, view, evidence, attempts, action, run, edits>>

Placed(body, line, nth) ==
    [line |-> line, nth |-> nth, action |-> body.action, proto |-> body.proto,
     src |-> body.src, dst |-> body.dst, port |-> body.port]

\* What the backend makes of the entries, and what the device makes of them.
Read(entries) ==
    {IF e.reads = "rule" THEN e.rule ELSE [e.rule EXCEPT !.action = "unparsed"] : e \in entries}
Real(entries) == {e.rule : e \in entries}

LastLine(lines) == CHOOSE n \in lines \cup {0} : \A m \in lines : m <= n

Lines(rules) == {rule.line : rule \in rules}

Has(rules, body) == \E rule \in rules : SameRule(rule, body)

-----------------------------------------------------------------------------
(* The simulator.                                                          *)

\* verify_change: the number in the command goes before the position.
SimulatedLine(p, base) ==
    IF p.stated # 0 THEN p.stated
    ELSE IF p.position # 0 THEN p.position ELSE LastLine(Lines(base)) + 10

\* sorted() is stable: the proposal comes after a rule at its line.
Simulated(p, base) == Placed(p.body, SimulatedLine(p, base), 1)

UnmodelledAbove(base, line) == \E rule \in base : rule.action = "unparsed" /\ rule.line <= line

\* scope_findings: every flow of the evidence is counted by its addresses.
InScope(body, flows) ==
    /\ body.port # AnyPort
    /\ Breadth(body.src) * Breadth(body.dst)
         <= Cardinality({f.src : f \in flows}) * Cardinality({f.dst : f \in flows})

Carries(p, base, flows) ==
    \E flow \in flows : /\ p.body.action = "permit"
                        /\ Simulated(p, base) \in FirstHits(base \cup {Simulated(p, base)}, flow)

\* Mutant: a rule nobody can read is passed over.
ChangeOkUnread(p, base, flows) ==
    /\ flows # {}
    /\ \A flow \in flows : Verdict(base \cup {Simulated(p, base)}, flow) = "permit"
    /\ Carries(p, base, flows) => InScope(p.body, flows)

\* Mutant: how wide the rule is does not matter.
ChangeOkWide(p, base, flows) ==
    /\ flows # {}
    /\ ~UnmodelledAbove(base, SimulatedLine(p, base))
    /\ \A flow \in flows : Verdict(base \cup {Simulated(p, base)}, flow) = "permit"

ChangeOk(p, base, flows) ==
    /\ flows # {}
    /\ ~UnmodelledAbove(base, SimulatedLine(p, base))
    /\ \A flow \in flows : Verdict(base \cup {Simulated(p, base)}, flow) = "permit"
    /\ Carries(p, base, flows) => InScope(p.body, flows)

Reversing(p, reversal) ==
    IF reversal.kind = "derived" THEN [kind |-> "removal", body |-> p.body] ELSE reversal

\* Mutant: any removal is as good as another.
RollbackOkAny(p, reversal, base, flows) == reversal.kind = "removal"

\* verify_rollback places the change by its position alone, and a rule that
\* compensates one line above.
RollbackOk(p, reversal, base, flows) ==
    IF reversal.kind = "removal" THEN SameRule(reversal.body, p.body)
    ELSE LET line == SimulatedLine([p EXCEPT !.stated = 0], base)
             after == base \cup {Placed(p.body, line, 1),
                                 Placed(reversal.body, IF line > 1 THEN line - 1 ELSE 1, 2)}
         IN \A flow \in flows : Verdict(after, flow) = Verdict(base, flow)

-----------------------------------------------------------------------------
(* What the device makes of a rendered command.                            *)

\* device_commands: the ASA keeps a line that is stated; IOS and EOS have the
\* number in the text or get the position; SR Linux gets the position.
CommandLine(p) ==
    IF platform # "nokia_srl" /\ p.stated # 0 THEN p.stated ELSE p.position

\* Two numbers make no command on IOS and EOS, and none makes none on SR Linux.
Rendered(p) ==
    CASE platform = "cisco_asa" -> TRUE
      [] platform \in {"cisco_ios", "arista_eos"} -> p.stated = 0 \/ p.position = 0
      [] platform = "nokia_srl" -> p.position # 0

LineTaken(p, entries) == CommandLine(p) # 0 /\ CommandLine(p) \in Lines(Real(entries))

NewEntry(p, entries) ==
    [rule |-> Placed(p.body, IF CommandLine(p) # 0 THEN CommandLine(p)
                             ELSE LastLine(Lines(Real(entries))) + 10, 0),
     reads |-> "rule"]

\* Mutant: the emulated ASA inserts without pushing the lines below down.
PushedNot(entries, line) == entries

\* Inserting at a line pushes it and everything below down.
Pushed(entries, line) ==
    {IF line # 0 /\ e.rule.line >= line THEN [e EXCEPT !.rule.line = @ + 1] ELSE e :
        e \in entries}

Overwritten(p, entries) ==
    {e \in entries : e.rule.line # CommandLine(p)} \cup {NewEntry(p, entries)}

\* Policy.add on the ASA; IOS and EOS refuse a number that is taken, SR Linux
\* sets the entry of that number.
Landed(p, entries) ==
    IF ~Rendered(p) \/ (platform # "nokia_srl" /\ Has(Read(entries), p.body)) THEN entries
    ELSE CASE platform = "cisco_asa" ->
                Pushed(entries, CommandLine(p)) \cup {NewEntry(p, entries)}
           [] platform \in {"cisco_ios", "arista_eos"} ->
                IF LineTaken(p, entries) THEN entries ELSE entries \cup {NewEntry(p, entries)}
           [] platform = "nokia_srl" -> Overwritten(p, entries)

\* Policy.remove closes the gap (one rule of a body at most is there).
Closed(entries, doomed) ==
    {IF \E d \in doomed : d.rule.line < e.rule.line THEN [e EXCEPT !.rule.line = @ - 1] ELSE e :
        e \in entries \ doomed}

WithBody(p, entries) == {e \in entries : e.reads = "rule" /\ SameRule(e.rule, p.body)}

\* EOS with a position and SR Linux remove by number, whatever the entry is.
Removed(p, entries) ==
    IF ~Rendered(p) THEN entries
    ELSE CASE platform = "cisco_asa" -> Closed(entries, WithBody(p, entries))
           [] platform = "cisco_ios" \/ (platform = "arista_eos" /\ p.position = 0) ->
                entries \ {e \in WithBody(p, entries) : CommandLine(p) \in {0, e.rule.line}}
           [] OTHER -> {e \in entries : e.rule.line # p.position}

Reversed(entries) ==
    LET p == [action.p EXCEPT !.body = action.reversal.body]
    IN IF action.reversal.kind = "removal" THEN Removed(p, entries) ELSE Landed(p, entries)

-----------------------------------------------------------------------------
(* The incident.                                                           *)

NoBody == [action |-> "deny", proto |-> "ip", src |-> {}, dst |-> {}, port |-> AnyPort]
NoAction == [p |-> [body |-> NoBody, stated |-> 0, position |-> 0],
             reversal |-> [kind |-> "removal", body |-> NoBody],
             verdict |-> "none", simulated |-> {}]

\* before: the device when the rule was looked for, or when it was sent.
NoRun == [at |-> "working", before |-> {}, sent |-> "no"]

TypeOK ==
    /\ platform \in Platforms
    /\ device \in SUBSET Entry
    /\ view \in [at : {"unread", "read"}, rules : SUBSET AclRule]
    /\ evidence \in SUBSET Flow
    /\ attempts \in 0..MaxAttempts
    /\ action \in [p : Proposal, reversal : [kind : {"removal", "rule"}, body : Body],
                   verdict : {"none", "verified", "unverified"}, simulated : SUBSET AclRule]
    /\ run \in [at : {"working", "gate", "check", "send", "verify", "undo", "confirm",
                      "applied", "rolled_back", "rollback_failed", "refused"},
                before : SUBSET Entry, sent : {"no", "landed", "lost"}]
    /\ edits \in 0..MaxEdits

Init ==
    /\ \E pair \in Initial : platform = pair[1] /\ device = pair[2]
    /\ view = [at |-> "unread", rules |-> {}]
    /\ evidence = {} /\ attempts = 0
    /\ action = NoAction /\ run = NoRun
    /\ edits = 0

Policy == IF view.at = "read" THEN view.rules ELSE Read(device)
UseCache == view' = [at |-> "read", rules |-> Policy]
Refresh == view' = [at |-> "read", rules |-> Read(device)]

Goto(place) == run' = [run EXCEPT !.at = place]

\* Another incident's execution drops the cache all incidents share.
OthersRefresh ==
    /\ Refresh
    /\ UNCHANGED <<platform, device, evidence, attempts, action, run, edits>>

Edit ==
    /\ edits < MaxEdits /\ edits' = edits + 1
    /\ \E e \in Foreign :
          \/ device' = device \ {e}
          \/ /\ e.rule.line \notin Lines(Real(device)) /\ ~Has(Read(device), e.rule)
             /\ device' = device \cup {e}
    /\ UNCHANGED <<platform, view, evidence, attempts, action, run>>

\* handle_denied_flows; EOS and SR Linux have nothing to report of a flow that
\* no rule denies.
Gather ==
    /\ run.at = "working"
    /\ UseCache
    /\ \E flow \in Queries :
          evidence' = IF /\ Verdict(Policy, flow) = "deny"
                         /\ platform \in {"cisco_asa", "cisco_ios"} \/ Hits(Policy, flow) # {}
                      THEN {flow} ELSE evidence
    /\ UNCHANGED <<platform, device, attempts, action, run, edits>>

Queue(p, reversal, verdict) ==
    /\ action' = [p |-> p, reversal |-> reversal, verdict |-> verdict, simulated |-> Policy]
    /\ Goto("gate")
    /\ UNCHANGED attempts

\* handle_propose_change: after enough refusals a proposal is queued as it is.
\* attempts starts at nothing with the incident and never again.
Propose ==
    /\ run.at = "working"
    /\ UseCache
    /\ \E p \in Proposals, authored \in Reversals :
          LET reversal == Reversing(p, authored)
          IN IF /\ ChangeOk(p, Policy, evidence)
                /\ RollbackOk(p, reversal, Policy, evidence)
             THEN Queue(p, reversal, "verified")
             ELSE IF attempts < MaxAttempts
                  THEN attempts' = attempts + 1 /\ UNCHANGED <<action, run>>
                  ELSE Queue(p, reversal, "unverified")
    /\ UNCHANGED <<platform, device, evidence, edits>>

Reject ==
    /\ run.at = "gate"
    /\ action' = NoAction /\ run' = NoRun
    /\ UNCHANGED <<platform, device, view, evidence, attempts, edits>>

\* Mutant: what was queued unverified is sent once it is approved.
ApproveAny ==
    /\ run.at = "gate"
    /\ UseCache
    /\ Goto(IF evidence = {} THEN "refused" ELSE "check")
    /\ UNCHANGED <<platform, device, evidence, attempts, action, edits>>

\* execute_change simulates once more, for the record only; guard.check has
\* the last word.
Approve ==
    /\ run.at = "gate"
    /\ UseCache
    /\ Goto(IF action.verdict = "verified" /\ evidence # {} THEN "check" ELSE "refused")
    /\ UNCHANGED <<platform, device, evidence, attempts, action, edits>>

\* _already_landed: a rule that is there, wherever, is not sent again.
Check ==
    /\ run.at = "check"
    /\ Refresh
    /\ run' = [run EXCEPT !.before = device,
                          !.at = IF Has(Read(device), action.p.body) THEN "verify" ELSE "send"]
    /\ UNCHANGED <<platform, device, evidence, attempts, action, edits>>

Sent(place, sent) == run' = [run EXCEPT !.at = place, !.sent = sent, !.before = device]

\* send_config: the command lands, is taken without effect (the transcript is
\* not read), or fails before or after it landed.
Send ==
    /\ run.at = "send"
    /\ \/ device' = Landed(action.p, device) /\ Sent("verify", "landed")
       \/ UNCHANGED device /\ Sent("verify", "lost")
       \/ device' \in {device, Landed(action.p, device)} /\ Sent("undo", "lost")
    /\ UNCHANGED <<platform, view, evidence, attempts, action, edits>>

Permitted(rules) == \A flow \in evidence : Verdict(rules, flow) = "permit"

\* verify_applied
VerifyApplied ==
    /\ run.at = "verify"
    /\ Refresh
    /\ Goto(IF Has(Read(device), action.p.body) /\ Permitted(Read(device))
            THEN "applied" ELSE "undo")
    /\ UNCHANGED <<platform, device, evidence, attempts, action, edits>>

\* _revert, with the rule that was skipped as well; a send that fails ends it.
Undo ==
    /\ run.at = "undo"
    /\ \/ device' \in {device, Reversed(device)} /\ Goto("confirm")
       \/ UNCHANGED device /\ Goto("rollback_failed")
    /\ UNCHANGED <<platform, view, evidence, attempts, action, edits>>

\* verify_reverted
VerifyReverted ==
    /\ run.at = "confirm"
    /\ Refresh
    /\ Goto(IF /\ ~Has(Read(device), action.p.body)
               /\ \A flow \in evidence : Verdict(Read(device), flow) = "deny"
            THEN "rolled_back" ELSE "rollback_failed")
    /\ UNCHANGED <<platform, device, evidence, attempts, action, edits>>

\* The next incident meets the device and the cache as they were left.
NextIncident ==
    /\ run.at \in {"applied", "rolled_back", "rollback_failed", "refused"}
    /\ evidence' = {} /\ attempts' = 0
    /\ action' = NoAction /\ run' = NoRun
    /\ UNCHANGED <<platform, device, view, edits>>

Next ==
    \/ OthersRefresh \/ Edit
    \/ Gather \/ Propose \/ Approve \/ Reject
    \/ Check \/ Send \/ VerifyApplied \/ Undo \/ VerifyReverted
    \/ NextIncident

Spec == Init /\ [][Next]_vars

-----------------------------------------------------------------------------
(* Properties.                                                             *)

\* The device is given a command it takes, with the line that was simulated.  It
\* is not when a number is in the text and a position beside it: IOS and EOS get
\* both, SR Linux the position, where the simulator went by the number.
SameLine(p) ==
    /\ Rendered(p)
    /\ CommandLine(p) = IF p.stated # 0 THEN p.stated ELSE p.position

Landing == run.at = "send" /\ run'.sent = "landed"

\* A change the simulator passed does on the device what it did in the
\* simulation: when the policy is still the one that was simulated, the blocked
\* flow is permitted as soon as the command has landed, with a number in the text
\* or a position or neither (verify_change, guard.check and device_commands).  It
\* is not claimed of what may not land where it was simulated: a proposal that is
\* not SameLine, one whose number IOS or EOS refuses because it is taken, and one
\* whose rule the policy has already.
SimulationAgrees ==
    [][(/\ Landing /\ Read(device) = action.simulated
        /\ SameLine(action.p) /\ ~Has(Read(device), action.p.body)
        /\ (platform \in {"cisco_ios", "arista_eos"} => ~LineTaken(action.p, device)))
       => \A flow \in evidence :
             Verdict(Read(device), flow) = "deny" => Verdict(Real(device'), flow) = "permit"]_vars

Opened(flow) == Verdict(Real(device), flow) = "deny" /\ Verdict(Real(device'), flow) = "permit"

\* SR Linux: the entry whose number the change takes, and which it overwrites,
\* was the one that decided the flow.
DecidedByOverwritten(flow) ==
    /\ platform = "nokia_srl"
    /\ \E rule \in FirstHits(Real(device), flow) : rule.line = CommandLine(action.p)

\* A change that carried the flow in the simulation opens no flow of other
\* addresses or another port than the evidence has (scope_findings), whatever
\* operators have done to the device since it was simulated, but for the flows
\* that the entry it overwrites denied: those it may open as well, and nothing
\* looks for them (SR Linux, execute/render.py).
NothingElseOpened ==
    [][Landing /\ Carries(action.p, action.simulated, evidence)
       => \A flow \in Flow :
             Opened(flow) => \/ \E blocked \in evidence : /\ flow.src = blocked.src
                                                          /\ flow.dst = blocked.dst
                                                          /\ flow.port = blocked.port
                             \/ DecidedByOverwritten(flow)]_vars

\* Reversing a change that landed on a device without its rule brings back the
\* entries there were, with their lines (device._revert, Policy.remove); a
\* number that was taken, or a rule that compensates, is another matter.
ReversalRestores ==
    [][(/\ run.at = "undo" /\ run'.at = "confirm" /\ device' = Reversed(device)
        /\ ~Has(Read(run.before), action.p.body) /\ action.reversal.kind = "removal"
        /\ device = Landed(action.p, run.before)
        /\ (platform # "cisco_asa" => ~LineTaken(action.p, run.before)))
       => device' = run.before]_vars
=============================================================================
