----------------------------- MODULE AclPolicy -----------------------------
(***************************************************************************)
(* Access lists as the simulator has them (app/firewall/policy.py): rules  *)
(* with a line, evaluated first match first, and the implicit deny at the  *)
(* end.  A policy is the set of its rules; nth is the place of a rule in   *)
(* the list the reader built, which decides between rules of one line      *)
(* because the sort by line is stable.                                     *)
(*                                                                         *)
(* An address expression is the set of the addresses it covers: Addrs for  *)
(* "any", {} for one the ipaddress module refuses to read.                 *)
(***************************************************************************)
EXTENDS Integers, FiniteSets

CONSTANTS Addrs, Ports

ASSUME PolicyAssumption ==
    /\ Ports \subseteq Nat \ {0}
    /\ IsFiniteSet(Addrs)

AnyPort == 0
Protos == {"tcp", "udp"}
\* A prefix has one address, two, or four and more.
Specs == {s \in SUBSET Addrs : s = Addrs \/ Cardinality(s) # 3}

AclRule == [line : Int, nth : Nat, action : {"permit", "deny", "unparsed"},
            proto : Protos \cup {"ip"}, src : Specs, dst : Specs,
            port : Ports \cup {AnyPort}]

Flow == [src : Addrs, dst : Addrs, port : Ports, proto : Protos]

\* Mutant: an unreadable rule counts as one that matches.
MatchesUnparsed(rule, flow) ==
    /\ rule.proto \in {"ip", flow.proto}
    /\ rule.port \in {AnyPort, flow.port}
    /\ flow.src \in rule.src
    /\ flow.dst \in rule.dst

Matches(rule, flow) ==
    /\ rule.action \in {"permit", "deny"}
    /\ rule.proto \in {"ip", flow.proto}
    /\ rule.port \in {AnyPort, flow.port}
    /\ flow.src \in rule.src
    /\ flow.dst \in rule.dst

Hits(rules, flow) == {rule \in rules : Matches(rule, flow)}

Earlier(left, right) ==
    \/ left.line < right.line
    \/ left.line = right.line /\ left.nth < right.nth

\* Mutant: the list is evaluated from its end.
LastHits(rules, flow) ==
    {rule \in Hits(rules, flow) : \A other \in Hits(rules, flow) : ~Earlier(rule, other)}

\* evaluate_flow: the rule that decides (the rules one entry was expanded to
\* have one place, and one action).
FirstHits(rules, flow) ==
    {rule \in Hits(rules, flow) : \A other \in Hits(rules, flow) : ~Earlier(other, rule)}

Verdict(rules, flow) ==
    IF \E rule \in FirstHits(rules, flow) : rule.action = "permit" THEN "permit" ELSE "deny"

\* breadth: usable hosts, network and broadcast addresses of real subnets
\* excluded; an unreadable expression is as broad as any.
Breadth(spec) ==
    IF spec \in {{}, Addrs} THEN Cardinality(Addrs)
    ELSE IF Cardinality(spec) <= 2 THEN Cardinality(spec)
    ELSE Cardinality(spec) - 2

\* _same_rule: everything but where the rule is.
SameRule(left, right) ==
    /\ left.action = right.action /\ left.proto = right.proto
    /\ left.src = right.src /\ left.dst = right.dst /\ left.port = right.port

=============================================================================
