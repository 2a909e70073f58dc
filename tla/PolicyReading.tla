--------------------------- MODULE PolicyReading ---------------------------
(***************************************************************************)
(* From what a device prints to the rules of the simulator: the readers of *)
(* the four platforms (app/firewall/asa.py, ios.py, eos.py, srlinux.py),   *)
(* the expansion of ASA object-groups (objectgroup.py) and the detection   *)
(* of address translation (nat.py).                                        *)
(*                                                                         *)
(* A device is what it is configured with: its entries in order, its       *)
(* object-groups and named objects, whether it prints the expansion of the *)
(* groups under an entry, and its translations.  Tokens are abstracted to  *)
(* the terms of an entry, with the cases the readers tell apart; what a    *)
(* device does with an entry is the reference the readers are held to.     *)
(***************************************************************************)
EXTENDS AclPolicy, Sequences

CONSTANTS
    Names,          \* of object-groups and of named objects
    MaxPortRange,   \* MAX_PORT_RANGE, 64 in the code
    MaxExpansion    \* MAX_EXPANSION, 2048 in the code

ASSUME ReadingAssumption ==
    /\ Addrs \subseteq Nat /\ IsFiniteSet(Names)
    /\ MaxPortRange \in Nat \ {0} /\ MaxExpansion \in Nat \ {0}

Platforms == {"cisco_asa", "cisco_ios", "arista_eos", "nokia_srl"}

\* "wild" is an address with a wildcard that is no prefix, "fqdn" a host by its
\* name, "keyword" one of the words no reader resolves ("interface").
Endpoint == [kind : {"any", "net", "wild", "fqdn", "keyword", "group", "object"},
             of : Specs, name : Names \cup {"none"}]

\* "service" is a port by a name outside PORT_ALIASES, "over" stands for gt,
\* lt and neq; of is the set of the ports that are meant.
PortTerm == [op : {"none", "eq", "service", "range", "over", "group"},
             of : SUBSET Ports, name : Names \cup {"none"}]

\* The protocol, or a service group that carries protocols and ports.
Service == [kind : {"proto", "group"}, name : Protos \cup {"ip"} \cup Names]

Ace == [line : Nat, action : {"permit", "deny", "other"}, service : Service,
        src : Endpoint, sport : PortTerm, dst : Endpoint, dport : PortTerm,
        trailer : {"none", "log", "established", "inactive", "unknown"}]

-----------------------------------------------------------------------------
(* Object-groups.  foreign is what the lines mean that no parser reads.    *)

Definition == [kind : {"network", "service"}, networks : SUBSET Specs,
               foreign : Specs,
               services : SUBSET [proto : Protos \cup {"none"}, port : PortTerm],
               members : SUBSET Names, refs : SUBSET Names]

\* port-object and service-object: eq with a known name, or a short range.
PortKnown(term) ==
    \/ term.op = "eq"
    \/ term.op = "range" /\ Cardinality(term.of) <= MaxPortRange

\* Mutant: lines that are not understood are dropped.
ParsedWhole(def) ==
    [kind |-> def.kind, networks |-> def.networks,
     ports |-> UNION {s.port.of : s \in {x \in def.services : PortKnown(x.port)}},
     protocols |-> {s.proto : s \in def.services} \ {"none"},
     members |-> def.members, refs |-> def.refs, complete |-> TRUE]

Parsed(def) ==
    [kind |-> def.kind, networks |-> def.networks,
     ports |-> UNION {s.port.of : s \in {x \in def.services : PortKnown(x.port)}},
     protocols |-> {s.proto : s \in def.services} \ {"none"},
     members |-> def.members, refs |-> def.refs,
     complete |-> /\ def.foreign = {}
                  /\ \A s \in def.services : PortKnown(s.port) \/ s.port.op = "none"]

ParsedAll(defs) == [name \in DOMAIN defs |-> Parsed(defs[name])]

Definitions(groups, objects) == [group |-> groups, object |-> objects]

Known(key, defs) == key[2] \in DOMAIN defs[key[1]]

References(key, defs) ==
    IF ~Known(key, defs) THEN {}
    ELSE LET entry == defs[key[1]][key[2]]
         IN ({"group"} \X entry.members) \cup ({"object"} \X entry.refs)

\* The keys the recursion comes to; no chain is longer than twice the names.
Reached(key, defs) ==
    LET within[n \in Nat] ==
            IF n = 0 THEN {key}
            ELSE within[n - 1] \cup UNION {References(k, defs) : k \in within[n - 1]}
    IN within[2 * Cardinality(Names)]

\* _expand: seen is shared by the whole recursion, so that a name that is come
\* to a second time, by a cycle or along two ways, makes the group incomplete,
\* as a name without a definition does.
Expand(key, defs) ==
    LET reached == Reached(key, defs)
        entries == {defs[k[1]][k[2]] : k \in {r \in reached : Known(r, defs)}}
        steps == {s \in reached \X reached : s[2] \in References(s[1], defs)}
    IN [networks |-> UNION {e.networks : e \in entries},
        ports |-> UNION {e.ports : e \in entries},
        protocols |-> UNION {e.protocols : e \in entries},
        complete |-> /\ \A r \in reached : Known(r, defs)
                     /\ \A e \in entries : e.complete
                     /\ Cardinality(steps) < Cardinality(reached)]

\* _group_kind
IsService(name, defs) ==
    \/ Known(<<"group", name>>, defs) /\ defs.group[name].kind = "service"
    \/ Known(<<"object", name>>, defs) /\ defs.object[name].kind = "service"

-----------------------------------------------------------------------------
(* The readers.  Each returns the rules of one entry, none when it is not  *)
(* understood: the sets of a record's fields make the cross product.       *)

Rules(ace, nth, protos, srcs, dsts, ports) ==
    [line : {ace.line}, nth : {nth}, action : {ace.action} \cap {"permit", "deny"},
     proto : protos, src : srcs, dst : dsts, port : ports]

Unparsed(ace, nth) ==
    {[line |-> ace.line, nth |-> nth, action |-> "unparsed", proto |-> "ip",
      src |-> Addrs, dst |-> Addrs, port |-> AnyPort]}

\* _resolve_endpoint
AsaSpecs(end, defs) ==
    CASE end.kind = "any" -> {Addrs}
      [] end.kind \in {"net", "wild"} -> {end.of}
      [] end.kind = "fqdn" -> {{}}
      [] end.kind = "keyword" -> {}
      [] end.kind \in {"group", "object"} ->
            LET expansion == Expand(<<end.kind, end.name>>, defs)
            IN IF expansion.complete THEN expansion.networks ELSE {}

\* _resolve_ports: a group it knows nothing of is taken for the next endpoint.
AsaPorts(term, defs) ==
    CASE term.op = "eq" -> term.of
      [] term.op = "service" -> {}
      [] term.op = "range" -> IF PortKnown(term) THEN term.of ELSE {}
      [] term.op = "group" /\ IsService(term.name, defs) ->
            LET expansion == Expand(<<"group", term.name>>, defs)
            IN IF ~expansion.complete THEN {}
               ELSE IF expansion.ports = {} THEN {AnyPort} ELSE expansion.ports
      [] OTHER -> {AnyPort}

\* `permit object-group SVC_GRP`: the group carries protocols and ports.
AsaService(service, defs) ==
    IF service.kind = "proto" THEN [protocols |-> {service.name}, ports |-> {}]
    ELSE LET expansion == Expand(<<"group", service.name>>, defs)
         IN IF IsService(service.name, defs) /\ expansion.complete
            THEN [protocols |-> expansion.protocols, ports |-> expansion.ports]
            ELSE [protocols |-> {}, ports |-> {}]

FirstNonEmpty(first, second, third) ==
    IF first # {} THEN first ELSE IF second # {} THEN second
    ELSE IF third # {} THEN third ELSE {AnyPort}

\* _rules_from_tokens.  An operator before the destination is taken for the
\* destination's address, which matches nothing.
AsaRules(ace, nth, defs) ==
    LET service == AsaService(ace.service, defs)
        sports == AsaPorts(ace.sport, defs)
        misread == ace.sport.op = "over"
        dports == IF misread THEN {AnyPort} ELSE AsaPorts(ace.dport, defs)
        dsts == IF misread THEN {{}}
                ELSE IF ace.sport.op = "group" /\ ~IsService(ace.sport.name, defs) THEN {}
                ELSE AsaSpecs(ace.dst, defs)
        ports == FirstNonEmpty(dports \ {AnyPort}, sports \ {AnyPort}, service.ports)
        rules == Rules(ace, nth, service.protocols, AsaSpecs(ace.src, defs), dsts, ports)
    IN IF sports = {} \/ dports = {} \/ Cardinality(rules) > MaxExpansion THEN {}
       ELSE rules

BareHost(end) == {CHOOSE a \in end.of : \A b \in end.of : a <= b}

\* ios._endpoint: a wildcard that is no prefix leaves the address as a host,
\* and its mask as the next word.
IosSpecs(end) ==
    CASE end.kind = "any" -> {Addrs}
      [] end.kind = "net" -> {end.of}
      [] end.kind = "wild" -> {BareHost(end)}
      [] OTHER -> {}

\* ios._port: a service name it does not know is no constraint.
IosPorts(term) == IF term.op = "eq" THEN term.of ELSE {AnyPort}
IosPortKnown(term) == term.op \in {"none", "eq", "service"}

\* ios._rule_from_entry: the source port is passed over, and so is what
\* follows the destination port.
IosRules(ace, nth) ==
    LET misread == ace.src.kind = "wild"   \* the mask becomes the destination
        dsts == IF misread THEN {{}} ELSE IosSpecs(ace.dst)
        ports == IF misread \/ ace.dst.kind = "wild" THEN {AnyPort}
                 ELSE IosPorts(ace.dport)
    IN IF ace.service.kind # "proto" \/ ~IosPortKnown(ace.sport) \/ ~IosPortKnown(ace.dport)
       THEN {}
       ELSE Rules(ace, nth, {ace.service.name}, IosSpecs(ace.src), dsts, ports)

\* eos._rule: words that are left over make the rule unmodelled, but the
\* trailing qualifiers are cut off before; a source port stands in for a
\* destination port.
EosRules(ace, nth) ==
    LET leftover == \/ ace.trailer = "unknown"
                    \/ "wild" \in {ace.src.kind, ace.dst.kind}
        ports == FirstNonEmpty(IosPorts(ace.dport) \ {AnyPort},
                               IosPorts(ace.sport) \ {AnyPort}, {})
    IN IF \/ leftover \/ ace.service.kind # "proto"
          \/ ~IosPortKnown(ace.sport) \/ ~IosPortKnown(ace.dport)
       THEN {}
       ELSE Rules(ace, nth, {ace.service.name}, IosSpecs(ace.src), IosSpecs(ace.dst), ports)

\* srlinux.parse_show_acl: a range of ports is no constraint.
SrlRules(ace, nth) ==
    Rules(ace, nth, {ace.service.name}, IosSpecs(ace.src), IosSpecs(ace.dst),
          IF ace.dport.op = "none" \/ Cardinality(ace.dport.of) # 1 THEN {AnyPort}
          ELSE ace.dport.of)

HasGroup(ace) == \/ ace.service.kind = "group"
                 \/ {ace.src.kind, ace.dst.kind} \cap {"group", "object"} # {}
                 \/ "group" \in {ace.sport.op, ace.dport.op}

\* The definitions a name stands for: its own and all it refers to.
Defined(key, dev) ==
    LET defs == Definitions(dev.groups, dev.objects)
    IN {defs[k[1]][k[2]] : k \in {r \in Reached(key, defs) : Known(r, defs)}}

DefinedServices(name, dev) == UNION {d.services : d \in Defined(<<"group", name>>, dev)}

DefinedEnds(end, dev) ==
    LET lines == Defined(<<end.kind, end.name>>, dev)
        foreign == {d.foreign : d \in lines} \ {{}}
    IN [kind : {"net"}, of : UNION {d.networks : d \in lines}, name : {"none"}]
         \cup [kind : {"fqdn"}, of : foreign, name : {"none"}]

Ends(end, dev) == IF end.kind \in {"group", "object"} THEN DefinedEnds(end, dev) ELSE {end}

Terms(term, dev) == IF term.op = "group"
                    THEN {s.port : s \in DefinedServices(term.name, dev)} ELSE {term}

Offers(ace, dev) ==
    IF ace.service.kind = "group"
    THEN {<<[kind |-> "proto", name |-> s.proto], s.port>> :
            s \in DefinedServices(ace.service.name, dev)}
    ELSE {ace.service} \X Terms(ace.dport, dev)

\* An entry without its groups: the indented elements the ASA prints under it.
Elements(ace, dev) ==
    {[ace EXCEPT !.service = v[1], !.src = s, !.sport = p, !.dst = d, !.dport = v[2]] :
       v \in Offers(ace, dev), s \in Ends(ace.src, dev), p \in Terms(ace.sport, dev),
       d \in Ends(ace.dst, dev)}

\* Numbers of entries without one: 10, 20, ... in the order they are printed.
Numbered(dev, i) ==
    IF dev.aces[i].line > 0 THEN dev.aces[i]
    ELSE [dev.aces[i] EXCEPT !.line = 10 * Cardinality({j \in 1..i : dev.aces[j].line = 0})]

\* The device's own expansion, where it prints one, or the entry.
Shown(dev, i) ==
    LET ace == Numbered(dev, i)
    IN IF dev.prints /\ HasGroup(ace) THEN Elements(ace, dev) ELSE {ace}

RulesOf(platform, ace, nth, defs) ==
    CASE platform = "cisco_asa" -> AsaRules(ace, nth, defs)
      [] platform = "cisco_ios" -> IosRules(ace, nth)
      [] platform = "arista_eos" -> EosRules(ace, nth)
      [] platform = "nokia_srl" -> SrlRules(ace, nth)

\* Mutant: the summary line is read beside the elements the device expanded.
ParsedEntrySummary(dev, i, defs) ==
    LET read(a) == RulesOf(dev.platform, a, i, defs)
    IN UNION {IF read(a) = {} THEN Unparsed(a, i) ELSE read(a) : a \in {Numbered(dev, i)}}

\* What is not understood is kept as an unparsed rule at its line.
ParsedEntry(dev, i, defs) ==
    LET read(a) == RulesOf(dev.platform, a, i, defs)
    IN UNION {IF read(a) = {} THEN Unparsed(a, i) ELSE read(a) : a \in Shown(dev, i)}

\* parse_show_access_list and parse_show_ip_access_lists.
ParsedPolicy(dev, defs) == UNION {ParsedEntry(dev, i, defs) : i \in DOMAIN dev.aces}

HasUnparsed(policy) == \E rule \in policy : rule.action = "unparsed"

-----------------------------------------------------------------------------
(* What the device does with a flow: the reference.  The client's port is  *)
(* an ephemeral one, above every port a rule names.                        *)

EndMeans(end, dev) ==
    CASE end.kind = "any" -> Addrs
      [] end.kind \in {"net", "wild", "fqdn", "keyword"} -> end.of
      [] end.kind \in {"group", "object"} -> UNION {e.of : e \in DefinedEnds(end, dev)}

ElementAdmits(ace, flow, dev) ==
    /\ ace.service.name \in {"ip", flow.proto}
    /\ ace.dport.op = "none" \/ flow.port \in ace.dport.of
    /\ ace.sport.op \in {"none", "over"}
    /\ flow.src \in EndMeans(ace.src, dev)
    /\ flow.dst \in EndMeans(ace.dst, dev)
    /\ ace.trailer \in {"none", "log"}

AceAdmits(ace, flow, dev) == \E a \in Elements(ace, dev) : ElementAdmits(a, flow, dev)

\* An entry of another kind (a reflexive list, say) lets pass what it matches.
DeviceVerdict(dev, flow) ==
    LET place(i) == <<Numbered(dev, i).line, i>>
        before(i, j) == \/ place(i)[1] < place(j)[1]
                        \/ place(i)[1] = place(j)[1] /\ i < j
        admits == {i \in DOMAIN dev.aces : AceAdmits(Numbered(dev, i), flow, dev)}
    IN IF admits = {} THEN "deny"
       ELSE LET first == CHOOSE i \in admits : \A j \in admits : ~before(j, i)
            IN IF dev.aces[first].action = "deny" THEN "deny" ELSE "permit"

\* The syntax each reader claims to understand: source ports, an operator over
\* ports, qualifiers, unknown service names, wildcards that are no prefix and
\* ranges on SR Linux are read as something else (see the README), as is a
\* service group in the place of the port while its definition is not known, one
\* of several protocols or with and without ports, and the name of a host on the
\* ASA.
IosLike(dev) == dev.platform \in {"cisco_ios", "arista_eos"}

KnownSyntax(dev, ace) ==
    /\ ace.sport.op \in {"none", "range", "over"}
    /\ ace.sport.op # "none" => IosLike(dev)
    /\ ace.trailer \in {"none", "log", "unknown"}
    /\ ace.trailer = "unknown" => dev.platform = "arista_eos"
    /\ dev.platform = "cisco_asa" => /\ ace.dport.op # "over"
                                     /\ "fqdn" \notin {ace.src.kind, ace.dst.kind}
    /\ IosLike(dev) => ace.dport.op # "service"
    /\ dev.platform = "cisco_ios" => "wild" \notin {ace.src.kind, ace.dst.kind}
    /\ dev.platform = "nokia_srl" => ace.dport.op \in {"none", "eq"}
    /\ ace.dport.op # "group"
    /\ ace.service.kind = "group" =>
          \A s1, s2 \in DefinedServices(ace.service.name, dev) :
             s1.proto = s2.proto /\ (s1.port.op = "none" <=> s2.port.op = "none")

\* A rule nobody can reason about is not above the one that matches.
Trusted(policy, flow) ==
    \A rule \in policy :
        rule.action = "unparsed" =>
            \E first \in FirstHits(policy, flow) : first.line < rule.line

-----------------------------------------------------------------------------
(* Address translation.  A translation has two operands; whether it leaves *)
(* the address as it is (static, both the same) is all of its kind that    *)
(* matters.  IOS is asked for the translations that are live now.          *)

NatRule == [identity : BOOLEAN, operands : SUBSET Endpoint]

\* A device as it is configured.
Configured(defs) == \E names \in SUBSET Names : defs \in [names -> Definition]

\* An operator has its ports; a group of services takes the place of both the
\* protocol and the port; SR Linux prints prefixes and protocols.
Operand(term) == /\ term.op \in {"eq", "service"} => \E p \in Ports : term.of = {p}
                 /\ term.op \in {"range", "over"} => term.of # {}

Grammatical(platform, ace) ==
    /\ Operand(ace.sport) /\ Operand(ace.dport)
    /\ ace.service.kind = "group" => ace.dport.op = "none"
    /\ platform = "nokia_srl" => /\ ace.service.kind = "proto"
                                 /\ {ace.src.kind, ace.dst.kind} \subseteq {"any", "net"}

IsDevice(dev) ==
    /\ dev.platform \in Platforms /\ dev.prints \in BOOLEAN
    /\ dev.aces \in Seq(Ace)
    /\ \A i \in DOMAIN dev.aces : Grammatical(dev.platform, dev.aces[i])
    /\ \A defs \in {dev.groups, dev.objects} :
          /\ Configured(defs)
          /\ \A name \in DOMAIN defs : \A s \in defs[name].services :
                Operand(s.port) /\ s.port.op # "group"
    /\ dev.nat \in SUBSET NatRule

\* A named object has one line (a host, a subnet, a range or an fqdn) and refers
\* to nothing else; parse_show_objects has no members.
OneLine(object) ==
    /\ object.members = {} /\ object.refs = {}
    /\ object.networks = {} \/ object.foreign = {}

\* _covers: operands are only looked up among the objects, whose names no group
\* can have.
Covers(end, addr, defs) ==
    LET expansion == Expand(<<"object", end.name>>, defs)
    IN CASE end.kind = "any" -> "yes"
         [] end.kind = "keyword" -> "no"
         [] end.kind \in {"group", "fqdn"} -> "unknown"
         [] end.kind = "object" /\ expansion.networks = {} -> "unknown"
         [] end.kind = "object" /\ expansion.networks # {} ->
               IF addr \in UNION expansion.networks THEN "yes" ELSE "no"
         [] OTHER -> IF addr \in end.of THEN "yes" ELSE "no"

\* assess_flow
Translates(rule, addrs, defs) ==
    /\ ~rule.identity
    /\ \E end \in rule.operands, addr \in addrs : Covers(end, addr, defs) = "yes"

Unresolved(rule, addrs, defs) ==
    /\ ~rule.identity /\ ~Translates(rule, addrs, defs)
    /\ \E end \in rule.operands, addr \in addrs : Covers(end, addr, defs) = "unknown"

Assessment(rules, addrs, defs) ==
    [translated |-> \E rule \in rules : Translates(rule, addrs, defs),
     unresolved |-> \E rule \in rules : Unresolved(rule, addrs, defs)]

=============================================================================
