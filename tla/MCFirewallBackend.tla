------------------------- MODULE MCFirewallBackend -------------------------
EXTENDS FirewallBackend, TLC

MCAddrs == {1, 2, 3}
MCPorts == {1, 2, 3}
MCNames == {"g", "h", "o"}

Anyone == [kind |-> "any", of |-> Addrs, name |-> "none"]
Net(set) == [kind |-> "net", of |-> set, name |-> "none"]
End(kind, set) == [kind |-> kind, of |-> set, name |-> "none"]
Named(kind, name) == [kind |-> kind, of |-> {}, name |-> name]
NoPort == [op |-> "none", of |-> {}, name |-> "none"]
Port(op, set) == [op |-> op, of |-> set, name |-> "none"]
PortGroup(name) == [op |-> "group", of |-> {}, name |-> name]
Proto(p) == [kind |-> "proto", name |-> p]

Entry(action, service, src, dst, dport) ==
    [line |-> 0, action |-> action, service |-> service, src |-> src, sport |-> NoPort,
     dst |-> dst, dport |-> dport, trailer |-> "none"]
Line(n, ace) == [ace EXCEPT !.line = n]

PermitAll == Entry("permit", Proto("ip"), Anyone, Anyone, NoPort)
DenyHost == Entry("deny", Proto("tcp"), Net({1}), Anyone, NoPort)
PermitWeb == Entry("permit", Proto("tcp"), Net({1}), Net({3}), Port("eq", {2}))
DenyRange == Entry("deny", Proto("tcp"), Net({1, 2}), Net({3}), Port("range", {1, 2}))
DenyWide == Entry("deny", Proto("tcp"), Anyone, Net({3}), Port("range", {1, 2, 3}))
DenyService == Entry("deny", Proto("udp"), Anyone, Anyone, Port("service", {3}))
DenyOver == Entry("deny", Proto("tcp"), Anyone, Anyone, Port("over", {2, 3}))
DenyName == Entry("deny", Proto("tcp"), End("fqdn", {2}), Anyone, NoPort)
DenyInterface == Entry("deny", Proto("ip"), Anyone, End("keyword", {3}), NoPort)
DenyWild == Entry("deny", Proto("tcp"), End("wild", {1, 3}), Anyone, NoPort)
DenyGroup == Entry("deny", Proto("tcp"), Named("group", "g"), Anyone, NoPort)
DenyObject == Entry("deny", Proto("tcp"), Anyone, Named("object", "o"), NoPort)
DenyPorts == Entry("deny", Proto("tcp"), Anyone, Net({3}), PortGroup("g"))
DenyServices == Entry("deny", [kind |-> "group", name |-> "g"], Anyone, Anyone, NoPort)
Other == Entry("other", Proto("tcp"), Net({2}), Anyone, NoPort)
FromPorts == [DenyHost EXCEPT !.sport = Port("range", {1, 2})]
Tagged == [DenyHost EXCEPT !.trailer = "unknown"]

Group(kind, networks, foreign, services, members, refs) ==
    [kind |-> kind, networks |-> networks, foreign |-> foreign, services |-> services,
     members |-> members, refs |-> refs]
Hosts(set) == Group("network", set, {}, {}, {}, {})
Nested == [g |-> Group("network", {{1}}, {}, {}, {"h"}, {"o"}), h |-> Hosts({{2}})]
Twice == [g |-> Group("network", {{1}}, {}, {}, {"h"}, {"o"}),
          h |-> Group("network", {}, {}, {}, {}, {"o"})]
Foreign == [g |-> Group("network", {{1}}, {2}, {}, {}, {})]
Served == [g |-> Group("service", {}, {}, {[proto |-> "tcp", port |-> Port("eq", {1})],
                                           [proto |-> "tcp", port |-> Port("eq", {2})]}, {}, {})]
Unserved == [g |-> Group("service", {}, {}, {[proto |-> "tcp", port |-> Port("eq", {1})],
                                             [proto |-> "tcp", port |-> Port("over", {3})]}, {}, {})]
Plain == [g |-> Hosts({{1}, {2}})]
NoGroups == [n \in {} |-> Hosts({})]
Objects == [o |-> Hosts({{3}})]
ForeignObjects == [o |-> Group("network", {}, {3}, {}, {}, {})]

Dev(platform, prints, aces, groups, objects, translations) ==
    [platform |-> platform, prints |-> prints, aces |-> aces, groups |-> groups,
     objects |-> objects, nat |-> translations]
Asa(prints, aces, groups) == Dev("cisco_asa", prints, aces, groups, Objects, {})

NatOf(operands) == [identity |-> FALSE, operands |-> operands]
Translated(translations, objects) ==
    Dev("cisco_asa", FALSE, <<Line(1, PermitAll)>>, NoGroups, objects, translations)

\* A deny of each syntax above a permit of everything.
Above(ace) == <<Line(1, ace), Line(2, PermitAll)>>

AsaCases ==
    {Asa(FALSE, Above(ace), NoGroups) :
        ace \in {DenyHost, DenyRange, DenyWide, DenyService, DenyInterface, DenyObject}}
    \cup {Asa(prints, Above(DenyGroup), groups) :
            prints \in BOOLEAN, groups \in {Plain, Nested, Twice, Foreign}}
    \cup {Asa(prints, Above(ace), groups) :
            prints \in BOOLEAN, ace \in {DenyPorts, DenyServices}, groups \in {Served, Unserved}}
    \cup {Translated(t, objects) :
            t \in {{NatOf({Net({1}), End("keyword", {2})})}, {NatOf({Net({2}), Named("object", "o")})},
                   {NatOf({Named("group", "g")})}, {[identity |-> TRUE, operands |-> {Net({1})}]}},
            objects \in {Objects, ForeignObjects}}

\* Without numbers, or with the numbers the device gave them.
OtherCases ==
    {Dev(platform, FALSE, aces, NoGroups, NoGroups, {}) :
        platform \in {"cisco_ios", "arista_eos"},
        aces \in {<<ace, PermitAll>> : ace \in {DenyHost, DenyOver, Other, FromPorts, DenyRange, DenyName,
                                                DenyWild}}
                 \cup {<<Line(20, PermitAll), Line(10, PermitWeb), Line(15, DenyHost)>>}}
    \cup {Dev("arista_eos", FALSE, <<Tagged, PermitAll>>, NoGroups, NoGroups, {}),
          Dev("nokia_srl", FALSE, Above(DenyHost), NoGroups, NoGroups, {}),
          Dev("nokia_srl", FALSE, <<Line(10, PermitAll), Line(20, PermitWeb)>>,
              NoGroups, NoGroups, {}),
          Dev("cisco_ios", FALSE, <<PermitAll>>, NoGroups, NoGroups, {NatOf({Net({1})})})}

MCDevices == AsaCases \cup OtherCases

\* One operator's change of each kind: an entry, a group, an object, a translation.
MCRewrites ==
    {<<Asa(FALSE, Above(DenyHost), NoGroups), Asa(FALSE, Above(DenyRange), NoGroups)>>,
     <<Asa(FALSE, Above(DenyGroup), Plain), Asa(FALSE, Above(DenyGroup), Nested)>>,
     <<Asa(FALSE, Above(DenyServices), Served), Asa(FALSE, Above(DenyServices), Unserved)>>,
     <<Translated({[identity |-> TRUE, operands |-> {Net({1})}]}, Objects),
       Translated({NatOf({Net({2}), Named("object", "o")})}, Objects)>>}

MCQueried == {1, 3}
Same == Permutations(Threads)
=============================================================================
