------------------------ MODULE MCChangeSimulation ------------------------
EXTENDS ChangeSimulation

MCAddrs == {1, 2, 3}
MCPorts == {1, 2}

Rule(verb, proto, src, dst, port) ==
    [action |-> verb, proto |-> proto, src |-> src, dst |-> dst, port |-> port]

PermitHost == Rule("permit", "tcp", {1}, {2}, 1)
PermitWide == Rule("permit", "tcp", Addrs, {2}, 1)
PermitAll == Rule("permit", "ip", Addrs, Addrs, AnyPort)
DenyHost == Rule("deny", "tcp", {1}, {2}, 1)
DenyNet == Rule("deny", "ip", {1, 3}, {2}, AnyPort)
DenyOther == Rule("deny", "udp", {3}, {2}, 2)

At(line, body) == [rule |-> Placed(body, line, 0), reads |-> "rule"]
Unreadable(line, body) == [rule |-> Placed(body, line, 0), reads |-> "unparsed"]

Devices ==
    {{At(10, DenyNet)}, {At(10, DenyOther), At(20, DenyNet), At(30, PermitAll)},
     {At(10, DenyOther), Unreadable(15, DenyHost), At(20, DenyNet)},
     {At(20, DenyNet), At(30, PermitHost)}, {}}

MCInitial == Platforms \X Devices

MCProposals == [body : {PermitHost, PermitWide, DenyHost}, stated : {0, 5},
                position : {0, 10, 18}]
                 \cup [body : {PermitAll}, stated : {0}, position : {5}]

MCReversals == {[kind |-> "derived", body |-> NoBody], [kind |-> "rule", body |-> DenyHost],
                [kind |-> "removal", body |-> DenyNet]}

MCQueries == {[src |-> 1, dst |-> 2, port |-> 1, proto |-> "tcp"],
              [src |-> 3, dst |-> 2, port |-> 2, proto |-> "udp"]}

MCForeign == {At(7, DenyNet), At(30, PermitAll), At(4, PermitHost)}
=============================================================================
