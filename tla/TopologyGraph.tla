--------------------------- MODULE TopologyGraph ---------------------------
(***************************************************************************)
(* The inventory graph in Neo4j: processes that start on it (ensure_seed   *)
(* of app/store/neo4j_store.py), replace it from NetBox at their start and *)
(* every interval after (run_netbox_ingest, _topology_ingest_loop), and    *)
(* ask it (the supervisor's tools).                                        *)
(*                                                                         *)
(* The graph is a set of facts.  Every statement commits by itself, so     *)
(* that it is one step; MATCH finds nothing where a fact is missing, and   *)
(* the statement then adds nothing.  NetBox is the history of its          *)
(* inventories; a page of devices and the pages of interfaces after it may *)
(* be of different times.  What an ingest leaves out (unnamed devices,     *)
(* cables that cannot be traced) is not in an inventory here.              *)
(***************************************************************************)
EXTENDS Integers, Sequences, FiniteSets

CONSTANTS
    Processes,    \* the API and the worker, which share a lifespan
    Names,        \* of devices
    Zones,
    Lab,          \* the seed, an inventory
    Inventories,  \* NetBox may start with
    Moves,        \* pairs of inventories: one change in NetBox
    MaxChanges, MaxFaults   \* bounds

\* A cable is the set of the devices at its ends; each end is an interface.
\* zone is "none" where none is recorded.
Cable == {{a, b} : a, b \in Names}
Inventory == [devices : SUBSET Names, zone : [Names -> Zones \cup {"none"}], cables : SUBSET Cable]

ASSUME TopologyAssumption ==
    /\ IsFiniteSet(Names) /\ "none" \notin Zones
    /\ MaxChanges \in Nat /\ MaxFaults \in Nat
    /\ Lab \in Inventory /\ \A c \in Lab.cables : c \subseteq Lab.devices
    /\ Inventories \subseteq Inventory
    /\ \A pair \in Moves : {pair[1], pair[2]} \subseteq Inventory
    /\ \A inv \in Inventories : inv.devices \cap Lab.devices = {}

VARIABLES
    history,   \* of NetBox's inventories
    graph,
    process,
    torn,      \* the graph was written by two at a time since it was last emptied
    faults     \* failures and crashes so far

vars == <<history, graph, process, torn, faults>>

Now == Len(history)

-----------------------------------------------------------------------------
(* What is written, and in which order: build_topology, to_cypher and the  *)
(* seed's file.                                                            *)

Ends(inv) == {end \in inv.devices \X inv.cables : end[1] \in end[2]}

\* The devices of one reading with the cables of a later one: an interface of
\* a device that was not listed is skipped, and so is a cable that ends there.
Built(listed, wired) ==
    [devices |-> listed.devices, zone |-> listed.zone,
     cables |-> {c \in wired.cables : c \subseteq listed.devices}]

\* Each statement is named by the fact it is to add: the zones, each device with
\* its zone, each interface with its device, and the cables, both ways at once.
Zoned(inv) == {d \in inv.devices : inv.zone[d] # "none"}
ZoneFacts(inv) == {<<"zone", inv.zone[d]>> : d \in Zoned(inv)}
DeviceFacts(inv) == {<<"device", d>> : d \in inv.devices}
                    \cup {<<"zoned", d, inv.zone[d]>> : d \in Zoned(inv)}
EndFacts(inv) == {<<"interface", end>> : end \in Ends(inv)}
                 \cup {<<"has", end>> : end \in Ends(inv)}
CableFacts(inv) == {<<"cable", c>> : c \in inv.cables}

\* All there is of an inventory once it is written.
Facts(inv) == ZoneFacts(inv) \cup DeviceFacts(inv) \cup EndFacts(inv) \cup CableFacts(inv)

Section(fact) ==
    CASE fact[1] = "zone" -> 1
      [] fact[1] = "device" -> 2
      [] fact[1] = "zoned" -> 3
      [] fact[1] = "interface" -> 4
      [] fact[1] = "has" -> 5
      [] OTHER -> 6

\* seed.cypher is written section by section.
First(todo) == {fact \in todo : \A other \in todo : Section(fact) <= Section(other)}

\* to_cypher lists zones, devices, interfaces and cables, in NetBox's order, and
\* right after a device or an interface what ties it to its zone or its device.
Tied(todo) ==
    {fact \in todo : \/ fact[1] = "zoned" /\ <<"device", fact[2]>> \notin todo
                     \/ fact[1] = "has" /\ <<"interface", fact[2]>> \notin todo}
Cypher(todo) == IF Tied(todo) = {} THEN First(todo) ELSE Tied(todo)

\* What a MATCH looks for.
Needs(fact) ==
    CASE fact[1] = "zoned" -> {<<"device", fact[2]>>, <<"zone", fact[3]>>}
      [] fact[1] = "has" -> {<<"device", fact[2][1]>>, <<"interface", fact[2]>>}
      [] fact[1] = "cable" -> {<<"interface", <<d, fact[2]>>>> : d \in fact[2]}
      [] OTHER -> {}

Written(facts, fact) == IF Needs(fact) \subseteq facts THEN facts \cup {fact} ELSE facts

Metas(facts) == {fact \in facts : fact[1] = "meta"}
Inside(facts) == facts \ Metas(facts)

-----------------------------------------------------------------------------
(* The processes.                                                          *)

Down == [at |-> "down", todo |-> {}, of |-> 0, wired |-> 0]

Init ==
    /\ \E inv \in Inventories : history = <<inv>>
    /\ graph = {}
    /\ process = [p \in Processes |-> Down]
    /\ torn = FALSE
    /\ faults = 0

Becomes(p, r) == process' = [process EXCEPT ![p] = r]
Writing(p) == process[p].at \in {"seed", "write"}
Others(p) == \E q \in Processes \ {p} : Writing(q)

\* An inventory changes while anything goes on.
Change ==
    /\ Now <= MaxChanges
    /\ \E pair \in Moves : pair[1] = history[Now] /\ history' = Append(history, pair[2])
    /\ UNCHANGED <<graph, process, torn, faults>>

Start(p) ==
    /\ process[p].at = "down"
    /\ Becomes(p, [Down EXCEPT !.at = "check"])
    /\ UNCHANGED <<history, graph, torn, faults>>

\* ensure_seed keeps a graph with metadata, with a device of NetBox or with as
\* many cables as the seed has.
Kept == \/ Metas(graph) # {}
        \/ \E d \in Names \ Lab.devices : <<"device", d>> \in graph
        \/ Cardinality({fact \in graph : fact[1] = "cable"}) >= Cardinality(Lab.cables)

Check(p) ==
    /\ process[p].at = "check"
    /\ Becomes(p, [process[p] EXCEPT !.at = IF Kept THEN "devices" ELSE "wipe"])
    /\ UNCHANGED <<history, graph, torn, faults>>

Emptied(p) == graph' = {} /\ torn' = Others(p)

Wipe(p) ==
    /\ process[p].at = "wipe"
    /\ Emptied(p)
    /\ Becomes(p, [process[p] EXCEPT !.at = "seed", !.todo = Facts(Lab)])
    /\ UNCHANGED <<history, faults>>

Statement(p) ==
    /\ Writing(p)
    /\ \E fact \in IF process[p].at = "seed" THEN First(process[p].todo)
                                             ELSE Cypher(process[p].todo) :
          /\ graph' = Written(graph, fact)
          /\ Becomes(p, [process[p] EXCEPT !.todo = @ \ {fact}])
    /\ UNCHANGED <<history, torn, faults>>

\* Mutant: the devices NetBox had at first are read ever after.
ReadDevicesOnce(p) ==
    /\ \/ process[p].at = "devices"
       \/ process[p].at = "seed" /\ process[p].todo = {}
    /\ Becomes(p, [process[p] EXCEPT !.at = "interfaces", !.of = 1])
    /\ UNCHANGED <<history, graph, torn, faults>>

ReadDevices(p) ==
    /\ \/ process[p].at = "devices"
       \/ process[p].at = "seed" /\ process[p].todo = {}
    /\ Becomes(p, [process[p] EXCEPT !.at = "interfaces", !.of = Now])
    /\ UNCHANGED <<history, graph, torn, faults>>

ReadInterfaces(p) ==
    /\ process[p].at = "interfaces"
    /\ Becomes(p, [process[p] EXCEPT !.at = "replace", !.wired = Now])
    /\ UNCHANGED <<history, graph, torn, faults>>

Rebuilding(p) ==
    Becomes(p, [process[p] EXCEPT !.at = "write",
                   !.todo = Facts(Built(history[process[p].of], history[process[p].wired]))])

\* Mutant: the inventory is merged into the graph there is.
ReplaceNothing(p) ==
    /\ process[p].at = "replace"
    /\ torn' = Others(p) /\ UNCHANGED graph
    /\ Rebuilding(p)
    /\ UNCHANGED <<history, faults>>

Replace(p) ==
    /\ process[p].at = "replace"
    /\ Emptied(p)
    /\ Rebuilding(p)
    /\ UNCHANGED <<history, faults>>

Meta(p) == <<"meta", process[p].of, process[p].wired>>

\* Mutant: the metadata is written when the writing begins.
WriteMetaEarly(p) ==
    /\ process[p].at = "write" /\ Cardinality(process[p].todo) <= 1
    /\ graph' = Inside(graph) \cup {Meta(p)}
    /\ Becomes(p, [process[p] EXCEPT !.at = "idle", !.todo = {}, !.of = 0, !.wired = 0])
    /\ UNCHANGED <<history, torn, faults>>

WriteMeta(p) ==
    /\ process[p].at = "write" /\ process[p].todo = {}
    /\ graph' = Inside(graph) \cup {Meta(p)}
    /\ Becomes(p, [process[p] EXCEPT !.at = "idle", !.of = 0, !.wired = 0])
    /\ UNCHANGED <<history, torn, faults>>

\* The interval is over.
Wake(p) ==
    /\ process[p].at = "idle"
    /\ Becomes(p, [process[p] EXCEPT !.at = "devices"])
    /\ UNCHANGED <<history, graph, torn, faults>>

MayFail == faults < MaxFaults /\ faults' = faults + 1

Ingesting(p) == process[p].at \in {"devices", "interfaces", "replace", "write"}

\* NetBox or Neo4j fails: the ingest is given up where it is, until the next.
Fail(p) ==
    /\ Ingesting(p) /\ MayFail
    /\ Becomes(p, [process[p] EXCEPT !.at = "idle", !.todo = {}, !.of = 0, !.wired = 0])
    /\ UNCHANGED <<history, graph, torn>>

\* Without Neo4j a strict process does not start.
FailSeed(p) ==
    /\ process[p].at \in {"check", "wipe", "seed"} /\ MayFail
    /\ Becomes(p, Down)
    /\ UNCHANGED <<history, graph, torn>>

Crash(p) ==
    /\ process[p].at # "down" /\ MayFail
    /\ Becomes(p, Down)
    /\ UNCHANGED <<history, graph, torn>>

Step(p) ==
    \/ Start(p) \/ Check(p) \/ Wipe(p) \/ Statement(p)
    \/ ReadDevices(p) \/ ReadInterfaces(p) \/ Replace(p) \/ WriteMeta(p) \/ Wake(p)

Next ==
    \/ Change
    \/ \E p \in Processes : Step(p) \/ Fail(p) \/ FailSeed(p) \/ Crash(p)

Spec == Init /\ [][Next]_vars

\* Processes are started again and the loop goes on.
FairSpec == Spec /\ \A p \in Processes : WF_vars(Step(p))

-----------------------------------------------------------------------------
(* What the graph is asked.  Every question is one query.                  *)

\* known_devices
KnownDevices(facts) == {d \in Names : <<"device", d>> \in facts}

Linked(facts, a, b) ==
    <<"cable", {a, b}>> \in facts /\ \A d \in {a, b} : <<"has", <<d, {a, b}>>>> \in facts

\* The ways between two devices, of at most fifteen relations, three for each
\* cable.
Paths(facts, a, b) ==
    LET known == KnownDevices(facts) IN
    {path \in UNION {[1..n -> known] : n \in 2..Cardinality(known)} :
        /\ path[1] = a /\ path[Len(path)] = b /\ Len(path) <= 6
        /\ \A i, j \in DOMAIN path : path[i] = path[j] => i = j
        /\ \A i \in 1..(Len(path) - 1) : Linked(facts, path[i], path[i + 1])}

\* path_trace: a shortest path.
PathTrace(facts, a, b) ==
    LET paths == Paths(facts, a, b) IN
    {path \in paths : \A other \in paths : Len(path) <= Len(other)}

ZonesOf(facts, d) == {z \in Zones : <<"zoned", d, z>> \in facts}

\* security_boundary: the two zones, where both are recorded.
SecurityBoundary(facts, a, b) == ZonesOf(facts, a) \X ZonesOf(facts, b)

\* blast_radius: the neighbours with their zones.
BlastRadius(facts, d) ==
    {<<other, ZonesOf(facts, other)>> :
        other \in {x \in KnownDevices(facts) \ {d} : Linked(facts, d, x)}}

-----------------------------------------------------------------------------
(* Properties.                                                             *)

Reading(i, j) == Built(history[i], history[j])
Readings == {Reading(i, j) : i, j \in 1..Now}

\* Metadata is only ever found beside the whole of what one ingest read, and
\* nothing else, whatever failed or crashed on the way, unless two wrote at a
\* time (run_netbox_ingest writes it last, and empties the graph first).
MetaMeansComplete ==
    (~torn /\ ~\E p \in Processes : Writing(p)) =>
        \A meta \in Metas(graph) : Inside(graph) = Facts(Reading(meta[2], meta[3]))

\* While a graph is being replaced it may say less than the inventory, and never
\* anything else: each path and each pair of zones the supervisor can be told is
\* one of a single reading of NetBox, or of the lab (path_trace,
\* security_boundary, blast_radius during an ingest).
SaysLess(facts, real) ==
    /\ \A a, b \in KnownDevices(facts) :
          /\ PathTrace(facts, a, b) \subseteq Paths(real, a, b)
          /\ SecurityBoundary(facts, a, b) \subseteq SecurityBoundary(real, a, b)
    /\ \A d \in KnownDevices(facts) : \A found \in BlastRadius(facts, d) :
          \E other \in BlastRadius(real, d) : found[1] = other[1] /\ found[2] \subseteq other[2]

AnswersAreReal == ~torn => \E inv \in Readings \cup {Lab} : SaysLess(graph, Facts(inv))

\* However ingests fail and processes crash, the graph is again and again that
\* of NetBox as it is, unless two processes write over each other for ever (the
\* loop survives every exception).
GraphHeals ==
    \/ []<>(Inside(graph) = Facts(history[Now]) /\ Metas(graph) # {})
    \/ []<>torn

-----------------------------------------------------------------------------
(* Strengthenings the proofs need (TopologyGraphProofs).                   *)

Fact ==
    ({"zone"} \X Zones) \cup ({"device"} \X Names) \cup ({"zoned"} \X Names \X Zones)
    \cup ({"interface", "has"} \X (Names \X Cable)) \cup ({"cable"} \X Cable)

Stages == {"down", "check", "wipe", "seed", "devices", "interfaces", "replace", "write", "idle"}

TypeOK ==
    /\ history \in Seq(Inventory) /\ Now > 0
    /\ graph \subseteq Fact \cup ({"meta"} \X (1..Now) \X (1..Now))
    /\ process \in [Processes -> [at : Stages, todo : SUBSET Fact, of : 0..Now, wired : 0..Now]]
    /\ \A p \in Processes :
          /\ process[p].at \in {"interfaces", "replace", "write"} => process[p].of # 0
          /\ process[p].at \in {"replace", "write"} => process[p].wired # 0
    /\ torn \in BOOLEAN
    /\ faults \in Nat

\* The inventory a process is writing.
Target(p) ==
    IF process[p].at = "seed" THEN Lab ELSE Reading(process[p].of, process[p].wired)

\* Nothing of a section is written before the sections it depends on.
InOrder(todo, facts) ==
    \A fact \in facts \ todo, other \in todo :
        fact[1] \in {"device", "interface"} => \/ other[1] \in {"zoned", "has"}
                                               \/ Section(fact) <= Section(other)

OneWriter ==
    ~torn => \A p, q \in Processes : Writing(p) /\ Writing(q) => p = q

\* What is in the graph and what is still to be written are together the target.
WriterOnItsWay ==
    ~torn => \A p \in Processes : Writing(p) =>
        /\ process[p].todo \subseteq Facts(Target(p))
        /\ graph = Facts(Target(p)) \ process[p].todo
        /\ InOrder(process[p].todo, Facts(Target(p)))

OfOneReading == ~torn => \E inv \in Readings \cup {Lab} : Inside(graph) \subseteq Facts(inv)

GraphInv ==
    /\ TypeOK
    /\ OneWriter
    /\ WriterOnItsWay
    /\ OfOneReading
    /\ MetaMeansComplete
=============================================================================
