------------------------- MODULE TopologyGraphProofs -------------------------
(* What TopologyGraph guarantees for any inventories, any number of        *)
(* processes, changes and faults.                                          *)
EXTENDS TopologyGraph, FiniteSetTheorems, TLAPS

-----------------------------------------------------------------------------
(* The statements and their order.                                         *)

\* What each kind of statement looks for, and its place in the order.
LEMMA Kinds ==
    /\ \A z : /\ Needs(<<"zone", z>>) = {}
              /\ Section(<<"zone", z>>) = 1
    /\ \A d : /\ Needs(<<"device", d>>) = {}
              /\ Section(<<"device", d>>) = 2
    /\ \A d, z : /\ Needs(<<"zoned", d, z>>) = {<<"device", d>>, <<"zone", z>>}
                 /\ Section(<<"zoned", d, z>>) = 3
    /\ \A end : /\ Needs(<<"interface", end>>) = {}
                /\ Section(<<"interface", end>>) = 4
    /\ \A end : /\ Needs(<<"has", end>>) = {<<"device", end[1]>>, <<"interface", end>>}
                /\ Section(<<"has", end>>) = 5
    /\ \A c : /\ Needs(<<"cable", c>>) = {<<"interface", <<d, c>>>> : d \in c}
              /\ Section(<<"cable", c>>) = 6
  BY DEF Needs, Section

\* The facts of an inventory, one kind after the other.
LEMMA FactForms ==
    ASSUME NEW inv, NEW fact
    PROVE  fact \in Facts(inv) <=>
              \/ \E d \in Zoned(inv) : fact = <<"zone", inv.zone[d]>>
              \/ \E d \in inv.devices : fact = <<"device", d>>
              \/ \E d \in Zoned(inv) : fact = <<"zoned", d, inv.zone[d]>>
              \/ \E end \in Ends(inv) : fact = <<"interface", end>>
              \/ \E end \in Ends(inv) : fact = <<"has", end>>
              \/ \E c \in inv.cables : fact = <<"cable", c>>
  BY DEF Facts, ZoneFacts, DeviceFacts, EndFacts, CableFacts

\* An inventory whose cables end at devices it lists.
Sound(inv) == inv \in Inventory /\ \A c \in inv.cables : c \subseteq inv.devices

\* What is built of two readings is an inventory, and its cables end at devices.
LEMMA BuiltSound ==
    ASSUME NEW listed \in Inventory, NEW wired \in Inventory
    PROVE  Sound(Built(listed, wired))
  BY DEF Sound, Built, Inventory

\* The lab's cables end at its devices.
LEMMA LabSound == Sound(Lab)
  BY TopologyAssumption DEF Sound

\* The statements of an inventory are facts, and none is metadata.
LEMMA FactsAreFacts ==
    ASSUME NEW inv \in Inventory
    PROVE  Facts(inv) \subseteq Fact
<1> SUFFICES ASSUME NEW fact \in Facts(inv) PROVE fact \in Fact
  OBVIOUS
<1>1. /\ inv.devices \subseteq Names /\ inv.cables \subseteq Cable
      /\ \A d \in Names : inv.zone[d] \in Zones \cup {"none"}
  BY DEF Inventory
<1>2. /\ \A d \in Zoned(inv) : d \in Names /\ inv.zone[d] \in Zones
      /\ \A end \in Ends(inv) : end \in Names \X Cable
  BY <1>1 DEF Zoned, Ends
<1> QED
  BY <1>1, <1>2, FactForms DEF Fact

\* No statement adds metadata.
LEMMA NoMetaInFacts == \A fact \in Fact : fact[1] # "meta"
  BY DEF Fact

\* Everything a statement looks for is a statement of the same inventory.
LEMMA NeedsAreListed ==
    ASSUME NEW inv, Sound(inv), NEW fact \in Facts(inv)
    PROVE  Needs(fact) \subseteq Facts(inv)
<1>1. /\ \A d \in Zoned(inv) : d \in inv.devices
      /\ \A end \in Ends(inv) : end[1] \in inv.devices
      /\ \A c \in inv.cables, d \in inv.devices : d \in c => <<d, c>> \in Ends(inv)
  BY DEF Zoned, Ends
<1>2. \A c \in inv.cables : c \subseteq inv.devices
  BY DEF Sound
<1> SUFFICES ASSUME NEW need \in Needs(fact) PROVE need \in Facts(inv)
  OBVIOUS
<1>3. CASE \E d \in Zoned(inv) : fact = <<"zone", inv.zone[d]>>
  BY <1>3, Kinds
<1>4. CASE \E d \in inv.devices : fact = <<"device", d>>
  BY <1>4, Kinds
<1>5. CASE \E d \in Zoned(inv) : fact = <<"zoned", d, inv.zone[d]>>
  BY <1>1, <1>5, Kinds, FactForms
<1>6. CASE \E end \in Ends(inv) : fact = <<"interface", end>>
  BY <1>6, Kinds
<1>7. CASE \E end \in Ends(inv) : fact = <<"has", end>>
  BY <1>1, <1>7, Kinds, FactForms
<1>8. CASE \E c \in inv.cables : fact = <<"cable", c>>
  BY <1>1, <1>2, <1>8, Kinds, FactForms
<1> QED
  BY <1>3, <1>4, <1>5, <1>6, <1>7, <1>8, FactForms

\* Both the seed's file and to_cypher are in dependency order: when a statement's
\* turn comes, what it looks for has been written.
LEMMA TurnIsReady ==
    ASSUME NEW inv, Sound(inv), NEW todo \in SUBSET Facts(inv), InOrder(todo, Facts(inv)),
           NEW fact \in First(todo) \cup Cypher(todo)
    PROVE  fact \in todo /\ Needs(fact) \cap todo = {}
<1>1. fact \in todo /\ fact \in First(todo) \cup Tied(todo)
  BY DEF First, Cypher, Tied
<1>2. /\ Needs(fact) \subseteq Facts(inv)
      /\ \A need \in Needs(fact) : Section(need) \in Nat /\ Section(fact) \in Nat
                                   /\ Section(need) < Section(fact)
  BY <1>1, NeedsAreListed, Kinds, FactForms
<1>3. CASE fact \in First(todo)
  BY <1>1, <1>2, <1>3 DEF First
<1>4. CASE fact \in Tied(todo)
  <2>1. CASE fact[1] = "zoned" /\ <<"device", fact[2]>> \notin todo
    <3>1. PICK d \in Zoned(inv) : fact = <<"zoned", d, inv.zone[d]>>
      BY <1>1, <2>1, FactForms
    <3>2. <<"device", d>> \in Facts(inv) \ todo
      BY <1>2, <2>1, <3>1, Kinds
    <3>3. <<"zone", inv.zone[d]>> \notin todo
      BY <3>2, Kinds DEF InOrder
    <3> QED
      BY <1>1, <3>1, <3>2, <3>3, Kinds
  <2>2. CASE fact[1] = "has" /\ <<"interface", fact[2]>> \notin todo
    <3>1. PICK end \in Ends(inv) : fact = <<"has", end>>
      BY <1>1, <2>2, FactForms
    <3>2. <<"interface", end>> \in Facts(inv) \ todo
      BY <1>2, <2>2, <3>1, Kinds
    <3>3. <<"device", end[1]>> \notin todo
      BY <3>2, Kinds DEF InOrder
    <3> QED
      BY <1>1, <3>1, <3>2, <3>3, Kinds
  <2> QED
    BY <1>4, <2>1, <2>2 DEF Tied
<1> QED
  BY <1>1, <1>3, <1>4

\* The order goes on.
LEMMA OrderKept ==
    ASSUME NEW facts, NEW todo, InOrder(todo, facts), NEW fact \in First(todo) \cup Cypher(todo)
    PROVE  InOrder(todo \ {fact}, facts)
<1>1. CASE fact \in First(todo)
  BY <1>1 DEF InOrder, First
<1>2. CASE fact \in Tied(todo)
  BY <1>2 DEF InOrder, Tied
<1> QED
  BY <1>1, <1>2 DEF Cypher

-----------------------------------------------------------------------------
(* What the graph is asked: with fewer facts it says less.                 *)

\* The questions look for facts, never for metadata.
LEMMA FactsFound ==
    ASSUME NEW facts, NEW real, Inside(facts) \subseteq real
    PROVE  /\ KnownDevices(facts) \subseteq KnownDevices(real)
           /\ \A a, b : Linked(facts, a, b) => Linked(real, a, b)
           /\ \A d : ZonesOf(facts, d) \subseteq ZonesOf(real, d)
<1>1. \A fact \in facts : fact[1] # "meta" => fact \in real
  BY DEF Inside, Metas
<1> QED
  BY <1>1 DEF KnownDevices, Linked, ZonesOf

\* A way through fewer devices and cables is a way.
LEMMA PathsFound ==
    ASSUME NEW facts, NEW real, Inside(facts) \subseteq real, NEW a, NEW b
    PROVE  Paths(facts, a, b) \subseteq Paths(real, a, b)
<1> DEFINE known == KnownDevices(facts)
           all == KnownDevices(real)
<1>1. /\ known \subseteq all /\ IsFiniteSet(all)
      /\ Cardinality(known) \in Nat /\ Cardinality(all) \in Nat
      /\ Cardinality(known) <= Cardinality(all)
  <2>1. known \subseteq all /\ all \subseteq Names
    BY FactsFound DEF KnownDevices
  <2>2. IsFiniteSet(all)
    BY <2>1, FS_Subset, TopologyAssumption
  <2> QED
    BY <2>1, <2>2, FS_Subset, FS_CardinalityType
<1> SUFFICES ASSUME NEW path \in Paths(facts, a, b) PROVE path \in Paths(real, a, b)
  OBVIOUS
<1>2. PICK n \in 2..Cardinality(known) : path \in [1..n -> known]
  BY DEF Paths
<1>3. n \in 2..Cardinality(all) /\ path \in [1..n -> all]
  BY <1>1, <1>2
<1>4. \A i \in 1..(Len(path) - 1) : Linked(real, path[i], path[i + 1])
  BY FactsFound DEF Paths
<1> QED
  BY <1>3, <1>4 DEF Paths

\* A graph that holds some of the facts says less than one that holds them all.
LEMMA FewerFactsSayLess ==
    ASSUME NEW facts, NEW real, Inside(facts) \subseteq real
    PROVE  SaysLess(facts, real)
<1>1. ASSUME NEW a, NEW b
      PROVE  /\ PathTrace(facts, a, b) \subseteq Paths(real, a, b)
             /\ SecurityBoundary(facts, a, b) \subseteq SecurityBoundary(real, a, b)
  <2>1. PathTrace(facts, a, b) \subseteq Paths(facts, a, b)
    BY DEF PathTrace
  <2>2. Paths(facts, a, b) \subseteq Paths(real, a, b)
    BY PathsFound
  <2>3. SecurityBoundary(facts, a, b) \subseteq SecurityBoundary(real, a, b)
    BY FactsFound DEF SecurityBoundary
  <2> QED
    BY <2>1, <2>2, <2>3
<1>2. ASSUME NEW d, NEW found \in BlastRadius(facts, d)
      PROVE  \E other \in BlastRadius(real, d) : found[1] = other[1] /\ found[2] \subseteq other[2]
  <2>1. PICK x \in KnownDevices(facts) \ {d} :
           Linked(facts, d, x) /\ found = <<x, ZonesOf(facts, x)>>
    BY <1>2 DEF BlastRadius
  <2>2. <<x, ZonesOf(real, x)>> \in BlastRadius(real, d)
    BY <2>1, FactsFound DEF BlastRadius
  <2> QED
    BY <2>1, <2>2, FactsFound
<1> QED
  BY <1>1, <1>2 DEF SaysLess

-----------------------------------------------------------------------------
(* The invariant.                                                          *)

\* What the types say of the readings.
LEMMA ReadingsSound ==
    ASSUME TypeOK
    PROVE  /\ Now \in Nat /\ 1 \in 1..Now
           /\ \A i \in 1..Now : history[i] \in Inventory
           /\ \A i, j \in 1..Now : Sound(Reading(i, j)) /\ Reading(i, j) \in Readings
<1>1. Now \in Nat /\ 1 \in 1..Now /\ \A i \in 1..Now : history[i] \in Inventory
  BY DEF TypeOK, Now
<1>2. \A i, j \in 1..Now : Sound(Reading(i, j)) /\ Reading(i, j) \in Readings
  BY <1>1, BuiltSound DEF Reading, Readings
<1> QED
  BY <1>1, <1>2

\* A change in NetBox: what was read stays what it was.
LEMMA ChangeKeeps ==
    ASSUME GraphInv, Change
    PROVE  GraphInv'
<1>0. /\ TypeOK /\ Now \in Nat
      /\ UNCHANGED <<graph, process, torn, faults>>
  BY ReadingsSound DEF GraphInv, Change
<1>1. PICK pair \in Moves : history' = Append(history, pair[2])
  BY DEF Change
<1>2. pair[2] \in Inventory
  BY TopologyAssumption
<1>3. /\ history' \in Seq(Inventory) /\ Now' = Now + 1
      /\ \A i \in 1..Now : history'[i] = history[i]
  BY <1>0, <1>1, <1>2 DEF TypeOK, Now
<1>4. /\ \A i, j \in 1..Now : Reading(i, j)' = Reading(i, j)
      /\ 1..Now \subseteq 1..Now' /\ 0..Now \subseteq 0..Now'
      /\ Readings \subseteq Readings'
  <2>1. \A i, j \in 1..Now : Reading(i, j)' = Reading(i, j)
    BY <1>3 DEF Reading
  <2>2. 1..Now \subseteq 1..Now' /\ 0..Now \subseteq 0..Now'
    BY <1>0, <1>3
  <2> QED
    BY <2>1, <2>2 DEF Readings
<1>5. TypeOK'
  <2>1. ({"meta"} \X (1..Now) \X (1..Now)) \subseteq ({"meta"} \X (1..Now') \X (1..Now'))
    BY <1>4
  <2>2. process' \in [Processes -> [at : Stages, todo : SUBSET Fact, of : 0..Now', wired : 0..Now']]
    BY <1>0, <1>4 DEF TypeOK
  <2> QED
    BY <1>0, <1>3, <2>1, <2>2 DEF TypeOK
<1>6. OneWriter'
  BY <1>0 DEF GraphInv, OneWriter, Writing
<1>7. WriterOnItsWay'
  <2>1. \A p \in Processes : Writing(p) => Target(p)' = Target(p)
    BY <1>0, <1>4 DEF TypeOK, Writing, Target
  <2> QED
    BY <1>0, <2>1 DEF GraphInv, WriterOnItsWay, Writing
<1>8. OfOneReading'
  BY <1>0, <1>4 DEF GraphInv, OfOneReading, Inside, Metas
<1>9. MetaMeansComplete'
  <2>1. \A meta \in Metas(graph) : meta[2] \in 1..Now /\ meta[3] \in 1..Now
    BY <1>0, NoMetaInFacts DEF TypeOK, Metas
  <2> QED
    BY <1>0, <1>4, <2>1 DEF GraphInv, MetaMeansComplete, Metas, Inside, Writing
<1> QED
  BY <1>5, <1>6, <1>7, <1>8, <1>9 DEF GraphInv

\* A process that does not write, or stops writing before its metadata is there,
\* leaves the graph as it is.
LEMMA GraphUntouched ==
    ASSUME GraphInv, TypeOK', NEW p \in Processes,
           UNCHANGED <<history, graph, torn>>,
           \A q \in Processes \ {p} : process'[q] = process[q],
           ~Writing(p)'
    PROVE  GraphInv'
<1> USE DEF GraphInv
<1>1. \A q \in Processes : Writing(q)' => Writing(q) /\ process'[q] = process[q] /\ q # p
  BY DEF Writing
<1>2. OneWriter'
  BY <1>1 DEF OneWriter
<1>3. WriterOnItsWay'
  <2>1. \A q \in Processes : Writing(q)' => Target(q)' = Target(q)
    BY <1>1 DEF Target, Reading
  <2> QED
    BY <1>1, <2>1 DEF WriterOnItsWay
<1>4. OfOneReading'
  BY DEF OfOneReading, Inside, Metas, Readings, Reading, Now
<1>5. MetaMeansComplete'
  <2> SUFFICES ASSUME ~torn, \A q \in Processes : ~Writing(q)', NEW meta \in Metas(graph)
               PROVE  Inside(graph) = Facts(Reading(meta[2], meta[3]))
    BY DEF MetaMeansComplete, Metas, Inside, Reading
  <2>1. CASE Writing(p)
    <3>1. graph \subseteq Facts(Target(p))
      BY <2>1 DEF WriterOnItsWay
    <3>2. Target(p) \in Inventory
      BY <2>1, ReadingsSound, LabSound DEF Target, Writing, TypeOK, Sound
    <3> QED
      BY <3>1, <3>2, FactsAreFacts, NoMetaInFacts DEF Metas
  <2>2. CASE ~Writing(p)
    <3>1. \A q \in Processes : ~Writing(q)
      BY <1>1, <2>2 DEF Writing
    <3> QED
      BY <3>1 DEF MetaMeansComplete
  <2> QED
    BY <2>1, <2>2
<1> QED
  BY <1>2, <1>3, <1>4, <1>5

\* A process empties the graph and has the whole of an inventory to write: what
\* others are still writing is torn, and nothing else is left.
LEMMA EmptiedStep ==
    ASSUME GraphInv, TypeOK', NEW p \in Processes, Emptied(p), UNCHANGED history,
           \A q \in Processes \ {p} : process'[q] = process[q],
           Writing(p)', process'[p].todo = Facts(Target(p)')
    PROVE  GraphInv'
<1> USE DEF GraphInv
<1>1. graph' = {} /\ (~torn' => \A q \in Processes : Writing(q)' => q = p)
  BY DEF Emptied, Others, Writing
<1>2. OneWriter'
  BY <1>1 DEF OneWriter
<1>3. WriterOnItsWay'
  BY <1>1 DEF WriterOnItsWay, InOrder
<1>4. OfOneReading' /\ MetaMeansComplete'
  BY <1>1 DEF OfOneReading, MetaMeansComplete, Inside, Metas
<1> QED
  BY <1>2, <1>3, <1>4

\* The one who writes alone: its next statement finds what it looks for.
LEMMA StatementStep ==
    ASSUME GraphInv, NEW p \in Processes, Statement(p)
    PROVE  GraphInv'
<1> USE DEF GraphInv
<1>1. PICK fact \in IF process[p].at = "seed" THEN First(process[p].todo)
                                             ELSE Cypher(process[p].todo) :
         /\ graph' = Written(graph, fact)
         /\ process' = [process EXCEPT ![p] = [process[p] EXCEPT !.todo = @ \ {fact}]]
  BY DEF Statement, Becomes
<1>2. /\ UNCHANGED <<history, torn, faults>> /\ Writing(p)
      /\ fact \in First(process[p].todo) \cup Cypher(process[p].todo)
      /\ fact \in process[p].todo /\ fact \in Fact
      /\ process[p] \in [at : Stages, todo : SUBSET Fact, of : 0..Now, wired : 0..Now]
      /\ process \in [Processes -> [at : Stages, todo : SUBSET Fact, of : 0..Now, wired : 0..Now]]
  BY <1>1 DEF Statement, First, Cypher, Tied, TypeOK
<1>3. /\ process'[p].todo = process[p].todo \ {fact} /\ process'[p].at = process[p].at
      /\ process'[p].of = process[p].of /\ process'[p].wired = process[p].wired
      /\ \A q \in Processes \ {p} : process'[q] = process[q]
      /\ process' \in [Processes -> [at : Stages, todo : SUBSET Fact, of : 0..Now, wired : 0..Now]]
  BY <1>1, <1>2
<1>4. \A q \in Processes : /\ Writing(q)' <=> Writing(q)
                           /\ Target(q)' = Target(q)
                           /\ process'[q].at = process[q].at
                           /\ process'[q].of = process[q].of
                           /\ process'[q].wired = process[q].wired
  BY <1>2, <1>3 DEF Writing, Target, Reading
<1>5. TypeOK'
  <2>1. Now' = Now
    BY <1>2 DEF Now
  <2>2. graph' \subseteq graph \cup {fact}
    BY <1>1 DEF Written
  <2> QED
    BY <1>2, <1>3, <1>4, <2>1, <2>2 DEF TypeOK
<1>6. OneWriter'
  BY <1>2, <1>4 DEF OneWriter
<1>7. MetaMeansComplete'
  BY <1>2, <1>4 DEF MetaMeansComplete
<1>8. ASSUME ~torn
      PROVE  /\ process'[p].todo \subseteq Facts(Target(p))
             /\ graph' = Facts(Target(p)) \ process'[p].todo
             /\ InOrder(process'[p].todo, Facts(Target(p)))
             /\ Target(p) \in Readings \cup {Lab} /\ Target(p) \in Inventory
  <2>1. Sound(Target(p)) /\ Target(p) \in Readings \cup {Lab}
    BY <1>2, ReadingsSound, LabSound DEF Target, Writing, TypeOK
  <2>2. /\ process[p].todo \subseteq Facts(Target(p))
        /\ graph = Facts(Target(p)) \ process[p].todo
        /\ InOrder(process[p].todo, Facts(Target(p)))
    BY <1>2, <1>8 DEF WriterOnItsWay
  <2>3. Needs(fact) \subseteq graph
    BY <1>2, <2>1, <2>2, TurnIsReady, NeedsAreListed
  <2>4. graph' = graph \cup {fact}
    BY <1>1, <2>3 DEF Written
  <2>5. InOrder(process'[p].todo, Facts(Target(p)))
    BY <1>2, <1>3, <2>2, OrderKept
  <2> QED
    BY <1>2, <1>3, <2>1, <2>2, <2>4, <2>5 DEF Sound
<1>9. WriterOnItsWay'
  <2>1. ASSUME ~torn, NEW q \in Processes, Writing(q) PROVE q = p
    BY <1>2, <2>1 DEF OneWriter
  <2> QED
    BY <1>2, <1>4, <1>8, <2>1 DEF WriterOnItsWay
<1>10. OfOneReading'
  <2>1. Readings' = Readings
    BY <1>2 DEF Readings, Reading, Now
  <2> QED
    BY <1>2, <1>8, <2>1 DEF OfOneReading, Inside
<1> QED
  BY <1>5, <1>6, <1>7, <1>9, <1>10

\* The metadata comes when nothing is left to write.
LEMMA WriteMetaStep ==
    ASSUME GraphInv, NEW p \in Processes, WriteMeta(p)
    PROVE  GraphInv'
<1> USE DEF GraphInv
<1> DEFINE meta == Meta(p)
<1>0. /\ Now \in Nat /\ process[p].of \in 0..Now /\ process[p].wired \in 0..Now
      /\ process[p].at = "write" => process[p].of # 0 /\ process[p].wired # 0
  BY ReadingsSound DEF TypeOK
<1>1. /\ UNCHANGED <<history, torn, faults>> /\ Writing(p)
      /\ process[p].at = "write" /\ process[p].todo = {}
      /\ process[p].of \in 1..Now /\ process[p].wired \in 1..Now /\ Now \in Nat
      /\ graph' = Inside(graph) \cup {meta}
      /\ process' = [process EXCEPT ![p] = [process[p] EXCEPT !.at = "idle", !.of = 0, !.wired = 0]]
  BY <1>0 DEF WriteMeta, Becomes, Writing
<1>2. /\ process'[p].at = "idle" /\ \A q \in Processes \ {p} : process'[q] = process[q]
      /\ process' \in [Processes -> [at : Stages, todo : SUBSET Fact, of : 0..Now, wired : 0..Now]]
  <2> DEFINE r == [process[p] EXCEPT !.at = "idle", !.of = 0, !.wired = 0]
  <2>1. process[p] \in [at : Stages, todo : SUBSET Fact, of : 0..Now, wired : 0..Now]
    BY DEF TypeOK
  <2>2. 0 \in 0..Now /\ "idle" \in Stages
    BY <1>0 DEF Stages
  <2>3. r \in [at : Stages, todo : SUBSET Fact, of : 0..Now, wired : 0..Now] /\ r.at = "idle"
    BY <2>1, <2>2
  <2> QED
    BY <1>1, <2>3 DEF TypeOK
<1>3. /\ meta = <<"meta", process[p].of, process[p].wired>> /\ meta[1] = "meta"
      /\ meta[2] = process[p].of /\ meta[3] = process[p].wired
      /\ meta \in {"meta"} \X (1..Now) \X (1..Now)
  BY <1>1 DEF Meta
<1>4. Metas(graph') = {meta} /\ Inside(graph') = Inside(graph) /\ Inside(graph) \subseteq graph
  BY <1>1, <1>3 DEF Metas, Inside
<1>5. TypeOK'
  <2>1. Now' = Now
    BY <1>1 DEF Now
  <2> QED
    BY <1>1, <1>2, <1>3, <1>4, <2>1 DEF TypeOK
<1>6. \A q \in Processes : Writing(q)' => Writing(q) /\ q # p /\ process'[q] = process[q]
  BY <1>2 DEF Writing
<1>7. OneWriter' /\ WriterOnItsWay'
  <2>1. ASSUME ~torn, NEW q \in Processes, Writing(q)' PROVE FALSE
    BY <1>1, <1>6, <2>1 DEF OneWriter
  <2> QED
    BY <1>1, <2>1 DEF OneWriter, WriterOnItsWay
<1>8. OfOneReading'
  <2>1. Readings' = Readings
    BY <1>1 DEF Readings, Reading, Now
  <2> QED
    BY <1>1, <1>4, <2>1 DEF OfOneReading
<1>9. MetaMeansComplete'
  <2>1. ASSUME ~torn PROVE Inside(graph) = Facts(Reading(process[p].of, process[p].wired))
    <3>1. /\ Target(p) = Reading(process[p].of, process[p].wired)
          /\ graph = Facts(Target(p))
      BY <1>1, <2>1 DEF WriterOnItsWay, Target
    <3>2. Target(p) \in Inventory
      BY <1>1, <3>1, ReadingsSound DEF Sound
    <3>3. Metas(graph) = {}
      BY <3>1, <3>2, FactsAreFacts, NoMetaInFacts DEF Metas
    <3> QED
      BY <3>1, <3>3 DEF Inside
  <2>2. \A i, j : Reading(i, j)' = Reading(i, j)
    BY <1>1 DEF Reading
  <2> QED
    BY <1>1, <1>3, <1>4, <2>1, <2>2 DEF MetaMeansComplete
<1> QED
  BY <1>5, <1>7, <1>8, <1>9

\* A process in its next stage: what its types need.
LEMMA StageTypes ==
    ASSUME TypeOK, NEW p \in Processes,
           NEW r \in [at : Stages, todo : SUBSET Fact, of : 0..Now, wired : 0..Now],
           r.at \in {"interfaces", "replace", "write"} => r.of # 0,
           r.at \in {"replace", "write"} => r.wired # 0,
           process' = [process EXCEPT ![p] = r],
           history' = history, graph' \in {graph, {}}, torn' \in BOOLEAN, faults' \in Nat
    PROVE  /\ TypeOK' /\ process'[p] = r
           /\ \A q \in Processes \ {p} : process'[q] = process[q]
<1>1. Now' = Now
  BY DEF Now
<1>2. /\ process'[p] = r /\ \A q \in Processes \ {p} : process'[q] = process[q]
      /\ process' \in [Processes -> [at : Stages, todo : SUBSET Fact, of : 0..Now, wired : 0..Now]]
  BY DEF TypeOK
<1> QED
  BY <1>1, <1>2 DEF TypeOK

\* Starting, checking, reading, waking, failing and dying leave the graph alone.
LEMMA QuietStep ==
    ASSUME GraphInv, NEW p \in Processes,
           \/ Start(p) \/ Check(p) \/ ReadDevices(p) \/ ReadInterfaces(p) \/ Wake(p)
           \/ Fail(p) \/ FailSeed(p) \/ Crash(p)
    PROVE  GraphInv'
<1>0. /\ TypeOK /\ Now \in Nat /\ 0 \in 0..Now /\ Now \in 0..Now /\ Now # 0
      /\ process[p] \in [at : Stages, todo : SUBSET Fact, of : 0..Now, wired : 0..Now]
      /\ process[p].at \in {"interfaces", "replace", "write"} => process[p].of # 0
  BY ReadingsSound DEF GraphInv, TypeOK
<1>1. /\ UNCHANGED <<history, graph, torn>> /\ faults' \in Nat /\ torn' \in BOOLEAN
  BY <1>0 DEF Start, Check, ReadDevices, ReadInterfaces, Wake, Fail, FailSeed, Crash, MayFail, TypeOK
<1>2. \E r \in [at : Stages, todo : SUBSET Fact, of : 0..Now, wired : 0..Now] :
         /\ r.at \notin {"seed", "write"}
         /\ r.at \in {"interfaces", "replace"} => r.of # 0
         /\ r.at = "replace" => r.wired # 0
         /\ process' = [process EXCEPT ![p] = r]
  <2>1. CASE Start(p) \/ FailSeed(p) \/ Crash(p)
    <3>1. PICK at \in {"check", "down"} :
             process' = [process EXCEPT ![p] = [at |-> at, todo |-> {}, of |-> 0, wired |-> 0]]
      BY <2>1 DEF Start, FailSeed, Crash, Becomes, Down
    <3> QED
      BY <1>0, <3>1 DEF Stages
  <2>2. CASE Check(p) \/ Wake(p)
    <3>1. PICK at \in {"devices", "wipe"} :
             process' = [process EXCEPT ![p] = [process[p] EXCEPT !.at = at]]
      BY <2>2 DEF Check, Wake, Becomes
    <3> QED
      BY <1>0, <3>1 DEF Stages
  <2>3. CASE ReadDevices(p)
    BY <1>0, <2>3 DEF ReadDevices, Becomes, Stages
  <2>4. CASE ReadInterfaces(p)
    BY <1>0, <2>4 DEF ReadInterfaces, Becomes, Stages
  <2>5. CASE Fail(p)
    BY <1>0, <2>5 DEF Fail, Becomes, Stages
  <2> QED
    BY <2>1, <2>2, <2>3, <2>4, <2>5
<1>3. PICK r \in [at : Stages, todo : SUBSET Fact, of : 0..Now, wired : 0..Now] :
         /\ r.at \notin {"seed", "write"}
         /\ r.at \in {"interfaces", "replace"} => r.of # 0
         /\ r.at = "replace" => r.wired # 0
         /\ process' = [process EXCEPT ![p] = r]
  BY <1>2
<1>4. /\ TypeOK' /\ process'[p] = r
      /\ \A q \in Processes \ {p} : process'[q] = process[q]
  BY <1>0, <1>1, <1>3, StageTypes
<1>5. ~Writing(p)'
  BY <1>3, <1>4 DEF Writing
<1> QED
  BY <1>1, <1>4, <1>5, GraphUntouched

\* The two that empty the graph: the seed, and an ingest with what it read.
LEMMA RewriteStep ==
    ASSUME GraphInv, NEW p \in Processes, Wipe(p) \/ Replace(p)
    PROVE  GraphInv'
<1>0. /\ TypeOK /\ Now \in Nat
      /\ process[p] \in [at : Stages, todo : SUBSET Fact, of : 0..Now, wired : 0..Now]
  BY ReadingsSound DEF GraphInv, TypeOK
<1>1. /\ Emptied(p) /\ UNCHANGED <<history, faults>> /\ torn' \in BOOLEAN /\ faults' \in Nat
  BY <1>0 DEF Wipe, Replace, Emptied, Others, TypeOK
<1>2. CASE Wipe(p)
  <2> DEFINE r == [process[p] EXCEPT !.at = "seed", !.todo = Facts(Lab)]
  <2>1. Facts(Lab) \subseteq Fact
    BY FactsAreFacts, LabSound DEF Sound
  <2>2. /\ r \in [at : Stages, todo : SUBSET Fact, of : 0..Now, wired : 0..Now]
        /\ r.at = "seed" /\ r.todo = Facts(Lab) /\ process' = [process EXCEPT ![p] = r]
    BY <1>0, <1>2, <2>1 DEF Wipe, Becomes, Stages
  <2>3. /\ TypeOK' /\ process'[p] = r
        /\ \A q \in Processes \ {p} : process'[q] = process[q]
    BY <1>0, <1>1, <2>2, StageTypes DEF Emptied
  <2>4. Writing(p)' /\ process'[p].todo = Facts(Target(p)')
    BY <2>2, <2>3 DEF Writing, Target
  <2> QED
    BY <1>1, <2>3, <2>4, EmptiedStep
<1>3. CASE Replace(p)
  <2> DEFINE inv == Reading(process[p].of, process[p].wired)
             r == [process[p] EXCEPT !.at = "write", !.todo = Facts(inv)]
  <2>1. process[p].of \in 1..Now /\ process[p].wired \in 1..Now
    <3>1. process[p].of # 0 /\ process[p].wired # 0
      BY <1>0, <1>3 DEF Replace, TypeOK
    <3> QED
      BY <1>0, <3>1
  <2>2. Facts(inv) \subseteq Fact
    BY <1>0, <2>1, ReadingsSound, FactsAreFacts DEF Sound
  <2>3. /\ r \in [at : Stages, todo : SUBSET Fact, of : 0..Now, wired : 0..Now]
        /\ r.at = "write" /\ r.todo = Facts(inv) /\ process' = [process EXCEPT ![p] = r]
        /\ r.of = process[p].of /\ r.wired = process[p].wired
    BY <1>0, <1>3, <2>2 DEF Replace, Rebuilding, Becomes, Stages, Reading
  <2>7. r.of # 0 /\ r.wired # 0
    BY <2>1, <2>3
  <2> HIDE DEF r
  <2>4. /\ TypeOK' /\ process'[p] = r
        /\ \A q \in Processes \ {p} : process'[q] = process[q]
    BY <1>0, <1>1, <2>3, <2>7, StageTypes DEF Emptied
  <2>5. Target(p)' = inv
    BY <1>1, <2>3, <2>4 DEF Target, Reading
  <2>6. Writing(p)' /\ process'[p].todo = Facts(Target(p)')
    BY <2>3, <2>4, <2>5 DEF Writing
  <2> QED
    BY <1>1, <2>4, <2>6, EmptiedStep
<1> QED
  BY <1>2, <1>3

\* At first there is a NetBox, an empty graph and nobody.
LEMMA GraphInit == Init => GraphInv
<1> SUFFICES ASSUME Init PROVE GraphInv
  OBVIOUS
<1>1. PICK inv \in Inventories : history = <<inv>>
  BY DEF Init
<1>2. /\ history \in Seq(Inventory) /\ Now = 1 /\ graph = {} /\ torn = FALSE /\ faults = 0
      /\ \A p \in Processes : process[p].at = "down"
      /\ process \in [Processes -> [at : Stages, todo : SUBSET Fact, of : 0..1, wired : 0..1]]
  <2>1. history \in Seq(Inventory) /\ Now = 1
    BY <1>1, TopologyAssumption DEF Now
  <2>2. Down \in [at : Stages, todo : SUBSET Fact, of : 0..1, wired : 0..1] /\ Down.at = "down"
    BY DEF Down, Stages
  <2> QED
    BY <2>1, <2>2 DEF Init
<1>3. TypeOK
  <2>1. Now > 0 /\ 0..1 = 0..Now
    BY <1>2
  <2>2. process \in [Processes -> [at : Stages, todo : SUBSET Fact, of : 0..Now, wired : 0..Now]]
    BY <1>2, <2>1
  <2> QED
    BY <1>2, <2>1, <2>2 DEF TypeOK
<1>4. OneWriter /\ WriterOnItsWay /\ OfOneReading /\ MetaMeansComplete
  BY <1>2 DEF OneWriter, WriterOnItsWay, OfOneReading, MetaMeansComplete, Writing, Inside, Metas
<1> QED
  BY <1>3, <1>4 DEF GraphInv

\* The invariant reads nothing but the variables.
LEMMA GraphStutters ==
    ASSUME GraphInv, UNCHANGED vars
    PROVE  GraphInv'
<1>1. UNCHANGED <<history, graph, process, torn, faults>>
  BY DEF vars
<1>2. /\ Now' = Now /\ Readings' = Readings /\ \A i, j : Reading(i, j)' = Reading(i, j)
      /\ \A p : (Writing(p)' <=> Writing(p)) /\ Target(p)' = Target(p)
  BY <1>1 DEF Now, Readings, Reading, Writing, Target
<1>3. TypeOK'
  BY <1>1, <1>2 DEF GraphInv, TypeOK
<1>4. OneWriter' /\ WriterOnItsWay' /\ OfOneReading' /\ MetaMeansComplete'
  BY <1>1, <1>2 DEF GraphInv, OneWriter, WriterOnItsWay, OfOneReading, MetaMeansComplete
<1> QED
  BY <1>3, <1>4 DEF GraphInv

\* Every step keeps the invariant.
LEMMA GraphInvHolds == Spec => []GraphInv
<1>1. ASSUME GraphInv, [Next]_vars PROVE GraphInv'
  <2>1. CASE UNCHANGED vars
    BY <1>1, <2>1, GraphStutters
  <2>2. CASE Change
    BY <1>1, <2>2, ChangeKeeps
  <2>3. ASSUME NEW p \in Processes, Step(p) \/ Fail(p) \/ FailSeed(p) \/ Crash(p)
        PROVE  GraphInv'
    BY <1>1, <2>3, QuietStep, RewriteStep, StatementStep, WriteMetaStep DEF Step
  <2> QED
    BY <1>1, <2>1, <2>2, <2>3 DEF Next
<1> QED
  BY <1>1, GraphInit, PTL DEF Spec

\* Every variable keeps its type.
THEOREM GraphTypes == Spec => []TypeOK
<1>1. GraphInv => TypeOK
  BY DEF GraphInv
<1> QED
  BY <1>1, GraphInvHolds, PTL

\* Whatever fails or dies, metadata is only ever found beside the whole of what
\* one ingest read, unless two wrote at a time.
THEOREM MetaIsComplete == Spec => []MetaMeansComplete
<1>1. GraphInv => MetaMeansComplete
  BY DEF GraphInv
<1> QED
  BY <1>1, GraphInvHolds, PTL

\* Every path, pair of zones and neighbourhood the agent is told, during an
\* ingest, after one and after one that failed, is one of a single reading of
\* NetBox or of the lab.
THEOREM AnswersAlwaysReal == Spec => []AnswersAreReal
<1>1. GraphInv => AnswersAreReal
  BY FewerFactsSayLess DEF GraphInv, OfOneReading, AnswersAreReal
<1> QED
  BY <1>1, GraphInvHolds, PTL
=============================================================================
