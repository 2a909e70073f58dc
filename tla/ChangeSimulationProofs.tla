----------------------- MODULE ChangeSimulationProofs -----------------------
(***************************************************************************)
(* Theorems of ChangeSimulation: what the simulator passes does on the     *)
(* device what it did in the simulation, and opens nothing else.           *)
(***************************************************************************)
EXTENDS ChangeSimulation, FiniteSetTheorems, WellFoundedInduction, TLAPS

-----------------------------------------------------------------------------
(* Rules and sets of rules.                                                *)

LEMMA PlacedType ==
    ASSUME NEW body \in Body, NEW line \in Int, NEW nth \in Nat
    PROVE  /\ Placed(body, line, nth) \in AclRule
           /\ Placed(body, line, nth).line = line
           /\ Placed(body, line, nth).nth = nth
           /\ Placed(body, line, nth).action = body.action
           /\ SameRule(Placed(body, line, nth), body)
BY DEF Placed, AclRule, Body, SameRule

LEMMA EntryType ==
    ASSUME NEW e \in Entry
    PROVE  /\ e.rule \in AclRule /\ e.rule.nth = 0 /\ e.rule.line \in Int
           /\ e.reads \in {"rule", "unparsed"}
BY DEF Entry, AclRule

\* A rule matches a flow as another does that is the same but for its place.
LEMMA SameMatches ==
    ASSUME NEW left \in AclRule, NEW right, SameRule(left, right), NEW flow \in Flow
    PROVE  Matches(left, flow) <=> Matches(right, flow)
BY DEF SameRule, Matches

LEMMA MatchesPlaced ==
    ASSUME NEW body \in Body, NEW line \in Int, NEW nth \in Nat, NEW flow \in Flow
    PROVE  Matches(Placed(body, line, nth), flow) <=> Matches(body, flow)
BY DEF Placed, Matches, Body

\* What Read does to an entry, one field at a time.
ReadOf(e) == IF e.reads = "rule" THEN e.rule ELSE [e.rule EXCEPT !.action = "unparsed"]

LEMMA ReadEntry ==
    ASSUME NEW e \in Entry
    PROVE  /\ ReadOf(e) \in AclRule
           /\ ReadOf(e).line = e.rule.line
           /\ ReadOf(e).nth = 0
           /\ e.reads = "rule" => ReadOf(e) = e.rule
           /\ e.reads # "rule" => ReadOf(e).action = "unparsed"
BY DEF Entry, AclRule, ReadOf

LEMMA ReadType ==
    ASSUME NEW entries \in SUBSET Entry
    PROVE  /\ Read(entries) \in SUBSET AclRule
           /\ Read(entries) = {ReadOf(e) : e \in entries}
           /\ Lines(Read(entries)) = Lines(Real(entries))
<1>1. Read(entries) = {ReadOf(e) : e \in entries}
  BY DEF Read, ReadOf
<1>2. Read(entries) \in SUBSET AclRule
  BY <1>1, ReadEntry
<1>3. Lines(Read(entries)) = Lines(Real(entries))
  BY <1>1, ReadEntry DEF Lines, Real
<1> QED BY <1>1, <1>2, <1>3

\* The decision, without the choice of a rule.
LEMMA VerdictPermit ==
    ASSUME NEW rules, NEW flow
    PROVE  Verdict(rules, flow) = "permit" <=>
             \E rule \in rules : /\ rule.action = "permit" /\ Matches(rule, flow)
                                 /\ \A other \in rules :
                                      Matches(other, flow) => ~Earlier(other, rule)
BY DEF Verdict, FirstHits, Hits

LEMMA VerdictDeny ==
    ASSUME NEW rules, NEW flow
    PROVE  Verdict(rules, flow) # "permit" <=> Verdict(rules, flow) = "deny"
BY DEF Verdict

-----------------------------------------------------------------------------
(* The last line of a bounded set of lines.                                *)

Bounded(lines) == \E n \in Nat : \A m \in lines : m <= n

LEMMA LastLineIs ==
    ASSUME NEW lines \in SUBSET Int, Bounded(lines)
    PROVE  LastLine(lines) \in Int /\ \A m \in lines : m <= LastLine(lines)
<1> DEFINE Above == {n \in Nat : \A m \in lines : m <= n}
           Less == {ss \in Nat \X Nat : ss[1] < ss[2]}
<1>1. IsWellFoundedOn(Less, Nat)
  <2>1. Less = OpToRel(<, Nat)
    BY DEF OpToRel
  <2> QED BY <2>1, NatLessThanWellFounded, Zenon
<1>2. Above \subseteq Nat /\ Above # {}
  BY DEF Bounded
<1> HIDE DEF Above, Less
<1>3. PICK top \in Above : \A n \in Above : ~(<<n, top>> \in Less)
  BY <1>1, <1>2, WFMin, Zenon
<1>4. \A n \in Above : top <= n
  <2>1. SUFFICES ASSUME NEW n \in Above, ~(top <= n) PROVE FALSE
    OBVIOUS
  <2>2. n \in Nat /\ top \in Nat
    BY <1>2
  <2>3. <<n, top>> \in Less
    BY <2>1, <2>2 DEF Less
  <2> QED BY <2>3, <1>3
<1> USE DEF Above
<1>5. top \in lines \cup {0}
  <2>1. SUFFICES ASSUME top # 0, top \notin lines PROVE FALSE
    OBVIOUS
  <2>2. top - 1 \in Nat /\ \A m \in lines : m <= top - 1
    BY <2>1
  <2> QED BY <2>2, <1>4
<1>6. \A m \in lines : m <= top
  OBVIOUS
<1>7. \E n \in lines \cup {0} : \A m \in lines : m <= n
  BY <1>5, <1>6
<1>8. /\ LastLine(lines) \in lines \cup {0}
      /\ \A m \in lines : m <= LastLine(lines)
  BY <1>7, Zenon DEF LastLine
<1>9. lines \cup {0} \subseteq Int
  OBVIOUS
<1> QED BY <1>8, <1>9, Zenon

-----------------------------------------------------------------------------
(* What landing does to the entries.                                       *)

PushOf(e, line) ==
    IF line # 0 /\ e.rule.line >= line THEN [e EXCEPT !.rule.line = @ + 1] ELSE e

LEMMA PushedEntry ==
    ASSUME NEW e \in Entry, NEW line \in Int
    PROVE  /\ PushOf(e, line) \in Entry
           /\ PushOf(e, line).reads = e.reads
           /\ PushOf(e, line).rule.action = e.rule.action
           /\ SameRule(PushOf(e, line).rule, e.rule)
           /\ PushOf(e, line).rule.line =
                 IF line # 0 /\ e.rule.line >= line THEN e.rule.line + 1 ELSE e.rule.line
BY DEF Entry, AclRule, PushOf, SameRule

LEMMA PushedIs ==
    ASSUME NEW entries, NEW line
    PROVE  Pushed(entries, line) = {PushOf(e, line) : e \in entries}
BY DEF Pushed, PushOf

LEMMA CommandLineType ==
    ASSUME NEW p \in Proposal
    PROVE  CommandLine(p) \in Nat /\ p.body \in Body /\ p.stated \in Nat /\ p.position \in Nat
BY DEF CommandLine, Proposal

LEMMA RealLines ==
    ASSUME NEW entries \in SUBSET Entry
    PROVE  Lines(Real(entries)) \in SUBSET Int
BY EntryType DEF Lines, Real

LEMMA NewEntryType ==
    ASSUME NEW entries \in SUBSET Entry, NEW p \in Proposal, Bounded(Lines(Real(entries)))
    PROVE  /\ NewEntry(p, entries) \in Entry
           /\ NewEntry(p, entries).reads = "rule"
           /\ NewEntry(p, entries).rule.action = p.body.action
           /\ SameRule(NewEntry(p, entries).rule, p.body)
           /\ CommandLine(p) # 0 => NewEntry(p, entries).rule.line = CommandLine(p)
           /\ CommandLine(p) = 0 => NewEntry(p, entries).rule.line
                                      = LastLine(Lines(Real(entries))) + 10
<1> DEFINE line == IF CommandLine(p) # 0 THEN CommandLine(p)
                   ELSE LastLine(Lines(Real(entries))) + 10
<1>1. line \in Int
  BY CommandLineType, RealLines, LastLineIs
<1>2. NewEntry(p, entries) = [rule |-> Placed(p.body, line, 0), reads |-> "rule"]
  BY DEF NewEntry
<1> HIDE DEF line
<1>3. /\ Placed(p.body, line, 0) \in AclRule
      /\ Placed(p.body, line, 0).line = line
      /\ Placed(p.body, line, 0).nth = 0
      /\ Placed(p.body, line, 0).action = p.body.action
      /\ SameRule(Placed(p.body, line, 0), p.body)
  BY <1>1, CommandLineType, PlacedType
<1>4. NewEntry(p, entries).rule = Placed(p.body, line, 0)
  BY <1>2
<1>5. NewEntry(p, entries) \in Entry /\ NewEntry(p, entries).reads = "rule"
  BY <1>2, <1>3 DEF Entry
<1> QED BY <1>3, <1>4, <1>5 DEF line

\* Every entry after a command has landed is the new one or one there was,
\* where it was or pushed down.
LEMMA LandedFrom ==
    ASSUME NEW entries \in SUBSET Entry, NEW p \in Proposal, NEW e \in Landed(p, entries),
           platform \in Platforms
    PROVE  \/ e = NewEntry(p, entries)
           \/ \E old \in entries : e = old \/ e = PushOf(old, CommandLine(p))
<1>1. CASE Landed(p, entries) = entries
  BY <1>1
<1>2. CASE Landed(p, entries) = Pushed(entries, CommandLine(p)) \cup {NewEntry(p, entries)}
  BY <1>2, PushedIs
<1>3. CASE Landed(p, entries) = entries \cup {NewEntry(p, entries)}
  BY <1>3
<1>4. CASE Landed(p, entries) = Overwritten(p, entries)
  BY <1>4 DEF Overwritten
<1> QED BY <1>1, <1>2, <1>3, <1>4 DEF Landed, Platforms

Taken(p, entries) ==
    /\ SameLine(p) /\ ~Has(Read(entries), p.body)
    /\ platform \in {"cisco_ios", "arista_eos"} => ~LineTaken(p, entries)

LEMMA TakenLands ==
    ASSUME NEW entries \in SUBSET Entry, NEW p \in Proposal,
           platform \in Platforms, Taken(p, entries)
    PROVE  NewEntry(p, entries) \in Landed(p, entries)
BY DEF Taken, SameLine, Landed, Platforms, Overwritten

\* The new entry is at the line it was simulated at.
LEMMA SameLineAsSimulated ==
    ASSUME NEW entries \in SUBSET Entry, NEW p \in Proposal,
           platform \in Platforms, SameLine(p), Bounded(Lines(Real(entries)))
    PROVE  NewEntry(p, entries).rule.line = SimulatedLine(p, Read(entries))
<1>1. Lines(Read(entries)) = Lines(Real(entries))
  BY ReadType
<1>2. CommandLine(p) = IF p.stated # 0 THEN p.stated ELSE p.position
  BY CommandLineType DEF CommandLine, SameLine
<1> QED BY <1>1, <1>2, NewEntryType, CommandLineType DEF SimulatedLine

-----------------------------------------------------------------------------
(* A blocked flow that the simulation permits is permitted on the device.  *)

\* The rule as it was simulated.
LEMMA SimulatedType ==
    ASSUME NEW base \in SUBSET AclRule, NEW p \in Proposal, Bounded(Lines(base))
    PROVE  /\ SimulatedLine(p, base) \in Int
           /\ Simulated(p, base) \in AclRule
           /\ Simulated(p, base).line = SimulatedLine(p, base)
           /\ Simulated(p, base).nth = 1
           /\ Simulated(p, base).action = p.body.action
           /\ SameRule(Simulated(p, base), p.body)
<1>1. Lines(base) \in SUBSET Int
  BY DEF Lines, AclRule
<1>2. SimulatedLine(p, base) \in Int
  BY <1>1, LastLineIs, CommandLineType DEF SimulatedLine
<1> QED BY <1>2, CommandLineType, PlacedType DEF Simulated

\* A rule before which no other matches is at a line before the others'.
LEMMA BehindSimulated ==
    ASSUME NEW rule \in AclRule, rule.nth = 0, NEW sim \in AclRule, sim.nth = 1,
           ~Earlier(rule, sim)
    PROVE  rule.line > sim.line
BY DEF Earlier, AclRule

LEMMA NotEarlier ==
    ASSUME NEW left \in AclRule, NEW right \in AclRule,
           left.line > right.line \/ left = right
    PROVE  ~Earlier(left, right)
BY DEF Earlier, AclRule

LEMMA LandsAsSimulated ==
    ASSUME NEW entries \in SUBSET Entry, NEW p \in Proposal, NEW flow \in Flow,
           platform \in Platforms, Taken(p, entries), Bounded(Lines(Real(entries))),
           ~UnmodelledAbove(Read(entries), SimulatedLine(p, Read(entries))),
           Verdict(Read(entries) \cup {Simulated(p, Read(entries))}, flow) = "permit",
           Verdict(Read(entries), flow) = "deny"
    PROVE  Verdict(Real(Landed(p, entries)), flow) = "permit"
<1> DEFINE base == Read(entries)
           line == SimulatedLine(p, base)
           sim == Simulated(p, base)
           new == NewEntry(p, entries)
           after == Landed(p, entries)
<1>1. /\ base \in SUBSET AclRule /\ base = {ReadOf(e) : e \in entries}
      /\ Bounded(Lines(base))
  BY ReadType
<1>2. /\ line \in Int /\ sim \in AclRule /\ sim.line = line /\ sim.nth = 1
      /\ sim.action = p.body.action /\ SameRule(sim, p.body)
  BY <1>1, SimulatedType
<1>3. /\ new \in Entry /\ new.rule.action = p.body.action
      /\ SameRule(new.rule, p.body) /\ new.rule.line = line
  BY NewEntryType, SameLineAsSimulated DEF Taken
<1>4. new \in after
  BY TakenLands
<1>5. ~UnmodelledAbove(base, line) /\ Verdict(base, flow) = "deny"
      /\ Verdict(base \cup {sim}, flow) = "permit"
  OBVIOUS
<1> HIDE DEF base, line, sim, new, after
<1>6. PICK hit \in base \cup {sim} :
           /\ hit.action = "permit" /\ Matches(hit, flow)
           /\ \A other \in base \cup {sim} : Matches(other, flow) => ~Earlier(other, hit)
  BY <1>5, VerdictPermit, Zenon
<1>7. hit = sim
  <2>1. SUFFICES ASSUME hit \in base PROVE FALSE
    BY <1>6
  <2>2. Verdict(base, flow) = "permit"
    BY <1>6, <2>1, VerdictPermit
  <2> QED BY <2>2, <1>5
<1>8. ASSUME NEW e \in entries, Matches(e.rule, flow)
      PROVE  e.rule.line > line
  <2>1. ReadOf(e) \in base /\ ReadOf(e) \in AclRule /\ ReadOf(e).nth = 0
        /\ ReadOf(e).line = e.rule.line /\ e.rule.line \in Int
    BY <1>1, ReadEntry, EntryType
  <2>2. CASE e.reads = "rule"
    <3>1. Matches(ReadOf(e), flow)
      BY <1>8, <2>2, ReadEntry
    <3>2. ~Earlier(ReadOf(e), sim)
      BY <3>1, <2>1, <1>6, <1>7
    <3> QED BY <3>2, <2>1, <1>2, BehindSimulated
  <2>3. CASE e.reads # "rule"
    <3>1. ReadOf(e).action = "unparsed"
      BY <2>3, ReadEntry
    <3> QED BY <3>1, <2>1, <1>2, <1>5 DEF UnmodelledAbove
  <2> QED BY <2>2, <2>3
<1>9. Matches(new.rule, flow) /\ new.rule.action = "permit"
  <2>1. Matches(p.body, flow)
    BY <1>6, <1>7, <1>2, SameMatches
  <2>2. new.rule \in AclRule
    BY <1>3, EntryType
  <2> QED BY <2>1, <2>2, <1>2, <1>3, <1>6, <1>7, SameMatches
<1>10. ASSUME NEW e \in after, Matches(e.rule, flow)
       PROVE  ~Earlier(e.rule, new.rule)
  <2>1. new.rule \in AclRule /\ line \in Int /\ CommandLine(p) \in Int
    BY <1>2, <1>3, EntryType, CommandLineType
  <2>2. CASE e = new
    BY <2>1, <2>2, NotEarlier
  <2>3. ASSUME NEW old \in entries, e = old
        PROVE  ~Earlier(e.rule, new.rule)
    <3>1. old.rule \in AclRule /\ old.rule.line > line
      BY <1>8, <1>10, <2>3, EntryType
    <3> QED BY <3>1, <2>1, <2>3, <1>3, NotEarlier
  <2>4. ASSUME NEW old \in entries, e = PushOf(old, CommandLine(p))
        PROVE  ~Earlier(e.rule, new.rule)
    <3>1. /\ e \in Entry /\ SameRule(e.rule, old.rule)
          /\ e.rule.line \in {old.rule.line, old.rule.line + 1}
      BY <2>1, <2>4, PushedEntry
    <3>2. e.rule \in AclRule /\ old.rule \in AclRule /\ old.rule.line \in Int
      BY <3>1, EntryType
    <3>3. Matches(old.rule, flow)
      BY <3>1, <3>2, <1>10, SameMatches
    <3>4. e.rule.line > line
      BY <3>1, <3>2, <3>3, <2>1, <1>8
    <3> QED BY <3>2, <3>4, <2>1, <1>3, NotEarlier
  <2>5. \/ e = new
        \/ \E old \in entries : e = old \/ e = PushOf(old, CommandLine(p))
    BY LandedFrom DEF after, new
  <2> QED BY <2>2, <2>3, <2>4, <2>5
<1>11. \E rule \in Real(after) :
          /\ rule.action = "permit" /\ Matches(rule, flow)
          /\ \A other \in Real(after) : Matches(other, flow) => ~Earlier(other, rule)
  BY <1>4, <1>9, <1>10 DEF Real
<1> QED BY <1>11, VerdictPermit DEF after

-----------------------------------------------------------------------------
(* A change that carries the flow opens nothing but what it was asked for. *)

\* A spec with as much as one usable host, and an address in it, is that
\* address.
LEMMA OneHost ==
    ASSUME NEW spec \in Specs, NEW x \in spec
    PROVE  /\ Breadth(spec) \in Nat \ {0}
           /\ Breadth(spec) = 1 => spec = {x}
<1>1. spec \in SUBSET Addrs /\ IsFiniteSet(Addrs) /\ IsFiniteSet(spec)
  BY PolicyAssumption, FS_Subset DEF Specs
<1>2. Cardinality(spec) \in Nat /\ Cardinality(Addrs) \in Nat
  BY <1>1, FS_CardinalityType
<1>3. Cardinality(spec) # 0
  BY <1>1, FS_EmptySet
<1>4. spec = Addrs \/ Cardinality(spec) # 3
  BY DEF Specs
<1>5. Breadth(spec) = IF spec = Addrs THEN Cardinality(spec)
                      ELSE IF Cardinality(spec) <= 2 THEN Cardinality(spec)
                      ELSE Cardinality(spec) - 2
  BY DEF Breadth
<1>6. Breadth(spec) \in Nat \ {0}
  BY <1>2, <1>3, <1>5
<1>7. Breadth(spec) = 1 => Cardinality(spec) = 1
  BY <1>2, <1>4, <1>5
<1>8. Cardinality(spec) = 1 => spec = {x}
  BY <1>1, FS_Singleton
<1> QED BY <1>6, <1>7, <1>8

\* A rule within the scope of one flow that matches it matches no flow of
\* another address or port.
LEMMA ScopeIsExact ==
    ASSUME NEW body \in Body, NEW blocked \in Flow, InScope(body, {blocked}),
           Matches(body, blocked), NEW flow \in Flow, Matches(body, flow)
    PROVE  flow.src = blocked.src /\ flow.dst = blocked.dst /\ flow.port = blocked.port
<1>1. /\ body.src \in Specs /\ body.dst \in Specs /\ body.port # AnyPort
      /\ blocked.src \in body.src /\ blocked.dst \in body.dst
      /\ flow.src \in body.src /\ flow.dst \in body.dst
      /\ body.port = blocked.port /\ body.port = flow.port
  BY DEF Body, InScope, Matches
<1>2. Breadth(body.src) * Breadth(body.dst) <= 1
  <2>1. {f.src : f \in {blocked}} = {blocked.src} /\ {f.dst : f \in {blocked}} = {blocked.dst}
    OBVIOUS
  <2>2. Cardinality({f.src : f \in {blocked}}) = 1 /\ Cardinality({f.dst : f \in {blocked}}) = 1
    BY <2>1, FS_Singleton
  <2> QED BY <2>2 DEF InScope
<1>3. Breadth(body.src) \in Nat \ {0} /\ Breadth(body.dst) \in Nat \ {0}
  BY <1>1, OneHost
<1>4. ASSUME NEW m \in Nat \ {0}, NEW n \in Nat \ {0}, m * n <= 1
      PROVE  m = 1 /\ n = 1
  <2>1. m >= 2 => m * n >= 2
    OBVIOUS
  <2>2. n >= 2 => m * n >= 2
    OBVIOUS
  <2> QED BY <1>4, <2>1, <2>2
<1>5. Breadth(body.src) = 1 /\ Breadth(body.dst) = 1
  BY <1>2, <1>3, <1>4
<1> QED BY <1>1, <1>5, OneHost

LEMMA PushedByNothing ==
    ASSUME NEW entries
    PROVE  Pushed(entries, 0) = entries
BY DEF Pushed

\* Pushing keeps the order of the entries.
LEMMA PushedInOrder ==
    ASSUME NEW left \in Entry, NEW right \in Entry, NEW line \in Int,
           Earlier(left.rule, right.rule)
    PROVE  Earlier(PushOf(left, line).rule, PushOf(right, line).rule)
<1>1. /\ left.rule.line \in Int /\ right.rule.line \in Int
      /\ left.rule.nth = 0 /\ right.rule.nth = 0
  BY EntryType
<1>2. left.rule.line < right.rule.line
  BY <1>1 DEF Earlier
<1>3. PushOf(left, line).rule.line < PushOf(right, line).rule.line
  <2>1. PushOf(left, line).rule.line =
          IF line # 0 /\ left.rule.line >= line THEN left.rule.line + 1 ELSE left.rule.line
    BY PushedEntry
  <2>2. PushOf(right, line).rule.line =
          IF line # 0 /\ right.rule.line >= line THEN right.rule.line + 1 ELSE right.rule.line
    BY PushedEntry
  <2> QED BY <1>1, <1>2, <2>1, <2>2
<1> QED BY <1>3 DEF Earlier

LEMMA OpenedByTheNewEntry ==
    ASSUME NEW entries \in SUBSET Entry, NEW line \in Int, NEW new \in Entry, NEW flow \in Flow,
           Verdict(Real(entries), flow) = "deny",
           Verdict(Real(Pushed(entries, line) \cup {new}), flow) = "permit"
    PROVE  Matches(new.rule, flow)
<1> DEFINE after == Pushed(entries, line) \cup {new}
<1>1. after = {PushOf(e, line) : e \in entries} \cup {new}
  BY PushedIs
<1>2. Verdict(Real(after), flow) = "permit"
  OBVIOUS
<1> HIDE DEF after
<1>3. PICK hit \in Real(after) :
           /\ hit.action = "permit" /\ Matches(hit, flow)
           /\ \A other \in Real(after) : Matches(other, flow) => ~Earlier(other, hit)
  BY <1>2, VerdictPermit, Zenon
<1>4. PICK e \in after : hit = e.rule
  BY DEF Real
<1>5. CASE e = new
  BY <1>3, <1>4, <1>5
<1>6. CASE \E old \in entries : e = PushOf(old, line)
  <2>1. PICK old \in entries : e = PushOf(old, line)
    BY <1>6
  <2>2. old \in Entry /\ old.rule \in AclRule
    BY EntryType
  <2>3. /\ PushOf(old, line) \in Entry /\ SameRule(PushOf(old, line).rule, old.rule)
        /\ PushOf(old, line).rule.action = old.rule.action
    BY <2>2, PushedEntry
  <2>4. old.rule.action = "permit" /\ Matches(old.rule, flow)
    BY <1>3, <1>4, <2>1, <2>2, <2>3, EntryType, SameMatches
  <2>5. ASSUME NEW other \in entries, Matches(other.rule, flow), Earlier(other.rule, old.rule)
        PROVE  FALSE
    <3>1. other \in Entry /\ other.rule \in AclRule
      BY EntryType
    <3>2. /\ PushOf(other, line) \in Entry
          /\ SameRule(PushOf(other, line).rule, other.rule)
      BY <3>1, PushedEntry
    <3>3. Matches(PushOf(other, line).rule, flow)
      BY <2>5, <3>2, EntryType, SameMatches
    <3>4. PushOf(other, line).rule \in Real(after)
      BY <1>1 DEF Real
    <3>5. Earlier(PushOf(other, line).rule, PushOf(old, line).rule)
      BY <2>2, <2>5, <3>1, PushedInOrder
    <3> QED BY <1>3, <1>4, <2>1, <3>3, <3>4, <3>5
  <2>6. \A other \in Real(entries) : Matches(other, flow) => ~Earlier(other, old.rule)
    BY <2>5 DEF Real
  <2>7. old.rule \in Real(entries)
    BY DEF Real
  <2>8. Verdict(Real(entries), flow) = "permit"
    BY <2>4, <2>6, <2>7, VerdictPermit
  <2> QED BY <2>8
<1> QED BY <1>1, <1>4, <1>5, <1>6

\* What a device makes of a command, unless it overwrites an entry.
LEMMA LandedIs ==
    ASSUME NEW entries \in SUBSET Entry, NEW p \in Proposal, platform \in Platforms,
           platform = "nokia_srl" => ~LineTaken(p, entries)
    PROVE  \/ Landed(p, entries) = entries
           \/ \E line \in Int :
                 Landed(p, entries) = Pushed(entries, line) \cup {NewEntry(p, entries)}
<1>1. CASE Landed(p, entries) = Pushed(entries, CommandLine(p)) \cup {NewEntry(p, entries)}
  BY <1>1, CommandLineType
<1>2. CASE Landed(p, entries) = entries \cup {NewEntry(p, entries)}
  BY <1>2, PushedByNothing
<1>3. CASE platform = "nokia_srl" /\ Rendered(p)
  <2>1. CommandLine(p) # 0 /\ CommandLine(p) \notin Lines(Real(entries))
    BY <1>3 DEF LineTaken, Rendered, CommandLine
  <2>2. {e \in entries : e.rule.line # CommandLine(p)} = entries
    BY <2>1 DEF Lines, Real
  <2>3. Landed(p, entries) = entries \cup {NewEntry(p, entries)}
    BY <1>3, <2>2 DEF Landed, Overwritten
  <2> QED BY <2>3, <1>2
<1> QED BY <1>1, <1>2, <1>3 DEF Landed, Platforms

\* An entry that takes the number of another opens a flow itself, or the flow was
\* decided by the entry that is gone.
LEMMA OpenedByOverwriting ==
    ASSUME NEW entries \in SUBSET Entry, NEW p \in Proposal, NEW flow \in Flow,
           Verdict(Real(entries), flow) = "deny",
           Verdict(Real(Overwritten(p, entries)), flow) = "permit",
           ~Matches(NewEntry(p, entries).rule, flow)
    PROVE  \E rule \in FirstHits(Real(entries), flow) : rule.line = CommandLine(p)
<1>1. PICK hit \in Real(Overwritten(p, entries)) :
         /\ hit.action = "permit" /\ Matches(hit, flow)
         /\ \A other \in Real(Overwritten(p, entries)) :
               Matches(other, flow) => ~Earlier(other, hit)
  BY DEF Verdict, FirstHits, Hits
<1>2. /\ Real(entries) \subseteq AclRule
      /\ \A rule \in Real(entries) : rule.nth = 0 /\ rule.line \in Int
  BY EntryType DEF Real, Entry, AclRule
<1>3. /\ hit \in Real(entries) /\ hit.line # CommandLine(p)
      /\ \A rule \in Real(entries) :
            rule.line # CommandLine(p) => rule \in Real(Overwritten(p, entries))
  BY <1>1 DEF Overwritten, Real
<1>4. PICK rule \in Real(entries) : Matches(rule, flow) /\ Earlier(rule, hit)
  BY <1>1, <1>3 DEF Verdict, FirstHits, Hits
<1>5. rule.line = CommandLine(p)
  BY <1>1, <1>3, <1>4
<1>6. ASSUME NEW other \in Real(entries), Matches(other, flow), Earlier(other, rule)
      PROVE  FALSE
  <2>1. other.line < rule.line
    BY <1>2, <1>6 DEF Earlier
  <2>2. Earlier(other, hit)
    BY <1>2, <1>3, <1>4, <2>1 DEF Earlier
  <2> QED
    BY <1>1, <1>2, <1>3, <1>5, <1>6, <2>1, <2>2
<1> QED
  BY <1>4, <1>5, <1>6 DEF FirstHits, Hits

\* What a change opens is its own rule's, or was decided by what it overwrote.
LEMMA OpensOnlyTheEvidence ==
    ASSUME NEW entries \in SUBSET Entry, NEW p \in Proposal, platform \in Platforms,
           Bounded(Lines(Real(entries))),
           NEW blocked \in Flow,
           Matches(p.body, blocked), InScope(p.body, {blocked}),
           NEW flow \in Flow,
           Verdict(Real(entries), flow) = "deny",
           Verdict(Real(Landed(p, entries)), flow) = "permit"
    PROVE  \/ flow.src = blocked.src /\ flow.dst = blocked.dst /\ flow.port = blocked.port
           \/ /\ platform = "nokia_srl"
              /\ \E rule \in FirstHits(Real(entries), flow) : rule.line = CommandLine(p)
<1>1. NewEntry(p, entries) \in Entry /\ SameRule(NewEntry(p, entries).rule, p.body)
  BY NewEntryType
<1>2. CASE Matches(NewEntry(p, entries).rule, flow)
  <2>1. Matches(p.body, flow)
    BY <1>1, <1>2, EntryType, SameMatches
  <2> QED BY <2>1, ScopeIsExact, CommandLineType
<1>3. CASE /\ platform = "nokia_srl" => ~LineTaken(p, entries)
           /\ ~Matches(NewEntry(p, entries).rule, flow)
  <2>1. PICK line \in Int :
             Landed(p, entries) = Pushed(entries, line) \cup {NewEntry(p, entries)}
    BY <1>3, LandedIs
  <2> QED BY <1>1, <1>3, <2>1, OpenedByTheNewEntry
<1>4. CASE platform = "nokia_srl" /\ ~Matches(NewEntry(p, entries).rule, flow)
  <2>1. Landed(p, entries) = Overwritten(p, entries)
    BY <1>4 DEF Landed
  <2> QED BY <1>4, <2>1, OpenedByOverwriting
<1> QED BY <1>2, <1>3, <1>4

-----------------------------------------------------------------------------
(* The device keeps being a bounded set of entries.                        *)

\* Entries no farther down than some line.
LEMMA BoundedBy ==
    ASSUME NEW entries \in SUBSET Entry, NEW n \in Int,
           \A e \in entries : e.rule.line <= n
    PROVE  Bounded(Lines(Real(entries)))
<1> DEFINE top == IF n > 0 THEN n ELSE 0
<1>1. top \in Nat /\ n <= top
  OBVIOUS
<1>2. \A m \in Lines(Real(entries)) : m \in Int /\ m <= n
  BY EntryType DEF Lines, Real
<1> HIDE DEF top
<1>3. \A m \in Lines(Real(entries)) : m <= top
  BY <1>1, <1>2
<1> QED BY <1>1, <1>3 DEF Bounded

LEMMA HasBound ==
    ASSUME NEW entries \in SUBSET Entry, Bounded(Lines(Real(entries)))
    PROVE  \E n \in Nat : \A e \in entries : e.rule.line <= n
BY DEF Bounded, Lines, Real

LEMMA ToppedBounded ==
    ASSUME NEW entries \in SUBSET Entry, Topped(entries)
    PROVE  Bounded(Lines(Real(entries)))
<1>1. CASE entries = {}
  BY <1>1, BoundedBy
<1>2. CASE entries # {}
  <2>1. PICK e \in entries : \A other \in entries : other.rule.line <= e.rule.line
    BY <1>2 DEF Topped
  <2> QED BY <2>1, EntryType, BoundedBy
<1> QED BY <1>1, <1>2

LEMMA FewerBounded ==
    ASSUME NEW entries \in SUBSET Entry, Bounded(Lines(Real(entries))),
           NEW fewer \in SUBSET entries
    PROVE  fewer \in SUBSET Entry /\ Bounded(Lines(Real(fewer)))
BY HasBound, BoundedBy

LEMMA MoreBounded ==
    ASSUME NEW entries \in SUBSET Entry, Bounded(Lines(Real(entries))), NEW new \in Entry
    PROVE  entries \cup {new} \in SUBSET Entry /\ Bounded(Lines(Real(entries \cup {new})))
<1>1. PICK n \in Nat : \A e \in entries : e.rule.line <= n
  BY HasBound
<1> DEFINE top == IF new.rule.line > n THEN new.rule.line ELSE n
<1>2. new.rule.line \in Int /\ \A e \in entries : e.rule.line \in Int
  BY EntryType
<1>3. top \in Int /\ \A e \in entries \cup {new} : e.rule.line <= top
  BY <1>1, <1>2
<1>4. entries \cup {new} \in SUBSET Entry
  OBVIOUS
<1> HIDE DEF top
<1> QED BY <1>3, <1>4, BoundedBy

LEMMA LandedType ==
    ASSUME NEW entries \in SUBSET Entry, NEW p \in Proposal, platform \in Platforms,
           Bounded(Lines(Real(entries)))
    PROVE  Landed(p, entries) \in SUBSET Entry /\ Bounded(Lines(Real(Landed(p, entries))))
<1> DEFINE new == NewEntry(p, entries)
<1>1. new \in Entry /\ new.rule.line \in Int /\ CommandLine(p) \in Int
  BY NewEntryType, EntryType, CommandLineType
<1>2. PICK n \in Nat : \A e \in entries : e.rule.line <= n
  BY HasBound
<1> HIDE DEF new
<1> DEFINE top == IF new.rule.line > n + 1 THEN new.rule.line ELSE n + 1
<1>3. top \in Int /\ new.rule.line <= top /\ n + 1 <= top
  BY <1>1
<1> HIDE DEF top
<1>4. ASSUME NEW e \in Landed(p, entries)
      PROVE  e \in Entry /\ e.rule.line <= top
  <2>1. CASE e = new
    BY <1>1, <1>3, <2>1
  <2>2. ASSUME NEW old \in entries, e = old \/ e = PushOf(old, CommandLine(p))
        PROVE  e \in Entry /\ e.rule.line <= top
    <3>1. old \in Entry /\ old.rule.line \in Int /\ old.rule.line <= n
      BY <1>2, EntryType
    <3>2. e \in Entry /\ e.rule.line \in {old.rule.line, old.rule.line + 1}
      <4>1. /\ PushOf(old, CommandLine(p)) \in Entry
            /\ PushOf(old, CommandLine(p)).rule.line \in {old.rule.line, old.rule.line + 1}
        BY <1>1, <3>1, PushedEntry
      <4> QED BY <2>2, <3>1, <4>1
    <3> QED BY <1>3, <3>1, <3>2
  <2> QED BY <2>1, <2>2, LandedFrom DEF new
<1>5. Landed(p, entries) \in SUBSET Entry
  BY <1>4
<1> QED BY <1>3, <1>4, <1>5, BoundedBy

ClosedOf(e, doomed) ==
    IF \E d \in doomed : d.rule.line < e.rule.line THEN [e EXCEPT !.rule.line = @ - 1] ELSE e

LEMMA ClosedEntry ==
    ASSUME NEW e \in Entry, NEW doomed
    PROVE  /\ ClosedOf(e, doomed) \in Entry /\ ClosedOf(e, doomed).reads = e.reads
           /\ SameRule(ClosedOf(e, doomed).rule, e.rule)
           /\ (\E d \in doomed : d.rule.line < e.rule.line)
                 => ClosedOf(e, doomed).rule.line = e.rule.line - 1
           /\ ClosedOf(e, doomed).rule.line \in {e.rule.line, e.rule.line - 1}
BY DEF ClosedOf, Entry, AclRule, SameRule

LEMMA ClosedType ==
    ASSUME NEW entries \in SUBSET Entry, NEW doomed, Bounded(Lines(Real(entries)))
    PROVE  /\ Closed(entries, doomed) \in SUBSET Entry
           /\ Bounded(Lines(Real(Closed(entries, doomed))))
<1>1. Closed(entries, doomed) = {ClosedOf(e, doomed) : e \in entries \ doomed}
  BY DEF Closed, ClosedOf
<1>2. PICK n \in Nat : \A e \in entries : e.rule.line <= n
  BY HasBound
<1>3. ASSUME NEW e \in entries
      PROVE  ClosedOf(e, doomed) \in Entry /\ ClosedOf(e, doomed).rule.line <= n
  BY <1>2, EntryType, ClosedEntry
<1>4. Closed(entries, doomed) \in SUBSET Entry
  BY <1>1, <1>3
<1>5. \A e \in Closed(entries, doomed) : e.rule.line <= n
  BY <1>1, <1>3
<1> QED BY <1>4, <1>5, BoundedBy

LEMMA RemovedType ==
    ASSUME NEW entries \in SUBSET Entry, NEW p \in Proposal, Bounded(Lines(Real(entries)))
    PROVE  Removed(p, entries) \in SUBSET Entry /\ Bounded(Lines(Real(Removed(p, entries))))
<1>1. CASE Removed(p, entries) = Closed(entries, WithBody(p, entries))
  BY <1>1, ClosedType
<1>2. CASE Removed(p, entries) \in SUBSET entries
  BY <1>2, FewerBounded
<1> QED BY <1>1, <1>2 DEF Removed

-----------------------------------------------------------------------------
(* The inductive invariant.                                                *)

\* One flow is asked for at a time (handle_denied_flows).
OneFlow == \A flow, other \in evidence : flow = other

\* What is pending was passed with the evidence and the policy there are still.
VerifiedOk == action.verdict = "verified" =>
                 /\ ChangeOk(action.p, action.simulated, evidence)
                 /\ action.reversal.kind = "removal" =>
                       SameRule(action.reversal.body, action.p.body)

\* Nothing is pending before the gate, and nothing unverified passes it.
Gated == /\ run.at = "working" => action.verdict = "none"
         /\ run.at \in {"check", "send", "verify", "undo", "confirm"}
              => action.verdict = "verified"

Unsent == run.at \in {"working", "gate", "check", "send"} => run.sent = "no"

IInv == /\ TypeOK /\ Bounded(Lines(Real(device)))
        /\ OneFlow /\ VerifiedOk /\ Gated /\ Unsent

LEMMA PolicyType ==
    ASSUME TypeOK
    PROVE  /\ Policy \in SUBSET AclRule /\ Read(device) \in SUBSET AclRule
           /\ UseCache => view' \in [at : {"unread", "read"}, rules : SUBSET AclRule]
           /\ Refresh => view' \in [at : {"unread", "read"}, rules : SUBSET AclRule]
<1>1. device \in SUBSET Entry /\ view.rules \in SUBSET AclRule
  BY DEF TypeOK
<1>2. Read(device) \in SUBSET AclRule
  BY <1>1, ReadType
<1>3. Policy \in SUBSET AclRule
  BY <1>1, <1>2 DEF Policy
<1> QED BY <1>2, <1>3 DEF UseCache, Refresh

Places == {"working", "gate", "check", "send", "verify", "undo", "confirm",
           "applied", "rolled_back", "rollback_failed", "refused"}
RunType == [at : Places, before : SUBSET Entry, sent : {"no", "landed", "lost"}]
ActionType == [p : Proposal, reversal : [kind : {"removal", "rule"}, body : Body],
               verdict : {"none", "verified", "unverified"}, simulated : SUBSET AclRule]

LEMMA NoActionType ==
    NoAction \in ActionType /\ NoAction.verdict = "none"
    /\ NoRun \in RunType /\ NoRun.at = "working" /\ NoRun.sent = "no"
<1>1. {} \in Specs
  <2>1. Cardinality({}) = 0
    BY FS_EmptySet
  <2> QED BY <2>1 DEF Specs
<1>2. NoBody \in Body
  BY <1>1 DEF NoBody, Body
<1> QED BY <1>2 DEF NoAction, ActionType, Proposal, NoRun, RunType, Places

LEMMA GotoType ==
    ASSUME TypeOK, NEW place \in Places, Goto(place)
    PROVE  run' \in RunType /\ run'.at = place /\ run'.sent = run.sent
BY DEF TypeOK, RunType, Places, Goto

LEMMA ReversingType ==
    ASSUME NEW p \in Proposal, NEW authored \in Reversal
    PROVE  Reversing(p, authored) \in [kind : {"removal", "rule"}, body : Body]
BY DEF Reversing, Proposal, Reversal

LEMMA ReversedType ==
    ASSUME TypeOK, Bounded(Lines(Real(device)))
    PROVE  Reversed(device) \in SUBSET Entry /\ Bounded(Lines(Real(Reversed(device))))
<1> DEFINE p == [action.p EXCEPT !.body = action.reversal.body]
<1>1. device \in SUBSET Entry /\ platform \in Platforms
  BY DEF TypeOK
<1>2. action.p \in Proposal /\ action.reversal.body \in Body
  BY DEF TypeOK
<1>3. p \in Proposal
  BY <1>2 DEF Proposal
<1>4. Reversed(device) = IF action.reversal.kind = "removal" THEN Removed(p, device)
                         ELSE Landed(p, device)
  BY DEF Reversed
<1> HIDE DEF p
<1> QED BY <1>1, <1>3, <1>4, RemovedType, LandedType

LEMMA InitIInv == Init => IInv
<1> SUFFICES ASSUME Init PROVE IInv
  OBVIOUS
<1>1. PICK pair \in Initial : platform = pair[1] /\ device = pair[2]
  BY DEF Init
<1>2. platform \in Platforms /\ device \in SUBSET Entry /\ Topped(device)
  BY <1>1, ChangeAssumption
<1>3. Bounded(Lines(Real(device)))
  BY <1>2, ToppedBounded
<1>4. action \in ActionType /\ action.verdict = "none" /\ run \in RunType
      /\ run.at = "working" /\ run.sent = "no"
  BY NoActionType DEF Init
<1>5. TypeOK
  BY <1>2, <1>4, ChangeAssumption DEF Init, TypeOK, ActionType, RunType, Places
<1>6. OneFlow
  BY DEF Init, OneFlow
<1>7. VerifiedOk /\ Gated /\ Unsent
  BY <1>4 DEF VerifiedOk, Gated, Unsent
<1> QED BY <1>3, <1>5, <1>6, <1>7 DEF IInv

LEMMA GatherStep ==
    ASSUME IInv, Gather
    PROVE  IInv'
<1> USE DEF IInv
<1>1. PICK flow \in Queries :
           evidence' = IF /\ Verdict(Policy, flow) = "deny"
                          /\ \/ platform \in {"cisco_asa", "cisco_ios"}
                             \/ Hits(Policy, flow) # {}
                       THEN {flow} ELSE evidence
  BY DEF Gather
<1>2. /\ run.at = "working" /\ UseCache
      /\ UNCHANGED <<platform, device, attempts, action, run, edits>>
  BY DEF Gather
<1>3. view' \in [at : {"unread", "read"}, rules : SUBSET AclRule]
  BY <1>2, PolicyType
<1>4. evidence' \in {{flow}, evidence} /\ flow \in Flow
  BY <1>1, ChangeAssumption
<1>5. TypeOK'
  BY <1>2, <1>3, <1>4 DEF TypeOK
<1>6. OneFlow'
  BY <1>4 DEF OneFlow
<1>7. action.verdict = "none" /\ action' = action /\ run' = run /\ device' = device
  BY <1>2 DEF Gated
<1>8. VerifiedOk' /\ Gated' /\ Unsent'
  BY <1>7 DEF VerifiedOk, Gated, Unsent
<1> QED BY <1>5, <1>6, <1>7, <1>8

LEMMA ProposeStep ==
    ASSUME IInv, Propose
    PROVE  IInv'
<1> USE DEF IInv
<1>1. PICK p \in Proposals, authored \in Reversals :
           IF /\ ChangeOk(p, Policy, evidence)
              /\ RollbackOk(p, Reversing(p, authored), Policy, evidence)
           THEN Queue(p, Reversing(p, authored), "verified")
           ELSE IF attempts < MaxAttempts
                THEN attempts' = attempts + 1 /\ UNCHANGED <<action, run>>
                ELSE Queue(p, Reversing(p, authored), "unverified")
  BY DEF Propose
<1>2. /\ run.at = "working" /\ UseCache
      /\ UNCHANGED <<platform, device, evidence, edits>>
  BY DEF Propose
<1>3. view' \in [at : {"unread", "read"}, rules : SUBSET AclRule]
  BY <1>2, PolicyType
<1> DEFINE reversal == Reversing(p, authored)
<1>4. /\ p \in Proposal /\ Policy \in SUBSET AclRule
      /\ reversal \in [kind : {"removal", "rule"}, body : Body]
  BY PolicyType, ReversingType, ChangeAssumption
<1> HIDE DEF reversal
<1>5. CASE attempts < MaxAttempts /\ attempts' = attempts + 1 /\ UNCHANGED <<action, run>>
  <2>1. TypeOK'
    BY <1>2, <1>3, <1>5, ChangeAssumption DEF TypeOK
  <2> QED BY <1>2, <1>5, <2>1 DEF OneFlow, VerifiedOk, Gated, Unsent
<1>6. ASSUME NEW verdict \in {"verified", "unverified"}, Queue(p, reversal, verdict),
             verdict = "verified" => /\ ChangeOk(p, Policy, evidence)
                                     /\ RollbackOk(p, reversal, Policy, evidence)
      PROVE  IInv'
  <2>1. /\ action' = [p |-> p, reversal |-> reversal, verdict |-> verdict, simulated |-> Policy]
        /\ attempts' = attempts
    BY <1>6 DEF Queue
  <2>2. /\ action' \in ActionType /\ action'.p = p /\ action'.verdict = verdict
        /\ action'.simulated = Policy /\ action'.reversal = reversal
    BY <1>4, <2>1 DEF ActionType
  <2>3. run' \in RunType /\ run'.at = "gate" /\ run'.sent = run.sent
    BY <1>6, GotoType DEF Queue, Places
  <2>4. TypeOK'
    BY <1>2, <1>3, <2>1, <2>2, <2>3 DEF TypeOK, ActionType, RunType, Places
  <2>5. VerifiedOk'
    BY <1>2, <1>6, <2>2 DEF VerifiedOk, RollbackOk
  <2>6. Gated' /\ Unsent'
    BY <1>2, <2>3 DEF Gated, Unsent
  <2> QED BY <1>2, <2>4, <2>5, <2>6 DEF OneFlow
<1> QED BY <1>1, <1>5, <1>6 DEF reversal

\* A step of the incident that changes neither the device nor what is pending.
LEMMA PlaceStep ==
    ASSUME IInv, NEW place \in Places \ {"working"},
           run' \in RunType, run'.at = place, run'.sent = run.sent,
           view' \in [at : {"unread", "read"}, rules : SUBSET AclRule],
           UNCHANGED <<platform, device, evidence, attempts, action, edits>>,
           place \in {"check", "send", "verify", "undo", "confirm"} =>
              action.verdict = "verified",
           place \in {"gate", "check", "send"} => run.sent = "no"
    PROVE  IInv'
<1> USE DEF IInv
<1>1. TypeOK'
  BY DEF TypeOK, RunType, Places
<1>2. OneFlow' /\ VerifiedOk'
  BY DEF OneFlow, VerifiedOk
<1>3. Gated' /\ Unsent'
  BY DEF Gated, Unsent, Places
<1> QED BY <1>1, <1>2, <1>3

LEMMA ApproveStep ==
    ASSUME IInv, Approve
    PROVE  IInv'
<1>1. TypeOK /\ run.at = "gate" /\ run.sent = "no"
  BY DEF IInv, Approve, Unsent
<1> DEFINE place == IF action.verdict = "verified" /\ evidence # {} THEN "check" ELSE "refused"
<1>2. run' \in RunType /\ run'.at = place /\ run'.sent = run.sent /\ place \in Places
  BY <1>1, GotoType DEF Approve, Places
<1>3. view' \in [at : {"unread", "read"}, rules : SUBSET AclRule]
  BY <1>1, PolicyType DEF Approve
<1> QED BY <1>1, <1>2, <1>3, PlaceStep DEF Approve, Places

LEMMA CheckStep ==
    ASSUME IInv, Check
    PROVE  IInv'
<1>1. TypeOK /\ run.at = "check" /\ run.sent = "no" /\ action.verdict = "verified"
  BY DEF IInv, Check, Unsent, Gated
<1> DEFINE place == IF Has(Read(device), action.p.body) THEN "verify" ELSE "send"
<1>2. run' = [run EXCEPT !.before = device, !.at = place]
  BY DEF Check
<1>3. place \in {"verify", "send"}
  OBVIOUS
<1> HIDE DEF place
<1>4. run' \in RunType /\ run'.at = place /\ run'.sent = run.sent
  BY <1>1, <1>2, <1>3 DEF TypeOK, RunType, Places
<1>5. view' \in [at : {"unread", "read"}, rules : SUBSET AclRule]
  BY <1>1, PolicyType DEF Check
<1> QED BY <1>1, <1>3, <1>4, <1>5, PlaceStep DEF Check, Places

LEMMA VerifyStep ==
    ASSUME IInv, VerifyApplied \/ VerifyReverted
    PROVE  IInv'
<1>1. TypeOK /\ action.verdict = "verified" /\ Refresh
      /\ UNCHANGED <<platform, device, evidence, attempts, action, edits>>
  BY DEF IInv, VerifyApplied, VerifyReverted, Gated
<1>2. \E place \in {"applied", "undo", "rolled_back", "rollback_failed"} : Goto(place)
  BY DEF VerifyApplied, VerifyReverted
<1>3. PICK place \in {"applied", "undo", "rolled_back", "rollback_failed"} : Goto(place)
  BY <1>2
<1>4. place \in Places \ {"working"} /\ place \notin {"gate", "check", "send"}
  BY DEF Places
<1>5. run' \in RunType /\ run'.at = place /\ run'.sent = run.sent
  BY <1>1, <1>3, <1>4, GotoType
<1>6. view' \in [at : {"unread", "read"}, rules : SUBSET AclRule]
  BY <1>1, PolicyType
<1> QED BY <1>1, <1>4, <1>5, <1>6, PlaceStep

\* A step that changes the device, and whatever it is the executor does.
LEMMA DeviceStep ==
    ASSUME IInv, device' \in SUBSET Entry, Bounded(Lines(Real(device))'),
           UNCHANGED <<platform, view, evidence, attempts, action>>,
           edits' \in 0..MaxEdits, run' \in RunType,
           run' = run \/ run'.at \in {"verify", "undo", "confirm", "rollback_failed"},
           action.verdict = "verified" \/ run' = run
    PROVE  IInv'
<1> USE DEF IInv
<1>1. TypeOK'
  BY DEF TypeOK, RunType, Places
<1>2. OneFlow' /\ VerifiedOk'
  BY DEF OneFlow, VerifiedOk
<1>3. Gated' /\ Unsent'
  BY DEF Gated, Unsent
<1>4. Bounded(Lines(Real(device)))'
  BY DEF Bounded
<1> QED BY <1>1, <1>2, <1>3, <1>4

LEMMA OthersStep ==
    ASSUME IInv, OthersRefresh
    PROVE  IInv'
<1>1. TypeOK /\ view' \in [at : {"unread", "read"}, rules : SUBSET AclRule]
  BY PolicyType DEF OthersRefresh, IInv
<1>2. UNCHANGED <<platform, device, evidence, attempts, action, run, edits>>
  BY DEF OthersRefresh
<1>3. TypeOK'
  BY <1>1, <1>2 DEF TypeOK
<1> QED BY <1>2, <1>3 DEF IInv, OneFlow, VerifiedOk, Gated, Unsent

LEMMA EditStep ==
    ASSUME IInv, Edit
    PROVE  IInv'
<1>1. /\ device \in SUBSET Entry /\ Bounded(Lines(Real(device)))
      /\ edits \in 0..MaxEdits /\ run \in RunType
  BY DEF IInv, TypeOK, RunType, Places
<1>2. edits' \in 0..MaxEdits
  BY <1>1, ChangeAssumption DEF Edit
<1>3. PICK e \in Foreign : device' = device \ {e} \/ device' = device \cup {e}
  BY DEF Edit
<1>4. e \in Entry
  BY ChangeAssumption
<1>5. device' \in SUBSET Entry /\ Bounded(Lines(Real(device')))
  <2>1. CASE device' = device \ {e}
    BY <1>1, <2>1, FewerBounded
  <2>2. CASE device' = device \cup {e}
    BY <1>1, <1>4, <2>2, MoreBounded
  <2> QED BY <1>3, <2>1, <2>2
<1>6. Lines(Real(device))' = Lines(Real(device'))
  BY DEF Lines, Real
<1> QED BY <1>1, <1>2, <1>5, <1>6, DeviceStep DEF Edit

LEMMA SendStep ==
    ASSUME IInv, Send
    PROVE  IInv'
<1>1. /\ TypeOK /\ device \in SUBSET Entry /\ Bounded(Lines(Real(device)))
      /\ edits \in 0..MaxEdits /\ action.p \in Proposal /\ platform \in Platforms
      /\ action.verdict = "verified" /\ run.at = "send"
  BY DEF IInv, TypeOK, Send, Gated
<1>2. PICK sent \in {"landed", "lost"}, place \in {"verify", "undo"} :
           Sent(place, sent) /\ device' \in {device, Landed(action.p, device)}
  BY DEF Send
<1>3. run' \in RunType /\ run'.at = place
  BY <1>1, <1>2 DEF Sent, TypeOK, RunType, Places
<1>4. device' \in SUBSET Entry /\ Bounded(Lines(Real(device')))
  BY <1>1, <1>2, LandedType
<1>5. Lines(Real(device))' = Lines(Real(device'))
  BY DEF Lines, Real
<1> QED BY <1>1, <1>3, <1>4, <1>5, DeviceStep DEF Send

LEMMA UndoStep ==
    ASSUME IInv, Undo
    PROVE  IInv'
<1>1. /\ TypeOK /\ device \in SUBSET Entry /\ Bounded(Lines(Real(device)))
      /\ edits \in 0..MaxEdits /\ action.verdict = "verified"
  BY DEF IInv, TypeOK, Undo, Gated
<1>2. PICK place \in {"confirm", "rollback_failed"} :
           Goto(place) /\ device' \in {device, Reversed(device)}
  BY DEF Undo
<1>3. run' \in RunType /\ run'.at = place
  BY <1>1, <1>2, GotoType DEF Places
<1>4. device' \in SUBSET Entry /\ Bounded(Lines(Real(device')))
  BY <1>1, <1>2, ReversedType
<1>5. Lines(Real(device))' = Lines(Real(device'))
  BY DEF Lines, Real
<1> QED BY <1>1, <1>3, <1>4, <1>5, DeviceStep DEF Undo

\* Nothing is pending any more.
LEMMA ResetStep ==
    ASSUME IInv, Reject \/ NextIncident
    PROVE  IInv'
<1>1. /\ action' = NoAction /\ run' = NoRun
      /\ UNCHANGED <<platform, device, view, edits>>
      /\ evidence' \in {evidence, {}} /\ attempts' \in {attempts, 0}
  BY DEF Reject, NextIncident
<1>2. /\ action' \in ActionType /\ action'.verdict = "none"
      /\ run' \in RunType /\ run'.at = "working" /\ run'.sent = "no"
  BY <1>1, NoActionType
<1>3. TypeOK'
  BY <1>1, <1>2, ChangeAssumption DEF IInv, TypeOK, ActionType, RunType, Places
<1>4. OneFlow'
  BY <1>1 DEF IInv, OneFlow
<1>5. VerifiedOk' /\ Gated' /\ Unsent'
  BY <1>2 DEF VerifiedOk, Gated, Unsent
<1> QED BY <1>1, <1>3, <1>4, <1>5 DEF IInv

LEMMA NextIInv == IInv /\ [Next]_vars => IInv'
<1> SUFFICES ASSUME IInv, [Next]_vars PROVE IInv'
  OBVIOUS
<1>1. CASE OthersRefresh
  BY <1>1, OthersStep
<1>2. CASE Edit
  BY <1>2, EditStep
<1>3. CASE Gather
  BY <1>3, GatherStep
<1>4. CASE Propose
  BY <1>4, ProposeStep
<1>5. CASE Approve
  BY <1>5, ApproveStep
<1>6. CASE Reject \/ NextIncident
  BY <1>6, ResetStep
<1>7. CASE Check
  BY <1>7, CheckStep
<1>8. CASE Send
  BY <1>8, SendStep
<1>9. CASE VerifyApplied \/ VerifyReverted
  BY <1>9, VerifyStep
<1>10. CASE Undo
  BY <1>10, UndoStep
<1>11. CASE UNCHANGED vars
  BY <1>11 DEF vars, IInv, TypeOK, OneFlow, VerifiedOk, Gated, Unsent
<1> QED BY <1>1, <1>2, <1>3, <1>4, <1>5, <1>6, <1>7, <1>8, <1>9, <1>10, <1>11 DEF Next

\* The inductive invariant holds of every behaviour.
THEOREM Inductive == Spec => []IInv
<1>1. Init => IInv
  BY InitIInv
<1>2. IInv /\ [Next]_vars => IInv'
  BY NextIInv
<1> QED BY <1>1, <1>2, PTL DEF Spec

\* The types of everything an incident keeps, and at most the attempts and the
\* edits there may be.
THEOREM TypeCorrect == Spec => []TypeOK
<1>1. IInv => TypeOK
  BY DEF IInv
<1> QED BY <1>1, Inductive, PTL

-----------------------------------------------------------------------------
(* The two promises.                                                       *)

\* Nothing lands but the command that was verified.
LEMMA LandingIs ==
    ASSUME IInv, [Next]_vars, Landing
    PROVE  /\ device' = Landed(action.p, device) /\ UNCHANGED <<platform, evidence, action>>
           /\ ChangeOk(action.p, action.simulated, evidence)
<1>1. run.at = "send" /\ run.sent = "no" /\ run'.sent = "landed"
  BY DEF IInv, Unsent, Landing
<1>2. ~UNCHANGED run
  BY <1>1
<1>3. Send
  BY <1>1, <1>2 DEF Next, vars, OthersRefresh, Edit, Gather, Propose, Approve, Reject, Check,
                    VerifyApplied, Undo, VerifyReverted, NextIncident
<1>4. device' = Landed(action.p, device)
  <2>1. run \in RunType
    BY DEF IInv, TypeOK, RunType, Places
  <2>2. \A place : ~Sent(place, "lost")
    BY <1>1, <2>1 DEF Sent, RunType
  <2> QED BY <1>3, <2>2 DEF Send
<1>5. action.verdict = "verified"
  BY <1>1 DEF IInv, Gated
<1> QED BY <1>3, <1>4, <1>5 DEF Send, IInv, VerifiedOk

\* A blocked flow is permitted as soon as the verified command has landed, when
\* the policy is still the one that was simulated (verify_change, guard.check
\* and device_commands), for every policy and platform, and for every proposal
\* that the device takes at the line where it was simulated (SameLine, a number
\* that IOS and EOS do not refuse) and that the policy does not have yet.
THEOREM SimulationAgreesAlways == Spec => SimulationAgrees
<1>1. ASSUME IInv, [Next]_vars, Landing, Read(device) = action.simulated,
             SameLine(action.p), ~Has(Read(device), action.p.body),
             platform \in {"cisco_ios", "arista_eos"} => ~LineTaken(action.p, device),
             NEW flow \in evidence, Verdict(Read(device), flow) = "deny"
      PROVE  Verdict(Real(device'), flow) = "permit"
  <2>1. /\ device' = Landed(action.p, device)
        /\ ChangeOk(action.p, Read(device), evidence)
    BY <1>1, LandingIs
  <2>2. /\ ~UnmodelledAbove(Read(device), SimulatedLine(action.p, Read(device)))
        /\ Verdict(Read(device) \cup {Simulated(action.p, Read(device))}, flow) = "permit"
    BY <1>1, <2>1 DEF ChangeOk
  <2>3. Taken(action.p, device)
    BY <1>1 DEF Taken
  <2>4. /\ device \in SUBSET Entry /\ platform \in Platforms /\ action.p \in Proposal
        /\ flow \in Flow /\ Bounded(Lines(Real(device)))
    BY <1>1 DEF IInv, TypeOK
  <2>5. Verdict(Real(Landed(action.p, device)), flow) = "permit"
    BY <1>1, <2>2, <2>3, <2>4, LandsAsSimulated
  <2> QED BY <2>1, <2>5
<1>2. IInv /\ [Next]_vars =>
        [(/\ Landing /\ Read(device) = action.simulated
          /\ SameLine(action.p) /\ ~Has(Read(device), action.p.body)
          /\ (platform \in {"cisco_ios", "arista_eos"} => ~LineTaken(action.p, device)))
         => \A flow \in evidence :
               Verdict(Read(device), flow) = "deny" => Verdict(Real(device'), flow) = "permit"]_vars
  BY <1>1
<1> QED BY <1>2, Inductive, PTL DEF Spec, SimulationAgrees

\* Whatever operators have done meanwhile, a change that carried the flow in the
\* simulation opens no flow of another address or port (scope_findings) but those
\* that were decided by an entry it overwrites on SR Linux, for every set of
\* addresses, policy, proposal and platform.
THEOREM NothingElseOpenedAlways == Spec => NothingElseOpened
<1>1. ASSUME IInv, [Next]_vars, Landing,
             Carries(action.p, action.simulated, evidence),
             NEW flow \in Flow, Opened(flow)
      PROVE  \/ \E blocked \in evidence : /\ flow.src = blocked.src
                                          /\ flow.dst = blocked.dst
                                          /\ flow.port = blocked.port
             \/ DecidedByOverwritten(flow)
  <2>1. /\ device' = Landed(action.p, device)
        /\ ChangeOk(action.p, action.simulated, evidence)
    BY <1>1, LandingIs
  <2>2. /\ device \in SUBSET Entry /\ platform \in Platforms /\ action.p \in Proposal
        /\ evidence \in SUBSET Flow /\ Bounded(Lines(Real(device))) /\ OneFlow
        /\ action.p.body \in Body
    BY <1>1, CommandLineType DEF IInv, TypeOK
  <2>3. InScope(action.p.body, evidence)
    BY <1>1, <2>1 DEF ChangeOk
  <2>4. PICK blocked \in evidence :
             Simulated(action.p, action.simulated)
               \in FirstHits(action.simulated \cup {Simulated(action.p, action.simulated)}, blocked)
    BY <1>1 DEF Carries
  <2>5. evidence = {blocked} /\ blocked \in Flow
    BY <2>2 DEF OneFlow
  <2>6. Matches(Simulated(action.p, action.simulated), blocked)
    BY <2>4 DEF FirstHits, Hits
  <2>7. Matches(action.p.body, blocked)
    BY <2>6, <2>2 DEF Simulated, Placed, Matches, Body
  <2>8. /\ InScope(action.p.body, {blocked})
        /\ Verdict(Real(device), flow) = "deny"
        /\ Verdict(Real(Landed(action.p, device)), flow) = "permit"
    BY <1>1, <2>1, <2>3, <2>5 DEF Opened
  <2>9. \/ flow.src = blocked.src /\ flow.dst = blocked.dst /\ flow.port = blocked.port
        \/ /\ platform = "nokia_srl"
           /\ \E rule \in FirstHits(Real(device), flow) : rule.line = CommandLine(action.p)
    BY <2>2, <2>5, <2>7, <2>8, OpensOnlyTheEvidence
  <2> QED BY <2>9 DEF DecidedByOverwritten
<1>2. IInv /\ [Next]_vars =>
        [Landing /\ Carries(action.p, action.simulated, evidence)
         => \A flow \in Flow :
               Opened(flow) => \/ \E blocked \in evidence : /\ flow.src = blocked.src
                                                            /\ flow.dst = blocked.dst
                                                            /\ flow.port = blocked.port
                               \/ DecidedByOverwritten(flow)]_vars
  BY <1>1
<1> QED BY <1>2, Inductive, PTL DEF Spec, NothingElseOpened

-----------------------------------------------------------------------------
(* What is taken back leaves no trace.                                     *)

LEMMA SameBody ==
    ASSUME NEW left \in Body, NEW right \in Body, SameRule(left, right)
    PROVE  left = right
BY DEF Body, SameRule

\* Before the command there was no entry of its body, and after it one.
LEMMA NoneOfTheBody ==
    ASSUME NEW entries \in SUBSET Entry, NEW p \in Proposal, ~Has(Read(entries), p.body),
           NEW e \in entries
    PROVE  ~(e.reads = "rule" /\ SameRule(e.rule, p.body))
<1>1. SUFFICES ASSUME e.reads = "rule", SameRule(e.rule, p.body) PROVE FALSE
  OBVIOUS
<1>2. ReadOf(e) = e.rule /\ ReadOf(e) \in Read(entries)
  BY <1>1, ReadEntry, ReadType
<1> QED BY <1>1, <1>2 DEF Has

\* The entries of the body after the new entry has come to old ones that were
\* pushed, or left where they were.
LEMMA OneOfTheBody ==
    ASSUME NEW entries \in SUBSET Entry, NEW p \in Proposal, ~Has(Read(entries), p.body),
           NEW line \in Int, NEW new \in Entry, new.reads = "rule", SameRule(new.rule, p.body)
    PROVE  /\ WithBody(p, Pushed(entries, line) \cup {new}) = {new}
           /\ new \notin Pushed(entries, line)
<1>1. ASSUME NEW e \in Pushed(entries, line)
      PROVE  ~(e.reads = "rule" /\ SameRule(e.rule, p.body))
  <2>1. PICK old \in entries : e = PushOf(old, line)
    BY PushedIs
  <2>2. e.reads = old.reads /\ SameRule(e.rule, old.rule)
    BY <2>1, PushedEntry
  <2>3. ~(old.reads = "rule" /\ SameRule(old.rule, p.body))
    BY NoneOfTheBody
  <2> QED BY <2>2, <2>3 DEF SameRule
<1> QED BY <1>1 DEF WithBody

LEMMA OneAddedOfTheBody ==
    ASSUME NEW entries \in SUBSET Entry, NEW p \in Proposal, ~Has(Read(entries), p.body),
           NEW new \in Entry, new.reads = "rule", SameRule(new.rule, p.body)
    PROVE  WithBody(p, entries \cup {new}) = {new} /\ new \notin entries
<1>1. \A e \in entries : ~(e.reads = "rule" /\ SameRule(e.rule, p.body))
  BY NoneOfTheBody
<1> QED BY <1>1 DEF WithBody

LEMMA SameEntry ==
    ASSUME NEW left \in Entry, NEW right \in Entry, left.reads = right.reads,
           SameRule(left.rule, right.rule), left.rule.line = right.rule.line
    PROVE  left = right
<1>1. left.rule \in AclRule /\ right.rule \in AclRule /\ left.rule.nth = right.rule.nth
  BY EntryType
<1>2. left.rule = right.rule
  BY <1>1 DEF AclRule, SameRule
<1> QED BY <1>2 DEF Entry

LEMMA PushedBack ==
    ASSUME NEW e \in Entry, NEW line \in Int, NEW new \in Entry,
           line # 0 => new.rule.line = line,
           line = 0 => e.rule.line < new.rule.line
    PROVE  ClosedOf(PushOf(e, line), {new}) = e
<1>1. e.rule.line \in Int /\ new.rule.line \in Int
  BY EntryType
<1>2. CASE line # 0 /\ e.rule.line >= line
  <2>1. /\ PushOf(e, line) \in Entry /\ PushOf(e, line).reads = e.reads
        /\ SameRule(PushOf(e, line).rule, e.rule)
        /\ PushOf(e, line).rule.line = e.rule.line + 1
    BY <1>2, PushedEntry
  <2> DEFINE pushed == PushOf(e, line)
             closed == ClosedOf(pushed, {new})
  <2>2. \E d \in {new} : d.rule.line < pushed.rule.line
    BY <1>1, <1>2, <2>1
  <2>3. /\ closed \in Entry /\ closed.reads = pushed.reads /\ SameRule(closed.rule, pushed.rule)
        /\ closed.rule.line = pushed.rule.line - 1
    BY <2>1, <2>2, ClosedEntry
  <2> HIDE DEF pushed, closed
  <2>4. closed.reads = e.reads /\ SameRule(closed.rule, e.rule)
        /\ closed.rule.line = e.rule.line
    BY <1>1, <2>1, <2>3 DEF pushed, SameRule
  <2>5. closed = e
    BY <2>3, <2>4, SameEntry
  <2> QED BY <2>5 DEF closed, pushed
<1>3. CASE ~(line # 0 /\ e.rule.line >= line)
  <2>1. PushOf(e, line) = e
    BY <1>3 DEF PushOf
  <2>2. ~(new.rule.line < e.rule.line)
    BY <1>1, <1>3
  <2> QED BY <2>1, <2>2 DEF ClosedOf
<1> QED BY <1>2, <1>3

LEMMA PushedAndClosed ==
    ASSUME NEW entries \in SUBSET Entry, NEW p \in Proposal, ~Has(Read(entries), p.body),
           NEW line \in Int, NEW new \in Entry, new.reads = "rule", SameRule(new.rule, p.body),
           line # 0 => new.rule.line = line,
           line = 0 => \A e \in entries : e.rule.line < new.rule.line
    PROVE  LET after == Pushed(entries, line) \cup {new}
           IN Closed(after, WithBody(p, after)) = entries
<1> DEFINE after == Pushed(entries, line) \cup {new}
<1>1. WithBody(p, after) = {new} /\ after \ {new} = Pushed(entries, line)
  BY OneOfTheBody
<1>2. Closed(after, {new}) = {ClosedOf(e, {new}) : e \in after \ {new}}
  BY DEF Closed, ClosedOf
<1>3. Closed(after, {new}) = {ClosedOf(PushOf(e, line), {new}) : e \in entries}
  BY <1>1, <1>2, PushedIs
<1>4. \A e \in entries : ClosedOf(PushOf(e, line), {new}) = e
  BY PushedBack
<1> QED BY <1>1, <1>3, <1>4

LEMMA RemovedIsBefore ==
    ASSUME NEW entries \in SUBSET Entry, NEW p \in Proposal, platform \in Platforms,
           Bounded(Lines(Real(entries))), ~Has(Read(entries), p.body),
           platform # "cisco_asa" => ~LineTaken(p, entries)
    PROVE  Removed(p, Landed(p, entries)) = entries
<1> DEFINE new == NewEntry(p, entries)
           line == CommandLine(p)
<1>1. /\ new \in Entry /\ new.reads = "rule" /\ SameRule(new.rule, p.body)
      /\ line # 0 => new.rule.line = line
      /\ line = 0 => new.rule.line = LastLine(Lines(Real(entries))) + 10
      /\ line \in Int
  BY NewEntryType, CommandLineType
<1>2. line = 0 => \A e \in entries : e.rule.line < new.rule.line
  <2>1. SUFFICES ASSUME line = 0, NEW e \in entries PROVE e.rule.line < new.rule.line
    OBVIOUS
  <2>2. e.rule.line \in Lines(Real(entries)) /\ e.rule.line \in Int
    BY EntryType DEF Lines, Real
  <2>3. LastLine(Lines(Real(entries))) \in Int /\ e.rule.line <= LastLine(Lines(Real(entries)))
    BY <2>2, RealLines, LastLineIs
  <2> QED BY <1>1, <2>1, <2>2, <2>3
<1>3. CASE ~Rendered(p)
  BY <1>3 DEF Landed, Removed
<1>4. CASE Rendered(p) /\ platform = "cisco_asa"
  <2>1. Landed(p, entries) = Pushed(entries, line) \cup {new}
    BY <1>4 DEF Landed
  <2>2. Removed(p, Landed(p, entries)) = Closed(Landed(p, entries), WithBody(p, Landed(p, entries)))
    BY <1>4 DEF Removed
  <2> QED BY <1>1, <1>2, <2>1, <2>2, PushedAndClosed
<1>5. CASE Rendered(p) /\ platform # "cisco_asa"
  <2>1. Landed(p, entries) = entries \cup {new}
    <3>1. CASE platform = "nokia_srl"
      <4>1. line # 0 /\ line \notin Lines(Real(entries))
        BY <1>5, <3>1 DEF LineTaken, Rendered, CommandLine
      <4>2. {e \in entries : e.rule.line # line} = entries
        BY <4>1 DEF Lines, Real
      <4> QED BY <1>5, <3>1, <4>2 DEF Landed, Overwritten
    <3>2. CASE platform # "nokia_srl"
      BY <1>5, <3>2 DEF Landed, Platforms
    <3> QED BY <3>1, <3>2
  <2>2. WithBody(p, entries \cup {new}) = {new} /\ new \notin entries
    BY <1>1, OneAddedOfTheBody
  <2>3. CASE platform = "cisco_ios" \/ (platform = "arista_eos" /\ p.position = 0)
    <3>1. Removed(p, entries \cup {new})
            = (entries \cup {new}) \ {e \in {new} : line \in {0, e.rule.line}}
      BY <1>5, <2>2, <2>3 DEF Removed
    <3>2. {e \in {new} : line \in {0, e.rule.line}} = {new}
      BY <1>1
    <3> QED BY <2>1, <2>2, <3>1, <3>2
  <2>4. CASE ~(platform = "cisco_ios" \/ (platform = "arista_eos" /\ p.position = 0))
    <3>1. line = p.position /\ line # 0
      BY <1>5, <2>4, CommandLineType DEF CommandLine, Rendered, Platforms
    <3>2. Removed(p, entries \cup {new}) = {e \in entries \cup {new} : e.rule.line # line}
      BY <1>5, <2>4, <3>1 DEF Removed
    <3>3. \A e \in entries : e.rule.line # line
      BY <1>5, <3>1 DEF LineTaken, Lines, Real
    <3> QED BY <1>1, <2>1, <3>1, <3>2, <3>3
  <2> QED BY <2>3, <2>4
<1> QED BY <1>3, <1>4, <1>5

\* The entries before a command landed are bounded if those after it are.
LEMMA BoundedBefore ==
    ASSUME NEW entries \in SUBSET Entry, NEW p \in Proposal, platform \in Platforms,
           platform = "nokia_srl" => ~LineTaken(p, entries),
           NEW n \in Int, \A e \in Landed(p, entries) : e.rule.line <= n
    PROVE  Bounded(Lines(Real(entries)))
<1>1. CASE Landed(p, entries) = entries
  BY <1>1, BoundedBy
<1>2. ASSUME NEW line \in Int,
             Landed(p, entries) = Pushed(entries, line) \cup {NewEntry(p, entries)}
      PROVE  Bounded(Lines(Real(entries)))
  <2>1. ASSUME NEW e \in entries PROVE e.rule.line <= n
    <3>1. PushOf(e, line) \in Landed(p, entries)
      BY <1>2, PushedIs
    <3>2. e.rule.line \in Int /\ PushOf(e, line).rule.line \in {e.rule.line, e.rule.line + 1}
      BY EntryType, PushedEntry
    <3>3. PushOf(e, line).rule.line <= n
      BY <3>1
    <3> QED BY <3>2, <3>3
  <2> QED BY <2>1, BoundedBy
<1> QED BY <1>1, <1>2, LandedIs

\* Reversing a change that landed on a device without its rule brings back the
\* entries there were, with their lines (device._revert, Policy.remove), for
\* every policy, proposal and platform.
THEOREM ReversalRestoresAlways == Spec => ReversalRestores
<1>1. ASSUME IInv, run.at = "undo", device' = Reversed(device),
             ~Has(Read(run.before), action.p.body), action.reversal.kind = "removal",
             device = Landed(action.p, run.before),
             platform # "cisco_asa" => ~LineTaken(action.p, run.before)
      PROVE  device' = run.before
  <2>1. /\ run.before \in SUBSET Entry /\ device \in SUBSET Entry /\ platform \in Platforms
        /\ action.p \in Proposal /\ action.reversal.body \in Body /\ action.p.body \in Body
        /\ Bounded(Lines(Real(device)))
    BY <1>1, CommandLineType DEF IInv, TypeOK
  <2>2. action.reversal.body = action.p.body
    <3>1. SameRule(action.reversal.body, action.p.body)
      BY <1>1 DEF IInv, Gated, VerifiedOk
    <3> QED BY <2>1, <3>1, SameBody
  <2>3. [action.p EXCEPT !.body = action.reversal.body] = action.p
    BY <2>1, <2>2 DEF Proposal
  <2>4. Reversed(device) = Removed(action.p, device)
    BY <1>1, <2>3 DEF Reversed
  <2>5. PICK n \in Nat : \A e \in device : e.rule.line <= n
    BY <2>1, HasBound
  <2>6. Bounded(Lines(Real(run.before)))
    BY <1>1, <2>1, <2>5, BoundedBefore
  <2> QED BY <1>1, <2>1, <2>4, <2>6, RemovedIsBefore
<1>2. IInv /\ [Next]_vars =>
        [(/\ run.at = "undo" /\ run'.at = "confirm" /\ device' = Reversed(device)
          /\ ~Has(Read(run.before), action.p.body) /\ action.reversal.kind = "removal"
          /\ device = Landed(action.p, run.before)
          /\ (platform # "cisco_asa" => ~LineTaken(action.p, run.before)))
         => device' = run.before]_vars
  BY <1>1
<1> QED BY <1>2, Inductive, PTL DEF Spec, ReversalRestores
=============================================================================
