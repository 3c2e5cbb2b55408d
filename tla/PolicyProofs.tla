---------------------------- MODULE PolicyProofs ----------------------------
(***************************************************************************)
(* Proofs about Policy: for every configuration, every zones file and every *)
(* flowtable, the rules are the mappings and enforce nothing twice.        *)
(***************************************************************************)
EXTENDS PolicyProperties, TLAPS

\* The overlap that validate looks for is absent from a document.
Screened(doc) ==
    ~config.allowOverlap /\ XdpInterfaces(doc, config) # {} => ~Overlaps(doc, config)

\* What was validated still holds when Daemon::new reads the zones again.
ValidatedOK == pc = "new" /\ ~stale => Screened(LoadZones(config))

\* What Daemon::new computed.
RulesOK ==
    pc \in {"printed", "flowtables", "xdp", "up"} =>
        /\ zones \in Documents
        /\ ValidZones(zones)
        /\ \A m \in config.rules : Resolvable(zones, m)
        /\ rules = Render(zones, config.rules)
        /\ pc # "printed" => protected = Protected(rules)

ScreenedOK == pc \in {"flowtables", "xdp", "up"} /\ ~stale => Screened(zones)

AttachedOK == pc = "up" => attached = XdpInterfaces(zones, config)

FlowtablesOK ==
    pc \in {"xdp", "up"} /\ ~config.allowBypass /\ ~late => flowtables \cap protected = {}

IInv == TypeOK /\ ValidatedOK /\ RulesOK /\ ScreenedOK /\ AttachedOK /\ FlowtablesOK

-----------------------------------------------------------------------------
(* Zones and rules                                                         *)

LEMMA EntriesTyped ==
    ASSUME NEW doc \in Documents, NEW n \in 1..Len(doc)
    PROVE  doc[n] \in ZoneEntry
  BY PolicyAssumption DEF PolicyAssumption

LEMMA ExpandTyped ==
    ASSUME NEW doc \in Documents, NEW names
    PROVE  Expand(doc, names) \subseteq Interfaces
  BY EntriesTyped DEF Expand, Members, ZoneEntry

LEMMA XdpTyped ==
    ASSUME NEW doc \in Documents, NEW c
    PROVE  XdpInterfaces(doc, c) \subseteq Interfaces
  BY ExpandTyped DEF XdpInterfaces

LEMMA LoadedZones ==
    ASSUME TypeOK, LoadZones(config) # None
    PROVE  LoadZones(config) \in Documents /\ ValidZones(LoadZones(config))
  BY DEF LoadZones, TypeOK, Config

LEMMA RenderTyped ==
    ASSUME NEW doc \in Documents, NEW mappings \in SUBSET Mapping
    PROVE  Render(doc, mappings) \subseteq Rule
<1> SUFFICES ASSUME NEW m \in mappings
             PROVE  Rendered(m, Expand(doc, m.ingress), Expand(doc, m.egress)) \subseteq Rule
  BY DEF Render
<1>1. /\ Alternatives(Expand(doc, m.ingress)) \subseteq Interfaces \cup {None}
      /\ Alternatives(Expand(doc, m.egress)) \subseteq Interfaces \cup {None}
  BY ExpandTyped DEF Alternatives
<1>2. m.chain \in Chains /\ m.blocklist \in Directions
  BY DEF Mapping
<1> QED
  BY <1>1, <1>2 DEF Rendered, Rule, AddressField

\* A set of alternatives admits an interface that is among them, or any if there
\* are none.
LEMMA AlternativesAdmit ==
    ASSUME NEW E, None \notin E, NEW x
    PROVE  (\E i \in Alternatives(E) : Constrained(i, x)) <=> (E # {} => x \in E)
  BY DEF Alternatives, Constrained

LEMMA NoneIsNoInterface == None \notin Interfaces
  BY PolicyAssumption DEF PolicyAssumption

LEMMA WithinIsExpand ==
    ASSUME NEW names, NEW i
    PROVE  Within(names, i) <=> i \in Expand(zones, names)
  BY DEF Within, Expand, Members

LEMMA ConstrainsIsExpand ==
    ASSUME zones \in Documents, NEW names
    PROVE  Constrains(names) <=> Expand(zones, names) # {}
  BY WithinIsExpand, ExpandTyped DEF Constrains

\* One mapping drops what it covers and its list contains.
LEMMA RenderedDrops ==
    ASSUME zones \in Documents, NEW m \in Mapping, NEW p \in Packets
    PROVE  (\E r \in Rendered(m, Expand(zones, m.ingress), Expand(zones, m.egress)) :
                Drops(r, p))
             <=> /\ Covers(m, p)
                 /\ m.blocklist = "in" => "in" \in p.src
                 /\ m.blocklist = "out" => "out" \in p.dst
<1> DEFINE I == Expand(zones, m.ingress)
           O == Expand(zones, m.egress)
           R(i, e) == [chain |-> m.chain, direction |-> m.blocklist, ingress |-> i,
                       egress |-> e, address |-> AddressField(m.blocklist)]
           Listed == (m.blocklist = "in" => "in" \in p.src)
                     /\ (m.blocklist = "out" => "out" \in p.dst)
<1>1. None \notin I /\ None \notin O
  BY ExpandTyped, NoneIsNoInterface
<1>2. ASSUME NEW i, NEW e
      PROVE  Drops(R(i, e), p) <=> /\ p.chain = m.chain
                                   /\ Constrained(i, p.iif)
                                   /\ Constrained(e, p.oif)
                                   /\ Listed
  <2>1. m.blocklist \in {"in", "out"}
    BY DEF Mapping, Directions
  <2>2. Drops(R(i, e), p) <=> /\ Jumps(R(i, e), p)
                              /\ m.blocklist \in (IF LookupField(m.blocklist) = "source"
                                                  THEN p.src ELSE p.dst)
    BY DEF Drops
  <2>3. m.blocklist \in (IF LookupField(m.blocklist) = "source" THEN p.src ELSE p.dst)
          <=> Listed
    BY <2>1 DEF LookupField
  <2> QED
    BY <2>2, <2>3 DEF Jumps
<1>3. (\E r \in Rendered(m, I, O) : Drops(r, p))
        <=> \E i \in Alternatives(I), e \in Alternatives(O) : Drops(R(i, e), p)
  <2>1. Rendered(m, I, O) = {R(i, e) : i \in Alternatives(I), e \in Alternatives(O)}
    BY DEF Rendered
  <2>2. ASSUME NEW i \in Alternatives(I), NEW e \in Alternatives(O), Drops(R(i, e), p)
        PROVE  \E r \in Rendered(m, I, O) : Drops(r, p)
    <3>1. R(i, e) \in Rendered(m, I, O)
      BY <2>1
    <3> QED
      BY <2>2, <3>1
  <2>3. ASSUME NEW r \in Rendered(m, I, O), Drops(r, p)
        PROVE  \E i \in Alternatives(I), e \in Alternatives(O) : Drops(R(i, e), p)
    <3>1. PICK i \in Alternatives(I), e \in Alternatives(O) : r = R(i, e)
      BY <2>1
    <3> QED
      BY <2>3, <3>1
  <2> HIDE DEF I, O, R
  <2> QED
    BY <2>2, <2>3, Zenon
<1>4. (\E i \in Alternatives(I) : Constrained(i, p.iif)) <=> (I # {} => p.iif \in I)
  BY <1>1, AlternativesAdmit
<1>5. (\E e \in Alternatives(O) : Constrained(e, p.oif)) <=> (O # {} => p.oif \in O)
  BY <1>1, AlternativesAdmit
<1>6. Covers(m, p) <=> /\ p.chain = m.chain
                       /\ I # {} => p.iif \in I
                       /\ O # {} => p.oif \in O
  BY WithinIsExpand, ConstrainsIsExpand DEF Covers
<1> HIDE DEF I, O, R, Listed
<1>7. (\E i \in Alternatives(I), e \in Alternatives(O) : Drops(R(i, e), p))
        <=> Covers(m, p) /\ Listed
  BY <1>2, <1>4, <1>5, <1>6
<1> QED
  BY <1>3, <1>7 DEF I, O, Listed

-----------------------------------------------------------------------------
(* The invariant                                                           *)

LEMMA InitInv == Init => IInv
<1> SUFFICES ASSUME Init PROVE IInv
  OBVIOUS
<1>1. TypeOK
  BY PolicyAssumption DEF Init, TypeOK, PolicyAssumption
<1> QED
  BY <1>1 DEF Init, IInv, ValidatedOK, RulesOK, ScreenedOK, AttachedOK, FlowtablesOK

LEMMA OverriddenTyped ==
    ASSUME NEW c \in Config, NEW o \in Cli
    PROVE  Overridden(c, o) \in Config
<1>1. (IF o.zonesFile THEN None ELSE c.zones) \in Documents \cup {None}
  BY DEF Config
<1>2. (IF o.allowBypass = None THEN c.allowBypass ELSE o.allowBypass) \in BOOLEAN
  BY DEF Config, Cli
<1>3. c.files \cup o.files \in SUBSET Directions
  BY DEF Config, Cli
<1>4. (IF o.zonesFile THEN TRUE ELSE c.zonesFile) \in BOOLEAN
  BY DEF Config
<1> QED
  BY <1>1, <1>2, <1>3, <1>4 DEF Overridden, Config

LEMMA LoadInv == IInv /\ Load => IInv'
<1> SUFFICES ASSUME IInv, Load PROVE IInv'
  OBVIOUS
<1>1. config' \in Config
  BY OverriddenTyped DEF IInv, TypeOK, Load
<1>2. TypeOK'
  BY <1>1 DEF IInv, TypeOK, Load, host, daemon
<1>3. ValidatedOK'
  <2> SUFFICES ASSUME pc' = "new" PROVE Screened(LoadZones(config))'
    BY DEF ValidatedOK
  <2>1. Valid(config')
    BY DEF Load
  <2>2. LoadZones(config)' = LoadZones(config')
    BY DEF Load, host, LoadZones
  <2> QED
    BY <2>1, <2>2 DEF Valid, Screened
<1>4. pc' \notin {"printed", "flowtables", "xdp", "up"}
  BY DEF Load
<1> QED
  BY <1>2, <1>3, <1>4 DEF IInv, RulesOK, ScreenedOK, AttachedOK, FlowtablesOK

LEMMA ProtectedTyped ==
    ASSUME NEW rs \in SUBSET Rule
    PROVE  Protected(rs) \subseteq Interfaces
  BY DEF Protected, Rule

LEMMA PrintRulesInv == IInv /\ PrintRules => IInv'
<1> SUFFICES ASSUME IInv, PrintRules PROVE IInv'
  OBVIOUS
<1> DEFINE doc == LoadZones(config)
<1> USE DEF IInv
<1>1. CASE doc # None /\ \A m \in config.rules : Resolvable(doc, m)
  <2>1. doc \in Documents /\ ValidZones(doc)
    BY <1>1, LoadedZones
  <2>2. config.rules \in SUBSET Mapping
    BY DEF TypeOK, Config
  <2>3. /\ zones' = doc /\ rules' = Render(doc, config.rules)
        /\ pc' \in {"printed", "rejected"}
        /\ UNCHANGED <<config, cli, host, protected, attached>>
    BY <1>1 DEF PrintRules
  <2> HIDE DEF doc
  <2>4. TypeOK'
    BY <2>1, <2>2, <2>3, RenderTyped DEF TypeOK, host
  <2>5. RulesOK'
    BY <1>1, <2>1, <2>3 DEF RulesOK
  <2> QED
    BY <2>3, <2>4, <2>5 DEF ValidatedOK, ScreenedOK, AttachedOK, FlowtablesOK
<1>2. CASE ~(doc # None /\ \A m \in config.rules : Resolvable(doc, m))
  <2>1. pc' = "rejected" /\ UNCHANGED <<config, cli, host, daemon>>
    BY <1>2 DEF PrintRules, daemon
  <2> QED
    BY <2>1 DEF TypeOK, ValidatedOK, RulesOK, ScreenedOK, AttachedOK, FlowtablesOK,
                host, daemon
<1> QED
  BY <1>1, <1>2

LEMMA NewDaemonInv == IInv /\ NewDaemon => IInv'
<1> SUFFICES ASSUME IInv, NewDaemon PROVE IInv'
  OBVIOUS
<1> DEFINE doc == LoadZones(config)
<1> USE DEF IInv
<1>1. CASE doc # None /\ \A m \in config.rules : Resolvable(doc, m)
  <2>1. doc \in Documents /\ ValidZones(doc)
    BY <1>1, LoadedZones
  <2>2. config.rules \in SUBSET Mapping
    BY DEF TypeOK, Config
  <2>3. /\ zones' = doc /\ rules' = Render(doc, config.rules)
        /\ protected' = Protected(rules')
        /\ pc' = IF rules' # {} THEN "flowtables" ELSE "xdp"
        /\ UNCHANGED <<config, cli, host, attached>>
    BY <1>1 DEF NewDaemon
  <2>4. ~stale => Screened(doc)
    BY DEF NewDaemon, ValidatedOK
  <2> HIDE DEF doc
  <2>5. rules' \in SUBSET Rule
    BY <2>1, <2>2, <2>3, RenderTyped
  <2>6. TypeOK'
    BY <2>1, <2>3, <2>5, ProtectedTyped DEF TypeOK, host
  <2>7. RulesOK'
    BY <1>1, <2>1, <2>3 DEF RulesOK
  <2>8. ScreenedOK'
    BY <2>3, <2>4 DEF ScreenedOK, Screened, host
  <2>9. FlowtablesOK'
    BY <2>3 DEF FlowtablesOK, Protected
  <2> QED
    BY <2>3, <2>6, <2>7, <2>8, <2>9 DEF ValidatedOK, AttachedOK
<1>2. CASE ~(doc # None /\ \A m \in config.rules : Resolvable(doc, m))
  <2>1. pc' = "rejected" /\ UNCHANGED <<config, cli, host, daemon>>
    BY <1>2 DEF NewDaemon, daemon
  <2> QED
    BY <2>1 DEF TypeOK, ValidatedOK, RulesOK, ScreenedOK, AttachedOK, FlowtablesOK,
                host, daemon
<1> QED
  BY <1>1, <1>2

LEMMA CheckFlowtablesInv == IInv /\ CheckFlowtables => IInv'
<1> SUFFICES ASSUME IInv, CheckFlowtables PROVE IInv'
  OBVIOUS
<1> USE DEF IInv, CheckFlowtables, daemon
<1>1. TypeOK' /\ ValidatedOK' /\ AttachedOK' /\ FlowtablesOK'
  BY DEF TypeOK, ValidatedOK, AttachedOK, FlowtablesOK
<1>2. RulesOK' /\ ScreenedOK'
  BY DEF RulesOK, ScreenedOK, Screened
<1> QED
  BY <1>1, <1>2

LEMMA StartXdpInv == IInv /\ (StartXdp \/ StartXdpFails) => IInv'
<1> SUFFICES ASSUME IInv, StartXdp \/ StartXdpFails PROVE IInv'
  OBVIOUS
<1> USE DEF IInv, StartXdp, StartXdpFails, daemon, host
<1>1. zones \in Documents
  BY DEF RulesOK
<1>2. TypeOK' /\ ValidatedOK' /\ AttachedOK' /\ FlowtablesOK'
  BY <1>1, XdpTyped DEF TypeOK, ValidatedOK, AttachedOK, FlowtablesOK
<1>3. RulesOK' /\ ScreenedOK'
  BY DEF RulesOK, ScreenedOK, Screened
<1> QED
  BY <1>2, <1>3

LEMMA HostInv == IInv /\ (RewriteZones \/ ChangeFlowtables) => IInv'
<1> SUFFICES ASSUME IInv, RewriteZones \/ ChangeFlowtables PROVE IInv'
  OBVIOUS
<1> USE DEF IInv, daemon
<1>1. UNCHANGED <<config, cli, pc, daemon>>
  BY DEF RewriteZones, ChangeFlowtables
<1>2. TypeOK'
  <2>1. rewrites' \in Nat
    BY DEF TypeOK, RewriteZones, ChangeFlowtables
  <2>2. zonesFile' \in Documents \cup {None} /\ flowtables' \subseteq Interfaces
    BY DEF TypeOK, RewriteZones, ChangeFlowtables
  <2>3. stale' \in BOOLEAN /\ late' \in BOOLEAN
    BY DEF TypeOK, RewriteZones, ChangeFlowtables
  <2> QED
    BY <1>1, <2>1, <2>2, <2>3 DEF TypeOK
<1>3. RulesOK' /\ AttachedOK'
  BY <1>1 DEF RulesOK, AttachedOK
<1>4. CASE RewriteZones
  BY <1>1, <1>2, <1>3, <1>4
     DEF RewriteZones, ValidatedOK, ScreenedOK, Screened, FlowtablesOK, TypeOK
<1>5. CASE ChangeFlowtables
  <2>1. UNCHANGED LoadZones(config)
    BY <1>5 DEF ChangeFlowtables, LoadZones
  <2> QED
    BY <1>1, <1>2, <1>3, <1>5, <2>1
       DEF ChangeFlowtables, ValidatedOK, ScreenedOK, Screened, FlowtablesOK
<1> QED
  BY <1>4, <1>5

LEMMA StutterInv == IInv /\ UNCHANGED vars => IInv'
<1> SUFFICES ASSUME IInv, UNCHANGED vars PROVE IInv'
  OBVIOUS
<1> USE DEF IInv, vars, host, daemon
<1>1. UNCHANGED LoadZones(config)
  BY DEF LoadZones
<1> QED
  BY <1>1 DEF TypeOK, ValidatedOK, RulesOK, ScreenedOK, Screened, AttachedOK, FlowtablesOK

\* The invariant holds of every run.
THEOREM InvariantHolds == Spec => []IInv
<1>1. IInv /\ [Next]_vars => IInv'
  BY LoadInv, PrintRulesInv, NewDaemonInv, CheckFlowtablesInv, StartXdpInv, HostInv,
     StutterInv DEF Next
<1> QED
  BY <1>1, InitInv, PTL DEF Spec

-----------------------------------------------------------------------------
(* What it shows                                                           *)

\* Every state that cidrwall reaches is of the declared types.
THEOREM TypeCorrect == Spec => []TypeOK
  BY InvariantHolds, PTL DEF IInv

\* The rules drop exactly what the mappings cover and their lists contain,
\* whatever zones, mappings and interfaces are configured.
THEOREM RulesAreMappings == Spec => []RulesMatchMappings
<1>1. IInv => RulesMatchMappings
  <2> SUFFICES ASSUME IInv, pc \in {"printed", "up"}
               PROVE  /\ \A r \in rules : r.address = LookupField(r.direction)
                      /\ \A p \in Packets :
                           (\E r \in rules : Drops(r, p))
                             <=> \E m \in config.rules :
                                   /\ Covers(m, p)
                                   /\ m.blocklist = "in" => "in" \in p.src
                                   /\ m.blocklist = "out" => "out" \in p.dst
    BY DEF RulesMatchMappings
  <2>1. zones \in Documents /\ rules = Render(zones, config.rules)
    BY DEF IInv, RulesOK
  <2>2. config.rules \subseteq Mapping
    BY DEF IInv, TypeOK, Config
  <2>3. ASSUME NEW r \in rules
        PROVE  r.address = LookupField(r.direction)
    BY <2>1, <2>3 DEF Render, Rendered, AddressField, LookupField
  <2>4. ASSUME NEW p \in Packets
        PROVE  (\E r \in rules : Drops(r, p))
                 <=> \E m \in config.rules :
                       \E r \in Rendered(m, Expand(zones, m.ingress),
                                             Expand(zones, m.egress)) : Drops(r, p)
    BY <2>1 DEF Render
  <2> QED
    BY <2>1, <2>2, <2>3, <2>4, RenderedDrops
<1> QED
  BY <1>1, InvariantHolds, PTL

\* A rule of a mapping admits one interface of its zones, or any if they have
\* none.
LEMMA RuleOrigin ==
    ASSUME IInv, pc = "up", NEW r \in rules
    PROVE  \E m \in config.rules :
             /\ r.chain = m.chain /\ r.direction = m.blocklist
             /\ r.ingress \in Alternatives(Expand(zones, m.ingress))
             /\ r.egress \in Alternatives(Expand(zones, m.egress))
<1>1. rules = Render(zones, config.rules)
  BY DEF IInv, RulesOK
<1>2. PICK m \in config.rules :
        r \in Rendered(m, Expand(zones, m.ingress), Expand(zones, m.egress))
  BY <1>1 DEF Render
<1> QED
  BY <1>2 DEF Rendered

\* An inbound rule and the XDP manager never look up the same packet, whatever
\* zones and mappings are configured.
THEOREM EnforcedOnce == Spec => []NoDoubleEnforcement
<1>1. IInv => NoDoubleEnforcement
  <2> SUFFICES ASSUME IInv, pc = "up", ~config.allowOverlap, ~stale,
                      NEW r \in rules, NEW p \in Packets,
                      Jumps(r, p), r.direction = "in", p.chain # "output",
                      p.iif \in attached
               PROVE  FALSE
    BY DEF NoDoubleEnforcement
  <2>1. attached = XdpInterfaces(zones, config) /\ Screened(zones)
    BY DEF IInv, AttachedOK, ScreenedOK
  <2>2. PICK m \in config.rules :
          /\ r.chain = m.chain /\ r.direction = m.blocklist
          /\ r.ingress \in Alternatives(Expand(zones, m.ingress))
    BY RuleOrigin
  <2>3. m.blocklist = "in" /\ m.chain # "output"
    BY <2>2 DEF Jumps
  <2>4. \/ Expand(zones, m.ingress) = {}
        \/ Expand(zones, m.ingress) \cap attached # {}
    <3> SUFFICES ASSUME Expand(zones, m.ingress) # {}
                 PROVE  r.ingress \in Expand(zones, m.ingress) /\ r.ingress = p.iif
      OBVIOUS
    <3>1. r.ingress \in Expand(zones, m.ingress)
      BY <2>2 DEF Alternatives
    <3>2. r.ingress # None
      BY <3>1, ExpandTyped, NoneIsNoInterface DEF IInv, RulesOK
    <3> QED
      BY <3>1, <3>2 DEF Jumps, Constrained
  <2>5. Overlaps(zones, config)
    BY <2>1, <2>3, <2>4 DEF Overlaps
  <2> QED
    BY <2>1, <2>5 DEF Screened
<1> QED
  BY <1>1, InvariantHolds, PTL

\* A document in which a mapping of the forward chain resolves gives it an
\* interface on both sides.
LEMMA ForwardConstrained ==
    ASSUME NEW doc \in Documents, ValidZones(doc), NEW names,
           names # {}, Expandable(doc, names, TRUE)
    PROVE  Expand(doc, names) # {}
<1>1. PICK z \in names : TRUE
  OBVIOUS
<1>2. PICK n \in 1..Len(doc) : doc[n].name = z
  BY <1>1 DEF Expandable, Known
<1>3. n \in Members(doc, names)
  BY <1>1, <1>2 DEF Members
<1>4. doc[n].interfaces # {}
  BY <1>3 DEF Expandable, ValidZones, Members
<1> QED
  BY <1>3, <1>4 DEF Expand

\* No packet that a forward rule looks up uses an interface of a flowtable,
\* whatever the flowtables and the configuration.
THEOREM FlowtablesExcluded == Spec => []NoFlowtableBypass
<1>1. IInv => NoFlowtableBypass
  <2> SUFFICES ASSUME IInv, pc = "up", ~config.allowBypass, ~late,
                      NEW r \in rules, NEW p \in Packets,
                      Jumps(r, p), p.chain = "forward"
               PROVE  p.iif \notin flowtables /\ p.oif \notin flowtables
    BY DEF NoFlowtableBypass
  <2>1. /\ zones \in Documents /\ ValidZones(zones)
        /\ \A m \in config.rules : Resolvable(zones, m)
        /\ protected = Protected(rules)
        /\ flowtables \cap protected = {}
    BY DEF IInv, RulesOK, FlowtablesOK
  <2>2. PICK m \in config.rules :
          /\ r.chain = m.chain
          /\ r.ingress \in Alternatives(Expand(zones, m.ingress))
          /\ r.egress \in Alternatives(Expand(zones, m.egress))
    BY RuleOrigin
  <2>3. m.chain = "forward"
    BY <2>2 DEF Jumps
  <2>4. /\ m.ingress # {} /\ Expandable(zones, m.ingress, TRUE)
        /\ m.egress # {} /\ Expandable(zones, m.egress, TRUE)
    BY <2>1, <2>3 DEF Resolvable
  <2>5. Expand(zones, m.ingress) # {} /\ Expand(zones, m.egress) # {}
    BY <2>1, <2>4, ForwardConstrained
  <2>6. r.ingress \in Interfaces /\ r.egress \in Interfaces
    BY <2>1, <2>2, <2>5, ExpandTyped DEF Alternatives
  <2>7. r.ingress \in protected /\ r.egress \in protected
    BY <2>1, <2>6, NoneIsNoInterface DEF Protected
  <2>8. r.ingress = p.iif /\ r.egress = p.oif
    BY <2>6, NoneIsNoInterface DEF Jumps, Constrained
  <2> QED
    BY <2>1, <2>7, <2>8
<1> QED
  BY <1>1, InvariantHolds, PTL

-----------------------------------------------------------------------------
(* Lists and their files                                                   *)

\* What validate established about the lists in use; the configuration is not
\* changed after it was loaded.
ListsOK ==
    pc \in {"print", "new", "printed", "flowtables", "xdp", "up"} =>
        /\ Uses(config) \subseteq config.files
        /\ \A x \in config.xdp : x.blocklist = "in"

LEMMA ListsStep == ListsOK /\ [Next]_vars => ListsOK'
<1> SUFFICES ASSUME ListsOK, [Next]_vars PROVE ListsOK'
  OBVIOUS
<1>1. CASE Load
  <2> SUFFICES ASSUME pc' \in {"print", "new", "printed", "flowtables", "xdp", "up"}
               PROVE  Valid(config')
    BY DEF ListsOK, Valid
  <2> QED
    BY <1>1 DEF Load
<1>2. CASE ~Load
  <2>1. config' = config
    BY <1>2 DEF Next, PrintRules, NewDaemon, CheckFlowtables, StartXdp, StartXdpFails,
                RewriteZones, ChangeFlowtables, vars
  <2>2. pc' \in {"print", "new", "printed", "flowtables", "xdp", "up"}
          => pc \in {"print", "new", "printed", "flowtables", "xdp", "up"}
    BY <1>2 DEF Next, PrintRules, NewDaemon, CheckFlowtables, StartXdp, StartXdpFails,
                RewriteZones, ChangeFlowtables, vars
  <2> QED
    BY <2>1, <2>2 DEF ListsOK, Uses, UsesNftables
<1> QED
  BY <1>1, <1>2

\* Every list that a rule or the XDP manager enforces has a file.
THEOREM EveryListHasFile == Spec => []EnforcedHasFile
<1>1. Init => ListsOK
  BY DEF Init, ListsOK
<1>2. IInv /\ ListsOK => EnforcedHasFile
  <2> SUFFICES ASSUME IInv, ListsOK, pc = "up" PROVE EnforcedHasFile
    BY DEF EnforcedHasFile
  <2>1. Uses(config) \subseteq config.files /\ \A x \in config.xdp : x.blocklist = "in"
    BY DEF ListsOK
  <2>2. ASSUME NEW r \in rules PROVE r.direction \in config.files
    BY <2>1, RuleOrigin DEF Uses, UsesNftables
  <2>3. ASSUME attached # {} PROVE "in" \in config.files
    <3>1. attached = XdpInterfaces(zones, config)
      BY DEF IInv, AttachedOK
    <3>2. PICK x \in config.xdp : Expand(zones, x.ingress) # {}
      BY <2>3, <3>1 DEF XdpInterfaces
    <3> QED
      BY <2>1, <3>2 DEF Uses
  <2> QED
    BY <2>2, <2>3 DEF EnforcedHasFile
<1> QED
  BY <1>1, <1>2, ListsStep, InvariantHolds, PTL DEF Spec
=============================================================================
