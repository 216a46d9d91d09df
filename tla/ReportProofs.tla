----------------------------- MODULE ReportProofs ------------------------------
(***************************************************************************)
(* What the controller makes of reports, for every set of devices, clients *)
(* and reports: the descriptor and the snapshot agree on the uplink port,  *)
(* and no command changes a device as a member of a family that the        *)
(* command was not meant for.                                              *)
(*                                                                         *)
(* As long as reports are truthful, a snapshot shows every observation on  *)
(* the radio it was made on, though three tables name radios differently.  *)
(***************************************************************************)
EXTENDS DeviceReport, FiniteSetTheorems, TLAPS

(* The families *)

LEMMA FamiliesAreReported ==
    ASSUME NEW rep, NEW hint \in Family \cup {NoFamily}
    PROVE  ReportedFamily(rep, hint) \in Family \cup {NoFamily}
BY DEF ReportedFamily, Family

LEMMA SingleIsOptional ==
    ASSUME NEW T, NEW v \in T
    PROVE  {v} \in Optional(T)
<1>1. Cardinality({v}) = 1
  BY FS_Singleton
<1> QED  BY <1>1 DEF Optional

LEMMA EmptyIsOptional == \A T : {} \in Optional(T)
<1>1. Cardinality({}) = 0
  BY FS_EmptySet
<1> QED  BY <1>1 DEF Optional

LEMMA OptionalIn ==
    ASSUME NEW T, NEW s \in Optional(T), NEW v \in s
    PROVE  v \in T
BY DEF Optional

\* A command that is under way, or the change that it made, is of one family.
ReportInv == ChangedAsListed /\ choice \in [Client -> Optional(Choice)]

LEMMA ReportInit == Init => ReportInv
BY EmptyIsOptional DEF Init, ReportInv, ChangedAsListed, TypeOK

LEMMA RegisterStep ==
    ASSUME ReportInv, NEW d \in Device, Register(d)
    PROVE  ReportInv'
BY DEF ReportInv, ChangedAsListed, TypeOK, Register

LEMMA RecordStep ==
    ASSUME ReportInv, NEW d \in Device, NEW rep \in Report[d], NEW saved \in BOOLEAN,
           RecordReport(d, rep, saved)
    PROVE  ReportInv'
<1> DEFINE f == ReportedFamily(rep, family[d])
<1>1. f \in Family \cup {NoFamily}
  BY FamiliesAreReported DEF ReportInv, ChangedAsListed, TypeOK
<1>2. /\ d \in known
      /\ report' = [e \in DOMAIN report \cup {d} |-> IF e = d THEN rep ELSE report[e]]
      /\ family' = IF f = NoFamily THEN family ELSE [family EXCEPT ![d] = f]
      /\ filed' = IF f # NoFamily /\ saved THEN family' ELSE filed
      /\ UNCHANGED <<known, choice, changed>>
  BY DEF RecordReport
<1> HIDE DEF f
<1>3. family' \in [Device -> Family \cup {NoFamily}] /\ filed' \in [Device -> Family \cup {NoFamily}]
  BY <1>1, <1>2 DEF ReportInv, ChangedAsListed, TypeOK
<1>4. DOMAIN report' \subseteq known' /\ \A e \in DOMAIN report' : report'[e] \in Report[e]
  BY <1>2 DEF ReportInv, ChangedAsListed, TypeOK
<1> QED  BY <1>2, <1>3, <1>4 DEF ReportInv, ChangedAsListed, TypeOK

LEMMA RestartStep ==
    ASSUME ReportInv, Restart
    PROVE  ReportInv'
BY DEF ReportInv, ChangedAsListed, TypeOK, Restart

LEMMA ResourceStep ==
    ASSUME ReportInv, NEW c \in Client, NEW f \in Family, NEW d \in Device,
           ResourceDevice(c, f, d)
    PROVE  ReportInv'
<1>1. [family |-> f, device |-> d] \in Choice
  BY DEF Choice
<1>2. choice' = [choice EXCEPT ![c] = {[family |-> f, device |-> d]}]
      /\ UNCHANGED <<known, family, filed, report, changed>>
  BY DEF ResourceDevice
<1>3. choice' \in [Client -> Optional(Choice)]
  BY <1>1, <1>2, SingleIsOptional DEF ReportInv
<1> QED  BY <1>2, <1>3 DEF ReportInv, ChangedAsListed, TypeOK

\* mutateDesired looks at the family of the moment, not of the list.
LEMMA MutateStep ==
    ASSUME ReportInv, NEW c \in Client, Mutate(c)
    PROVE  ReportInv'
<1>1. /\ choice' = [choice EXCEPT ![c] = {}]
      /\ changed' = {[was |-> x.family, family |-> family[x.device]] :
                        x \in {y \in choice[c] : Admits(y)}}
      /\ UNCHANGED <<known, family, filed, report>>
  BY DEF Mutate
<1>2. choice' \in [Client -> Optional(Choice)]
  BY <1>1, EmptyIsOptional DEF ReportInv
<1>3. ASSUME NEW z \in changed'
      PROVE  z.family = z.was /\ z.was \in Family
  <2>1. PICK x \in choice[c] : Admits(x) /\ z = [was |-> x.family, family |-> family[x.device]]
    BY <1>1
  <2>2. x \in Choice
    BY OptionalIn DEF ReportInv
  <2>3. x.family \in Family /\ family[x.device] = x.family
    BY <2>1, <2>2 DEF Choice, Admits
  <2> QED  BY <2>1, <2>3
<1> QED  BY <1>1, <1>2, <1>3 DEF ReportInv, ChangedAsListed, TypeOK

LEMMA ReportStep == ReportInv /\ [Next]_vars => ReportInv'
<1> SUFFICES ASSUME ReportInv, [Next]_vars
             PROVE  ReportInv'
  OBVIOUS
<1>1. ASSUME NEW d \in Device, Register(d)
      PROVE  ReportInv'
  BY <1>1, RegisterStep
<1>2. ASSUME NEW d \in Device, NEW saved \in {TRUE} \cup {~SaveFails}, NEW rep \in Report[d],
             RecordReport(d, rep, saved)
      PROVE  ReportInv'
  BY <1>2, RecordStep
<1>3. CASE Restart
  BY <1>3, RestartStep
<1>4. ASSUME NEW c \in Client, RunResource(c)
      PROVE  ReportInv'
  BY <1>4, ResourceStep, MutateStep DEF RunResource
<1>5. CASE UNCHANGED vars
  BY <1>5 DEF vars, ReportInv, ChangedAsListed, TypeOK
<1> QED  BY <1>1, <1>2, <1>3, <1>4, <1>5 DEF Next

LEMMA ReportAlways == Spec => []ReportInv
BY ReportInit, ReportStep, PTL DEF Spec

\* A command changes a device as the family it was meant for, or not at all
\* (controller.mutateDesired), restarts and lost families included.
THEOREM ChangesAreAsListed == Spec => []ChangedAsListed
<1>1. ReportInv => ChangedAsListed
  BY DEF ReportInv
<1> QED  BY <1>1, ReportAlways, PTL

-------------------------------------------------------------------------------
(* The uplink port *)

LEMMA MinOfOne ==
    ASSUME NEW S, NEW i \in Nat, S = {i}
    PROVE  Min(S) = i
BY DEF Min

LEMMA OneOfOne ==
    ASSUME NEW S, Cardinality(S) = 1, IsFiniteSet(S)
    PROVE  \E v : S = {v}
BY FS_Singleton

LEMMA LengthIsDomain ==
    ASSUME NEW T, NEW s \in Seq(T)
    PROVE  Len(s) \in Nat /\ DOMAIN s = 1 .. Len(s)
OBVIOUS

\* portInterface of the descriptor and decodePhysicalUplink of the snapshot, which
\* are separate code, single out the same port.
LEMMA UplinkOfReport ==
    ASSUME NEW rep, IsReport(rep), Uniform(rep), rep.ethernet = <<>>, rep.uplink # Blank
    PROVE  {i \in DOMAIN rep.ports : PortInterface(rep, "ap", i) = rep.uplink} = UplinkPort(rep)
<1> DEFINE ports == rep.ports
           n == Len(ports)
           P == {i \in DOMAIN ports : PortInterface(rep, "ap", i) = rep.uplink}
           direct == {i \in 1 .. n : ports[i].name = rep.uplink \/ (ports[i].name = Blank /\ n = 1)}
           unnamed == {i \in Up(ports) : ports[i].name = Blank}
<1>1. ports = rep.ports /\ n = Len(ports) /\ n \in Nat /\ DOMAIN ports = 1 .. n
  <2>1. rep.ports \in Seq(PortEntry)
    BY DEF IsReport
  <2> QED  BY <2>1, LengthIsDomain
<1>2. ReportedPorts(rep, "ap") = ports
  BY DEF ReportedPorts
<1>3. \A i \in 1 .. n : PortInterface(rep, "ap", i) =
         IF ports[i].name # Blank THEN ports[i].name
         ELSE IF n = 1 \/ i \in SoleUpPort(ports) THEN rep.uplink ELSE Blank
  BY <1>2 DEF PortInterface
<1>4. UplinkPort(rep) =
         IF direct # {} THEN {Min(direct)} ELSE IF Cardinality(unnamed) = 1 THEN unnamed ELSE {}
  BY DEF UplinkPort
<1>5. P = {i \in 1 .. n : \/ ports[i].name = rep.uplink
                          \/ ports[i].name = Blank /\ (n = 1 \/ i \in SoleUpPort(ports))}
  BY <1>1, <1>3
<1> HIDE DEF ports, n, P
<1>6. Up(ports) \subseteq 1 .. n
  BY <1>1 DEF Up
<1>7. \A i, j \in 1 .. n : /\ ports[i].name = Blank <=> ports[j].name = Blank
                           /\ ports[i].name = ports[j].name /\ ports[i].name # Blank => i = j
  BY <1>1 DEF Uniform
<1>8. ASSUME direct # {}
      PROVE  P = {Min(direct)}
  <2>1. PICK i \in direct : TRUE
    BY <1>8
  <2>2. direct = {i}
    <3> SUFFICES ASSUME NEW j \in direct
                 PROVE  j = i
      BY <2>1
    <3>1. CASE ports[i].name = Blank
      <4>1. n = 1
        BY <2>1, <3>1
      <4>2. i \in 1 .. n /\ j \in 1 .. n
        BY <2>1
      <4> HIDE DEF direct
      <4> QED  BY <4>1, <4>2
    <3>2. CASE ports[i].name # Blank
      <4>1. ports[j].name # Blank /\ ports[i].name = rep.uplink
        BY <1>7, <2>1, <3>2
      <4> QED  BY <1>7, <2>1, <4>1
    <3> QED  BY <3>1, <3>2
  <2>3. Min(direct) = i
    <3>1. i \in Nat
      BY <1>1, <2>1
    <3> HIDE DEF direct
    <3> QED  BY <2>2, <3>1, MinOfOne
  <2>4. P = direct
    <3>1. direct \subseteq P
      BY <1>5
    <3>2. ASSUME NEW j \in P
          PROVE  j \in direct
      <4>1. j \in 1 .. n /\ (ports[j].name = rep.uplink \/ ports[j].name = Blank)
        BY <1>5
      <4>2. CASE ports[j].name = rep.uplink
        BY <4>1, <4>2
      <4>3. CASE ports[j].name = Blank
        <5>1. ports[i].name = Blank /\ n = 1
          BY <1>7, <2>1, <4>1, <4>3
        <5> QED  BY <4>1, <4>3, <5>1
      <4> QED  BY <4>1, <4>2, <4>3
    <3> QED  BY <3>1, <3>2
  <2> QED  BY <2>2, <2>3, <2>4
<1>9. ASSUME direct = {}
      PROVE  P = IF Cardinality(unnamed) = 1 THEN unnamed ELSE {}
  <2>1. \A i \in 1 .. n : ports[i].name # rep.uplink /\ (ports[i].name = Blank => n # 1)
    BY <1>9
  <2>2. P = {i \in 1 .. n : ports[i].name = Blank /\ i \in SoleUpPort(ports)}
    BY <1>5, <2>1
  <2>3. CASE \A i \in 1 .. n : ports[i].name = Blank
    <3>1. unnamed = Up(ports)
      BY <1>6, <2>3
    <3>2. P = SoleUpPort(ports)
      BY <1>6, <2>2, <2>3 DEF SoleUpPort
    <3> QED  BY <3>1, <3>2 DEF SoleUpPort
  <2>4. CASE \E i \in 1 .. n : ports[i].name # Blank
    <3>1. \A i \in 1 .. n : ports[i].name # Blank
      BY <1>7, <2>4
    <3>2. unnamed = {} /\ P = {}
      BY <1>6, <2>2, <3>1
    <3> QED  BY <3>2
  <2> QED  BY <2>3, <2>4
<1> QED  BY <1>1, <1>4, <1>8, <1>9 DEF P

\* What VLAN interfaces are made of is the port that an operator sees as the uplink,
\* and no two ports are given its interface (UplinkPortAgrees).
THEOREM UplinkIsOnePort == Spec => []UplinkPortAgrees
<1>1. ReportInv => UplinkPortAgrees
  <2> SUFFICES ASSUME ReportInv, NEW rep \in AccessPoints
               PROVE  IsReport(rep) /\ Uniform(rep)
    BY UplinkOfReport DEF UplinkPortAgrees
  <2>1. PICK d \in DOMAIN report : rep = report[d]
    BY DEF AccessPoints
  <2>2. d \in Device /\ rep \in Report[d]
    BY <2>1 DEF ReportInv, ChangedAsListed, TypeOK
  <2> QED  BY <2>2, ReportAssumption
<1> QED  BY <1>1, ReportAlways, PTL

-------------------------------------------------------------------------------
(* Observations *)

LEMMA MaxOfOne ==
    ASSUME NEW S, NEW i \in Nat, S = {i}
    PROVE  Max(S) = i
BY DEF Max

\* A code that is counted once is that of one entry.
LEMMA CodeIsUnique ==
    ASSUME NEW rep, IsReport(rep), NEW i \in DOMAIN rep.radios, NEW j \in DOMAIN rep.radios,
           rep.radios[i].code = rep.radios[j].code, CodeCount(rep, rep.radios[i].code) = 1
    PROVE  i = j
<1> DEFINE S == {k \in DOMAIN rep.radios : rep.radios[k].code = rep.radios[i].code}
<1>1. Len(rep.radios) \in Nat /\ DOMAIN rep.radios = 1 .. Len(rep.radios)
  BY LengthIsDomain DEF IsReport
<1>2. IsFiniteSet(DOMAIN rep.radios)
  BY <1>1, FS_Interval
<1>3. IsFiniteSet(S) /\ Cardinality(S) = 1
  BY <1>2, FS_Subset DEF CodeCount
<1>4. i \in S /\ j \in S
  OBVIOUS
<1> HIDE DEF S
<1>5. PICK v : S = {v}
  BY <1>3, OneOfOne
<1> QED  BY <1>4, <1>5

\* What a truthful report says, entry by entry.
LEMMA RadioEntries ==
    ASSUME NEW rep, Truthful(rep), NEW i \in DOMAIN rep.radios, NEW j \in DOMAIN rep.radios
    PROVE  LET e == rep.radios[i]
               f == rep.radios[j]
           IN  /\ e.of = f.of => i = j
               /\ e.name \in {Blank, NameOf[e.of]} /\ e.code \in {Blank, CodeOf[e.of]}
               /\ e.channel \subseteq {ChannelOf[e.of]}
               /\ NameOf[e.of] = NameOf[f.of] => e.of = f.of
               /\ NameOf[e.of] # CodeOf[f.of]
               /\ NameOf[e.of] # Blank /\ CodeOf[e.of] # Blank
               /\ \A k \in DOMAIN Positional : Positional[k] \notin {NameOf[e.of], CodeOf[e.of]}
<1> DEFINE own == {rep.radios[k].of : k \in DOMAIN rep.radios}
<1>1. rep.radios[i].of \in own /\ rep.radios[j].of \in own
  OBVIOUS
<1> HIDE DEF own
<1> QED  BY <1>1 DEF Truthful, own

LEMMA StatsEntries ==
    ASSUME NEW rep, Truthful(rep), NEW i \in DOMAIN rep.stats
    PROVE  LET e == rep.stats[i]
           IN  /\ \A j \in DOMAIN rep.stats : rep.stats[j].of = e.of => i = j
               /\ \E k \in DOMAIN rep.radios : rep.radios[k].of = e.of
               /\ e.name = NameOf[e.of]
               /\ e.channel \subseteq {ChannelOf[e.of]} /\ e.count \subseteq {Stations(rep, e.of)}
BY DEF Truthful

LEMMA VAPEntries ==
    ASSUME NEW rep, Truthful(rep), NEW v \in rep.vaps
    PROVE  /\ \E k \in DOMAIN rep.radios : rep.radios[k].of = v.of
           /\ v.name \in {Blank, NameOf[v.of]} /\ v.code \in {Blank, CodeOf[v.of], NameOf[v.of]}
           /\ v.name # Blank \/ v.code # Blank
           /\ v.channel \subseteq {ChannelOf[v.of]} /\ v.count \subseteq {v.stations}
BY DEF Truthful

\* Where one radio of the report has a code, all of them have theirs.
LEMMA AllCoded ==
    ASSUME NEW rep, Uniform(rep), Truthful(rep),
           NEW i \in DOMAIN rep.radios, NEW j \in DOMAIN rep.radios, rep.radios[i].code # Blank
    PROVE  rep.radios[j].code = CodeOf[rep.radios[j].of]
<1>1. rep.radios[j].code # Blank
  BY DEF Uniform
<1> QED  BY <1>1, RadioEntries

\* matchingVAPs finds the virtual access points of an identified radio, by name, by
\* code, or by a name in the place of the code.
LEMMA MatchesAreOwn ==
    ASSUME NEW rep, IsReport(rep), Uniform(rep), Truthful(rep),
           NEW i \in DOMAIN rep.radios, Identified(rep, i), NEW v \in rep.vaps
    PROVE  Matches(rep.radios[i], v) <=> v.of = rep.radios[i].of
<1> DEFINE r == rep.radios[i]
<1>1. r.name = NameOf[r.of] /\ r.code = CodeOf[r.of] /\ r.code # Blank /\ CodeCount(rep, r.code) = 1
  BY RadioEntries DEF Identified
<1>2. PICK k \in DOMAIN rep.radios : rep.radios[k].of = v.of
  BY VAPEntries
<1>3. rep.radios[k].code = CodeOf[v.of]
  BY <1>1, <1>2, AllCoded
<1>4. ASSUME CodeOf[v.of] = CodeOf[r.of]
      PROVE  v.of = r.of
  BY <1>1, <1>2, <1>3, <1>4, CodeIsUnique
<1>5. /\ NameOf[v.of] = NameOf[r.of] => v.of = r.of
      /\ NameOf[v.of] # CodeOf[r.of] /\ NameOf[r.of] # CodeOf[v.of]
      /\ NameOf[r.of] # Blank /\ CodeOf[r.of] # Blank
  BY <1>2, RadioEntries
<1>6. /\ v.name \in {Blank, NameOf[v.of]} /\ v.code \in {Blank, CodeOf[v.of], NameOf[v.of]}
      /\ v.name # Blank \/ v.code # Blank
  BY VAPEntries
<1> HIDE DEF r
<1> QED  BY <1>1, <1>4, <1>5, <1>6 DEF Matches, r

\* The statistics under a radio's name are its own.
LEMMA StatisticsAreOwn ==
    ASSUME NEW rep, IsReport(rep), Truthful(rep),
           NEW i \in DOMAIN rep.radios, rep.radios[i].name # Blank
    PROVE  LET r == rep.radios[i].of
               said == UNION {rep.stats[j].channel : j \in {k \in DOMAIN rep.stats : rep.stats[k].of = r}}
           IN  /\ Statistics(rep, rep.radios[i].name).channel = said
               /\ said \subseteq {ChannelOf[r]}
               /\ Statistics(rep, rep.radios[i].name).count \subseteq {Stations(rep, r)}
<1> DEFINE r  == rep.radios[i].of
           n  == rep.radios[i].name
           js == {j \in DOMAIN rep.stats : rep.stats[j].name = n}
           ks == {k \in DOMAIN rep.stats : rep.stats[k].of = r}
<1>1. n = NameOf[r]
  BY RadioEntries
<1>2. ASSUME NEW j \in DOMAIN rep.stats
      PROVE  rep.stats[j].name = n <=> rep.stats[j].of = r
  <2>1. PICK k \in DOMAIN rep.radios : rep.radios[k].of = rep.stats[j].of
    BY StatsEntries
  <2>2. rep.stats[j].name = NameOf[rep.stats[j].of]
    BY StatsEntries
  <2>3. NameOf[rep.radios[k].of] = NameOf[rep.radios[i].of] => rep.radios[k].of = rep.radios[i].of
    BY RadioEntries
  <2> QED  BY <1>1, <2>1, <2>2, <2>3
<1>3. js = ks
  BY <1>2
<1>4. CASE js = {}
  <2>1. Statistics(rep, n) = NoStats
    BY <1>4 DEF Statistics
  <2>2. UNION {rep.stats[j].channel : j \in ks} = {}
    BY <1>3, <1>4
  <2> QED  BY <2>1, <2>2 DEF NoStats
<1>5. CASE js # {}
  <2>1. PICK j \in js : TRUE
    BY <1>5
  <2>2. j \in DOMAIN rep.stats /\ rep.stats[j].of = r
    BY <1>3, <2>1
  <2>3. js = {j}
    BY <1>3, <2>1, <2>2, StatsEntries
  <2>4. j \in Nat
    <3>1. DOMAIN rep.stats = 1 .. Len(rep.stats) /\ Len(rep.stats) \in Nat
      BY LengthIsDomain DEF IsReport
    <3> QED  BY <2>2, <3>1
  <2>5. Max(js) = j
    <3> HIDE DEF js
    <3> QED  BY <2>3, <2>4, MaxOfOne
  <2>6. Statistics(rep, n) = [channel |-> rep.stats[j].channel, count |-> rep.stats[j].count]
    BY <1>5, <2>5 DEF Statistics
  <2>7. UNION {rep.stats[x].channel : x \in ks} = rep.stats[j].channel
    BY <1>3, <2>3
  <2>8. rep.stats[j].channel \subseteq {ChannelOf[r]} /\ rep.stats[j].count \subseteq {Stations(rep, r)}
    BY <2>2, StatsEntries
  <2> QED  BY <2>6, <2>7, <2>8
<1> QED  BY <1>4, <1>5

LEMMA ConsistentIsSaid ==
    ASSUME NEW vaps, NEW c, \A v \in vaps : v.channel \subseteq {c}
    PROVE  Consistent(vaps) = UNION {v.channel : v \in vaps}
<1> DEFINE said == UNION {v.channel : v \in vaps}
<1>1. said = {} \/ said = {c}
  OBVIOUS
<1>2. Cardinality({c}) = 1 /\ Cardinality({}) = 0
  BY FS_Singleton, FS_EmptySet
<1>3. Consistent(vaps) = IF Cardinality(said) = 1 THEN said ELSE {}
  BY DEF Consistent
<1> HIDE DEF said
<1> QED  BY <1>1, <1>2, <1>3 DEF said

\* Those that report their stations report all of them.
LEMMA SummedIsHeld ==
    ASSUME NEW vaps, \A v \in vaps : v.count \subseteq {v.stations}
    PROVE  Summed(vaps) \subseteq {SumFunction([v \in vaps |-> v.stations])}
<1>1. CASE vaps = {} \/ \E v \in vaps : v.count = {}
  BY <1>1 DEF Summed
<1>2. CASE ~(vaps = {} \/ \E v \in vaps : v.count = {})
  <2>1. \A v \in vaps : v.count = {v.stations}
    BY <1>2
  <2>2. \A v \in vaps : The(v.count) = v.stations
    BY <2>1 DEF The
  <2>3. [v \in vaps |-> The(v.count)] = [v \in vaps |-> v.stations]
    BY <2>2
  <2>4. Summed(vaps) = {SumFunction([v \in vaps |-> The(v.count)])}
    BY <1>2 DEF Summed
  <2> QED  BY <2>3, <2>4
<1> QED  BY <1>1, <1>2

\* No statistics are kept under an omitted name.
LEMMA NamelessHasNoStats ==
    ASSUME NEW rep, Truthful(rep)
    PROVE  Statistics(rep, Blank) = NoStats
<1>1. ASSUME NEW j \in DOMAIN rep.stats
      PROVE  rep.stats[j].name # Blank
  BY StatsEntries, RadioEntries
<1>2. {j \in DOMAIN rep.stats : rep.stats[j].name = Blank} = {}
  BY <1>1
<1> QED  BY <1>2 DEF Statistics

\* What matchingVAPs finds is about the radio itself, or about one with its code.
LEMMA MatchesAreAlike ==
    ASSUME NEW rep, Truthful(rep), NEW i \in DOMAIN rep.radios, NEW v \in rep.vaps,
           Matches(rep.radios[i], v)
    PROVE  v.of \in Alike(rep, rep.radios[i].of)
<1> DEFINE r == rep.radios[i]
<1>1. PICK k \in DOMAIN rep.radios : rep.radios[k].of = v.of
  BY VAPEntries
<1>2. /\ v.name \in {Blank, NameOf[v.of]} /\ v.code \in {Blank, CodeOf[v.of], NameOf[v.of]}
      /\ r.name \in {Blank, NameOf[r.of]} /\ r.code \in {Blank, CodeOf[r.of]}
      /\ NameOf[v.of] = NameOf[r.of] => v.of = r.of
      /\ NameOf[v.of] # CodeOf[r.of] /\ NameOf[r.of] # CodeOf[v.of]
  BY <1>1, RadioEntries, VAPEntries
<1> HIDE DEF r
<1>3. CodeOf[v.of] = CodeOf[r.of]
  BY <1>2 DEF Matches, r
<1> QED  BY <1>1, <1>3 DEF Alike, r

LEMMA RadiosAreOwn ==
    ASSUME NEW rep, IsReport(rep), Uniform(rep), Truthful(rep), NEW i \in DOMAIN rep.radios
    PROVE  RadioIsOwn(rep, i)
<1> DEFINE e     == rep.radios[i]
           r     == e.of
           seen  == DecodeRadio(rep, i)
           stats == Statistics(rep, e.name)
           vaps  == {v \in rep.vaps : Matches(e, v)}
           inTable == UNION {rep.radios[j].channel : j \in {k \in DOMAIN rep.radios : rep.radios[k].of = r}}
           inStats == UNION {rep.stats[j].channel : j \in {k \in DOMAIN rep.stats : rep.stats[k].of = r}}
           alike   == UNION {SaidByVAPs(rep, q) : q \in Alike(rep, r)}
<1>1. inTable = e.channel /\ inTable \subseteq {ChannelOf[r]}
  <2>1. \A k \in DOMAIN rep.radios : rep.radios[k].of = r => k = i
    BY RadioEntries
  <2>2. {k \in DOMAIN rep.radios : rep.radios[k].of = r} = {i}
    BY <2>1
  <2>3. rep.radios[i].channel \subseteq {ChannelOf[r]}
    BY RadioEntries
  <2> QED  BY <2>2, <2>3
<1>2. e.name # Blank =>
        /\ stats.channel = inStats /\ inStats \subseteq {ChannelOf[r]}
        /\ stats.count \subseteq {Stations(rep, r)}
  BY StatisticsAreOwn
<1>3. e.name = Blank => stats.channel = {}
  BY NamelessHasNoStats DEF NoStats
<1>4. inStats \subseteq {ChannelOf[r]}
  BY StatsEntries
<1>5. Consistent(vaps) \subseteq alike
  <2>1. Consistent(vaps) \subseteq UNION {v.channel : v \in vaps}
    BY DEF Consistent
  <2>2. ASSUME NEW v \in vaps
        PROVE  v.channel \subseteq alike
    <3>1. v.of \in Alike(rep, r) /\ v \in rep.vaps
      BY MatchesAreAlike
    <3>2. v.channel \subseteq SaidByVAPs(rep, v.of)
      BY <3>1 DEF SaidByVAPs
    <3> QED  BY <3>1, <3>2
  <2> QED  BY <2>1, <2>2
<1>6. /\ seen.channel = Overlay(Consistent(vaps), Overlay(e.channel, stats.channel))
      /\ seen.count = Overlay(Summed(vaps), stats.count)
  BY DEF DecodeRadio
<1>7. SaidByTables(rep, r) = inTable \cup inStats
  BY DEF SaidByTables
<1>8. ASSUME Identified(rep, i)
      PROVE  /\ seen.channel = SaidByTables(rep, r) \cup SaidByVAPs(rep, r)
             /\ seen.count \subseteq {Stations(rep, r)}
  <2> DEFINE own == {v \in rep.vaps : v.of = r}
  <2>1. vaps = own
    BY <1>8, MatchesAreOwn
  <2>2. Consistent(own) = SaidByVAPs(rep, r) /\ SaidByVAPs(rep, r) \subseteq {ChannelOf[r]}
    <3>1. \A v \in own : v.channel \subseteq {ChannelOf[r]}
      BY VAPEntries
    <3> QED  BY <3>1, ConsistentIsSaid DEF SaidByVAPs
  <2>3. Summed(own) \subseteq {Stations(rep, r)}
    <3>1. \A v \in own : v.count \subseteq {v.stations}
      BY VAPEntries
    <3>2. Summed(own) \subseteq {SumFunction([v \in own |-> v.stations])}
      BY <3>1, SummedIsHeld
    <3> QED  BY <3>2 DEF Stations
  <2>4. e.name # Blank
    BY <1>8 DEF Identified
  <2> HIDE DEF e, r, seen, stats, vaps, own, inTable, inStats
  <2> QED  BY <1>1, <1>2, <1>6, <1>7, <2>1, <2>2, <2>3, <2>4 DEF Overlay
<1>9. ASSUME SaidByTables(rep, r) # {}, e.name # Blank \/ e.channel # {}
      PROVE  seen.channel = SaidByTables(rep, r)
  <2> HIDE DEF e, r, seen, stats, vaps, inTable, inStats
  <2> QED  BY <1>1, <1>2, <1>3, <1>4, <1>6, <1>7, <1>9 DEF Overlay
<1>10. seen.channel \subseteq SaidByTables(rep, r) \cup alike
  <2> HIDE DEF e, r, seen, stats, vaps, inTable, inStats, alike
  <2> QED  BY <1>1, <1>2, <1>3, <1>5, <1>6, <1>7 DEF Overlay
<1> QED  BY <1>8, <1>9, <1>10 DEF RadioIsOwn

\* No two radios of a table have one identifier.
LEMMA IdentifiersDiffer ==
    ASSUME NEW rep, IsReport(rep), Uniform(rep), Truthful(rep),
           NEW i \in DOMAIN rep.radios, NEW j \in DOMAIN rep.radios,
           StableRadioID(rep, i) = StableRadioID(rep, j)
    PROVE  i = j
<1> DEFINE r == rep.radios[i]
           q == rep.radios[j]
<1>1. /\ r.name \in {Blank, NameOf[r.of]} /\ q.name \in {Blank, NameOf[q.of]}
      /\ r.code \in {Blank, CodeOf[r.of]} /\ q.code \in {Blank, CodeOf[q.of]}
      /\ NameOf[r.of] = NameOf[q.of] => i = j
      /\ \A k \in DOMAIN Positional : Positional[k] \notin {CodeOf[r.of], CodeOf[q.of]}
  BY RadioEntries
<1>2. i \in DOMAIN Positional /\ j \in DOMAIN Positional
  <2>1. DOMAIN rep.radios = 1 .. Len(rep.radios) /\ Len(rep.radios) \in Nat
    BY LengthIsDomain DEF IsReport
  <2>2. Len(rep.radios) <= 4
    BY DEF Truthful, Positional
  <2> QED  BY <2>1, <2>2 DEF Positional
<1>3. r.name = Blank <=> q.name = Blank
  BY DEF Uniform
<1>4. CASE r.name # Blank
  BY <1>1, <1>3, <1>4 DEF StableRadioID
<1>5. CASE r.name = Blank
  <2>1. /\ StableRadioID(rep, i) = IF r.code # Blank /\ CodeCount(rep, r.code) = 1 THEN r.code ELSE Positional[i]
        /\ StableRadioID(rep, j) = IF q.code # Blank /\ CodeCount(rep, q.code) = 1 THEN q.code ELSE Positional[j]
    BY <1>3, <1>5 DEF StableRadioID
  <2>2. r.code = q.code /\ CodeCount(rep, r.code) = 1 => i = j
    BY CodeIsUnique
  <2>3. Positional[i] = Positional[j] => i = j
    BY <1>2 DEF Positional
  <2> HIDE DEF r, q
  <2> QED  BY <1>1, <1>2, <2>1, <2>2, <2>3
<1> QED  BY <1>4, <1>5

LEMMA ClientsAreOwn ==
    ASSUME NEW rep, IsReport(rep), Uniform(rep), Truthful(rep), NEW v \in rep.vaps
    PROVE  ClientIsOwn(rep, v)
<1> SUFFICES ASSUME NEW i \in DOMAIN rep.radios, ClientRadioID(rep, v) = StableRadioID(rep, i)
             PROVE  rep.radios[i].of = v.of
  BY DEF ClientIsOwn
<1> DEFINE Hit(k) == \/ v.name # Blank /\ v.name = rep.radios[k].name
                     \/ v.code # Blank /\ v.code = rep.radios[k].name
                     \/ v.code # Blank /\ v.code = rep.radios[k].code /\ CodeCount(rep, rep.radios[k].code) = 1
           hits == {k \in DOMAIN rep.radios : Hit(k)}
<1>1. ClientRadioID(rep, v) =
         IF hits # {} THEN StableRadioID(rep, Min(hits)) ELSE IF v.name # Blank THEN v.name ELSE v.code
  BY DEF ClientRadioID
<1>2. PICK o \in DOMAIN rep.radios : rep.radios[o].of = v.of
  BY VAPEntries
<1>3. /\ v.name \in {Blank, NameOf[v.of]} /\ v.code \in {Blank, CodeOf[v.of], NameOf[v.of]}
      /\ v.name # Blank \/ v.code # Blank
  BY VAPEntries
<1>4. ASSUME NEW k \in DOMAIN rep.radios
      PROVE  /\ NameOf[v.of] = NameOf[rep.radios[k].of] => v.of = rep.radios[k].of
             /\ NameOf[v.of] # CodeOf[rep.radios[k].of] /\ NameOf[rep.radios[k].of] # CodeOf[v.of]
             /\ NameOf[v.of] # Blank /\ CodeOf[v.of] # Blank
             /\ NameOf[rep.radios[k].of] # Blank /\ CodeOf[rep.radios[k].of] # Blank
             /\ rep.radios[k].name \in {Blank, NameOf[rep.radios[k].of]}
             /\ rep.radios[k].code \in {Blank, CodeOf[rep.radios[k].of]}
  BY <1>2, RadioEntries
<1>5. ASSUME NEW k \in hits
      PROVE  k = o
  <2>1. CASE NameOf[v.of] = NameOf[rep.radios[k].of]
    BY <1>2, <1>4, <2>1, RadioEntries
  <2>2. CASE NameOf[v.of] # NameOf[rep.radios[k].of]
    <3>1. /\ rep.radios[k].code = CodeOf[v.of] /\ rep.radios[k].code # Blank
          /\ CodeCount(rep, rep.radios[k].code) = 1
      <4>1. k \in DOMAIN rep.radios /\ Hit(k)
        OBVIOUS
      <4> HIDE DEF hits
      <4> QED  BY <1>3, <1>4, <2>2, <4>1
    <3>2. rep.radios[o].code = CodeOf[v.of]
      BY <1>2, <3>1, AllCoded
    <3> QED  BY <1>2, <3>1, <3>2, CodeIsUnique
  <2> QED  BY <2>1, <2>2
<1>6. CASE hits # {}
  <2>1. hits = {o}
    <3> HIDE DEF hits
    <3> QED  BY <1>5, <1>6
  <2>2. o \in Nat
    <3>1. DOMAIN rep.radios = 1 .. Len(rep.radios) /\ Len(rep.radios) \in Nat
      BY LengthIsDomain DEF IsReport
    <3> QED  BY <1>2, <3>1
  <2>3. Min(hits) = o
    <3> HIDE DEF hits
    <3> QED  BY <2>1, <2>2, MinOfOne
  <2>4. StableRadioID(rep, o) = StableRadioID(rep, i)
    BY <1>1, <1>6, <2>3
  <2>5. i = o
    BY <1>2, <2>4, IdentifiersDiffer
  <2> QED  BY <1>2, <2>5
<1>7. CASE hits = {}
  <2>1. ~Hit(i)
    BY <1>7
  <2>2. i \in DOMAIN Positional
    <3>1. DOMAIN rep.radios = 1 .. Len(rep.radios) /\ Len(rep.radios) \in Nat
      BY LengthIsDomain DEF IsReport
    <3>2. Len(rep.radios) <= 4
      BY DEF Truthful, Positional
    <3> QED  BY <3>1, <3>2 DEF Positional
  <2>3. Positional[i] \notin {NameOf[v.of], CodeOf[v.of]}
    BY <1>2, <2>2, RadioEntries
  <2>4. StableRadioID(rep, i) = IF v.name # Blank THEN v.name ELSE v.code
    BY <1>1, <1>7
  <2>5. \/ StableRadioID(rep, i) = rep.radios[i].name /\ rep.radios[i].name # Blank
        \/ StableRadioID(rep, i) = rep.radios[i].code /\ rep.radios[i].code # Blank
              /\ CodeCount(rep, rep.radios[i].code) = 1
        \/ StableRadioID(rep, i) = Positional[i]
    BY DEF StableRadioID
  <2> HIDE DEF hits
  <2> QED  BY <1>3, <1>4, <2>1, <2>3, <2>4, <2>5
<1> QED  BY <1>6, <1>7

\* As long as what reports say is so, a snapshot shows the channel and the stations
\* of an identified radio as its own, from whichever tables; a radio without a code
\* of its own may show the channel of its like where the tables are silent, and no
\* client is on a radio other than its own (decodeRadios, matchingVAPs,
\* clientRadioID).
THEOREM ObservationsStayOwn == Spec => []ObservationsAreOwn
<1>1. ReportInv => ObservationsAreOwn
  <2> SUFFICES ASSUME ReportInv, NEW rep \in AccessPoints
               PROVE  IsReport(rep) /\ Uniform(rep) /\ Truthful(rep)
    BY RadiosAreOwn, ClientsAreOwn DEF ObservationsAreOwn
  <2>1. PICK d \in DOMAIN report : rep = report[d]
    BY DEF AccessPoints
  <2>2. d \in Device /\ rep \in Report[d]
    BY <2>1 DEF ReportInv, ChangedAsListed, TypeOK
  <2> QED  BY <2>2, ReportAssumption
<1> QED  BY <1>1, ReportAlways, PTL
===============================================================================
