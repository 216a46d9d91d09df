----------------------------- MODULE DeviceReport -----------------------------
(***************************************************************************)
(* What the controller makes of a device's report, and how a resource      *)
(* command finds its device (internal/informmodel, internal/profile/       *)
(* descriptor.go and registry.go, internal/profile/ap/report.go,           *)
(* internal/controller/typed.go, cmd/unifi-go/resources.go).               *)
(*                                                                         *)
(* A report describes the same radio in up to three tables (radios, their  *)
(* statistics, virtual access points) that refer to it by name, by code or *)
(* by either, and the same port in up to two.  Each entry carries the      *)
(* radio it is really about, which only the properties look at.            *)
(*                                                                         *)
(* An omitted field is the empty set, an omitted text Blank.  The channel  *)
(* stands for channel and power, which are decoded alike; a width never    *)
(* comes from the statistics.  The uplink is the interface name that       *)
(* devices report, not the object of an emulator.                          *)
(***************************************************************************)
EXTENDS Naturals, Sequences, FiniteSets, FiniteSetsExt, Functions

CONSTANTS
    Device,     \* devices
    Radio,      \* the radios of the access points
    ChannelOf,  \* the channel a radio is on
    NameOf,     \* what its firmware calls a radio: "wifi0", ...
    CodeOf,     \* the code it gives to the radio's band, or to the radio alone
    Report,     \* the reports each device may send
    Client,     \* operators' resource commands
    Named,      \* the devices that operators name with --device
    SaveFails   \* TRUE: the state file may refuse to be written

Blank == ""
Family == {"ap", "switch"}
NoFamily == "none"

Optional(T) == {s \in SUBSET T : Cardinality(s) <= 1}
The(o) == CHOOSE v \in o : TRUE
Overlay(prior, supplied) == IF supplied # {} THEN supplied ELSE prior

Channel == {ChannelOf[r] : r \in Radio}
RadioEntry == [of : Radio, name : STRING, code : STRING, channel : Optional(Channel)]
StatsEntry == [of : Radio, name : STRING, channel : Optional(Channel), count : Optional(Nat)]

\* A virtual access point: RadioName, Radio, its measurements and its stations.
VAP == [of : Radio, name : STRING, code : STRING, channel : Optional(Channel),
        count : Optional(Nat), stations : Nat]

PortEntry == [name : STRING, up : Optional(BOOLEAN)]

\* valid: every address, VLAN and PoE mode in the report decodes.
IsReport(rep) ==
    /\ rep.type \in {"uap", "usw", Blank, "other"}
    /\ rep.radios \in Seq(RadioEntry)
    /\ rep.stats \in Seq(StatsEntry)
    /\ \A v \in rep.vaps : v \in VAP
    /\ rep.ports \in Seq(PortEntry)
    /\ rep.ethernet \in Seq(STRING)
    /\ rep.uplink \in STRING
    /\ rep.valid \in BOOLEAN

\* A report gives names, or codes, to all of its radios or to none, and interface
\* names to all of its ports or to none; names and interfaces are distinct.
Uniform(rep) ==
    /\ \A i, j \in DOMAIN rep.radios :
          /\ rep.radios[i].name = Blank <=> rep.radios[j].name = Blank
          /\ rep.radios[i].code = Blank <=> rep.radios[j].code = Blank
          /\ rep.radios[i].name = rep.radios[j].name /\ rep.radios[i].name # Blank => i = j
    /\ \A i, j \in DOMAIN rep.ports :
          /\ rep.ports[i].name = Blank <=> rep.ports[j].name = Blank
          /\ rep.ports[i].name = rep.ports[j].name /\ rep.ports[i].name # Blank => i = j

\* StableRadioIDs: identifiers by place in the report.
Positional == <<"radio-0", "radio-1", "radio-2", "radio-3">>

\* The stations on a radio.
Stations(rep, r) == SumFunction([v \in {w \in rep.vaps : w.of = r} |-> v.stations])

\* What a report says of a radio is so, as far as it says anything: a radio is
\* listed once, its statistics too, and every entry is about a listed radio, that
\* it names as the firmware does.
Truthful(rep) ==
    LET own == {rep.radios[i].of : i \in DOMAIN rep.radios} IN
    /\ Len(rep.radios) <= Len(Positional)
    /\ \A r, q \in own :
          /\ NameOf[r] = NameOf[q] => r = q
          /\ NameOf[r] # CodeOf[q]
          /\ NameOf[r] # Blank /\ CodeOf[r] # Blank
          /\ \A i \in DOMAIN Positional : Positional[i] \notin {NameOf[r], CodeOf[r]}
    /\ \A i \in DOMAIN rep.radios :
          LET e == rep.radios[i] IN
          /\ \A j \in DOMAIN rep.radios : rep.radios[j].of = e.of => i = j
          /\ e.name \in {Blank, NameOf[e.of]} /\ e.code \in {Blank, CodeOf[e.of]}
          /\ e.channel \subseteq {ChannelOf[e.of]}
    /\ \A i \in DOMAIN rep.stats :
          LET e == rep.stats[i] IN
          /\ \A j \in DOMAIN rep.stats : rep.stats[j].of = e.of => i = j
          /\ e.of \in own /\ e.name = NameOf[e.of]
          /\ e.channel \subseteq {ChannelOf[e.of]} /\ e.count \subseteq {Stations(rep, e.of)}
    /\ \A v \in rep.vaps :
          /\ v.of \in own
          /\ v.name \in {Blank, NameOf[v.of]} /\ v.code \in {Blank, CodeOf[v.of], NameOf[v.of]}
          /\ v.name # Blank \/ v.code # Blank
          /\ v.channel \subseteq {ChannelOf[v.of]} /\ v.count \subseteq {v.stations}

ASSUME ReportAssumption ==
    /\ \A d \in Device : \A rep \in Report[d] : Truthful(rep)
    /\ \A d \in Device : \A rep \in Report[d] : IsReport(rep) /\ Uniform(rep)
    /\ Named \subseteq Device
    /\ SaveFails \in BOOLEAN

-------------------------------------------------------------------------------
(* The descriptor *)

CodeCount(rep, code) == Cardinality({i \in DOMAIN rep.radios : rep.radios[i].code = code})

\* StableRadioIDs: the name, a code that no other radio has, or the position.
StableRadioID(rep, i) ==
    LET r == rep.radios[i] IN
    IF r.name # Blank THEN r.name
    ELSE IF r.code # Blank /\ CodeCount(rep, r.code) = 1 THEN r.code
    ELSE Positional[i]

\* reportedFamily: what the report says, else the hint; NoFamily where they
\* conflict or there is neither.
ReportedFamily(rep, hint) ==
    LET says == CASE rep.type = "uap" -> "ap"
                  [] rep.type = "usw" -> "switch"
                  [] rep.type = Blank /\ rep.radios # <<>> /\ rep.ports = <<>> -> "ap"
                  [] rep.type = Blank /\ rep.ports # <<>> /\ rep.radios = <<>> -> "switch"
                  [] OTHER -> NoFamily
    IN  IF rep.type = "other" THEN NoFamily
        ELSE IF says = NoFamily THEN hint
        ELSE IF hint \in {NoFamily, says} THEN says
        ELSE NoFamily

\* reportedPorts: an access point's Ethernet table goes before its ports.
ReportedPorts(rep, family) ==
    IF family # "ap" \/ rep.ethernet = <<>> THEN rep.ports
    ELSE [i \in DOMAIN rep.ethernet |-> [name |-> rep.ethernet[i], up |-> {}]]

Up(ports) == {i \in DOMAIN ports : TRUE \in ports[i].up}

\* Mutant: of several ports that are up, the first is taken.
SoleUpPortFirst(ports) == IF Up(ports) = {} THEN {} ELSE {Min(Up(ports))}

\* soleUpPortIndex
SoleUpPort(ports) == IF Cardinality(Up(ports)) = 1 THEN Up(ports) ELSE {}

\* The interface a descriptor gives to a port: the reported one, or the uplink's.
PortInterface(rep, family, i) ==
    LET ports == ReportedPorts(rep, family) IN
    IF ports[i].name # Blank THEN ports[i].name
    ELSE IF Len(ports) = 1 \/ i \in SoleUpPort(ports) THEN rep.uplink
    ELSE Blank

-------------------------------------------------------------------------------
(* The snapshot of an access point *)

\* matchingVAPs: the names and codes of a radio and a virtual access point meet.
Matches(r, v) ==
    \/ v.code # Blank /\ v.code \in {r.code, r.name}
    \/ v.name # Blank /\ v.name = r.name

\* consistentUint16, consistentInt: what those agree on that report it.
Consistent(vaps) ==
    LET said == UNION {v.channel : v \in vaps}
    IN  IF Cardinality(said) = 1 THEN said ELSE {}

\* summedClientCount
Summed(vaps) ==
    IF vaps = {} \/ \E v \in vaps : v.count = {} THEN {}
    ELSE {SumFunction([v \in vaps |-> The(v.count)])}

NoStats == [channel |-> {}, count |-> {}]

\* The statistics under a name; a later entry replaces an earlier one.
Statistics(rep, name) ==
    LET js == {j \in DOMAIN rep.stats : rep.stats[j].name = name}
    IN  IF js = {} THEN NoStats
        ELSE [channel |-> rep.stats[Max(js)].channel, count |-> rep.stats[Max(js)].count]

\* decodeRadios: statistics before the table, virtual access points where both
\* are silent.
DecodeRadio(rep, i) ==
    LET r     == rep.radios[i]
        stats == Statistics(rep, r.name)
        vaps  == {v \in rep.vaps : Matches(r, v)}
    IN  [id |-> StableRadioID(rep, i),
         channel |-> Overlay(Consistent(vaps), Overlay(r.channel, stats.channel)),
         count |-> Overlay(Summed(vaps), stats.count)]

\* Mutant: a code is enough, though several radios have it.
ClientRadioIDByCode(rep, v) ==
    LET hits == {i \in DOMAIN rep.radios : Matches(rep.radios[i], v)}
    IN  IF hits # {} THEN StableRadioID(rep, Min(hits))
        ELSE IF v.name # Blank THEN v.name ELSE v.code

\* clientRadioID: the first radio that the virtual access point names, or whose
\* code no other radio has; else whatever it calls its radio.
ClientRadioID(rep, v) ==
    LET hits == {i \in DOMAIN rep.radios :
                    LET r == rep.radios[i] IN
                    \/ v.name # Blank /\ v.name = r.name
                    \/ v.code # Blank /\ v.code = r.name
                    \/ v.code # Blank /\ v.code = r.code /\ CodeCount(rep, r.code) = 1}
    IN  IF hits # {} THEN StableRadioID(rep, Min(hits))
        ELSE IF v.name # Blank THEN v.name ELSE v.code

\* decodePhysicalUplink: the port the snapshot shows as the uplink.
UplinkPort(rep) ==
    LET n        == Len(rep.ports)
        direct   == {i \in 1 .. n : rep.ports[i].name = rep.uplink \/ (rep.ports[i].name = Blank /\ n = 1)}
        unnamed  == {i \in Up(rep.ports) : rep.ports[i].name = Blank}
    IN  IF rep.uplink = Blank THEN {}
        ELSE IF direct # {} THEN {Min(direct)}
        ELSE IF Cardinality(unnamed) = 1 THEN unnamed
        ELSE {}

-------------------------------------------------------------------------------
VARIABLES
    known,    \* registered devices
    family,   \* Device.Family in memory
    filed,    \* Device.Family in the state file
    report,   \* Controller.reports
    choice,   \* the device and family a command has settled on
    changed   \* history: the family the last change was meant for, and was made as

vars == <<known, family, filed, report, choice, changed>>

Choice == [family : Family, device : Device]

\* Every variable has its type: families, reports of the devices they came from,
\* choices.
TypeOK ==
    /\ known \subseteq Device
    /\ family \in [Device -> Family \cup {NoFamily}]
    /\ filed \in [Device -> Family \cup {NoFamily}]
    /\ DOMAIN report \subseteq known
    /\ \A d \in DOMAIN report : report[d] \in Report[d]
    /\ \A c \in Client : choice[c] \in Optional(Choice)
    /\ \A x \in changed : x.was \in Family /\ x.family \in Family \cup {NoFamily}

\* Register: the state file gets all of memory.
Register(d) ==
    /\ d \notin known
    /\ known' = known \cup {d}
    /\ filed' = family
    /\ UNCHANGED <<family, report, choice, changed>>

\* recordReport: the report is kept; a family that follows from it is stored in
\* memory, and stays there when it cannot be saved.
RecordReport(d, rep, saved) ==
    LET f == ReportedFamily(rep, family[d]) IN
    /\ d \in known
    /\ report' = [e \in DOMAIN report \cup {d} |-> IF e = d THEN rep ELSE report[e]]
    /\ family' = IF f = NoFamily THEN family ELSE [family EXCEPT ![d] = f]
    /\ filed' = IF f # NoFamily /\ saved THEN family' ELSE filed
    /\ UNCHANGED <<known, choice, changed>>

\* The controller restarts from the state file; commands of operators go on.
Restart ==
    /\ family' = filed
    /\ report' = [d \in {} |-> {}]
    /\ UNCHANGED <<known, filed, choice, changed>>

\* snapshotLocked succeeds.
Decodable(d) ==
    d \in DOMAIN report /\ family[d] # NoFamily =>
       ReportedFamily(report[d], family[d]) # NoFamily /\ report[d].valid

\* resourceDevice: the device the operator names, or the one device of the family
\* in a list of all devices, which one undecodable report would refuse.
ResourceDevice(c, f, d) ==
    /\ choice[c] = {}
    /\ \/ d \in Named
       \/ {e \in known : family[e] = f} = {d} /\ \A e \in known : Decodable(e)
    /\ choice' = [choice EXCEPT ![c] = {[family |-> f, device |-> d]}]
    /\ UNCHANGED <<known, family, filed, report, changed>>

\* Mutant: mutateDesired trusts the caller's family, if the report allows it.
AdmitsUnchecked(x) ==
    x.device \in DOMAIN report /\ ReportedFamily(report[x.device], x.family) # NoFamily

\* mutateDesired, as far as family and report go.
Admits(x) ==
    /\ family[x.device] = x.family
    /\ x.device \in DOMAIN report
    /\ ReportedFamily(report[x.device], x.family) # NoFamily

\* The command arrives: the change is made, or refused.
Mutate(c) ==
    /\ choice[c] # {}
    /\ choice' = [choice EXCEPT ![c] = {}]
    /\ changed' = {[was |-> x.family, family |-> family[x.device]] : x \in {y \in choice[c] : Admits(y)}}
    /\ UNCHANGED <<known, family, filed, report>>

\* A resource command: it settles on a device of the family it is for, then sends
\* one request.
RunResource(c) ==
    \/ \E f \in Family, d \in Device : ResourceDevice(c, f, d)
    \/ Mutate(c)

Init ==
    /\ known = {}
    /\ family = [d \in Device |-> NoFamily]
    /\ filed = family
    /\ report = [d \in {} |-> {}]
    /\ choice = [c \in Client |-> {}]
    /\ changed = {}

Next ==
    \/ \E d \in Device : Register(d)
    \/ \E d \in Device, saved \in {TRUE} \cup {~SaveFails} :
          \E rep \in Report[d] : RecordReport(d, rep, saved)
    \/ Restart
    \/ \E c \in Client : RunResource(c)

Spec == Init /\ [][Next]_vars

-------------------------------------------------------------------------------
(* Properties *)

AccessPoints == {report[d] : d \in {e \in DOMAIN report : family[e] = "ap"}}

\* The report names the radio, and gives it a code that no other radio has.
Identified(rep, i) ==
    LET r == rep.radios[i]
    IN  r.name # Blank /\ r.code # Blank /\ CodeCount(rep, r.code) = 1

\* What virtual access points report of the radio they are on.
SaidByVAPs(rep, r) == UNION {v.channel : v \in {w \in rep.vaps : w.of = r}}

\* What the tables of radios and of their statistics say of it.
SaidByTables(rep, r) ==
    LET about(f) == {k \in DOMAIN f : f[k].of = r}
    IN  (UNION {rep.radios[k].channel : k \in about(rep.radios)})
          \cup (UNION {rep.stats[k].channel : k \in about(rep.stats)})

\* The radios of the report with the same code, for which one may be taken.
Alike(rep, r) == {q \in {rep.radios[k].of : k \in DOMAIN rep.radios} : CodeOf[q] = CodeOf[r]}

\* What is shown of a radio that the report identifies is what the report says of
\* this radio, in any of its tables, and nothing else.  Of any other, what the tables
\* say of it stands, its statistics if it has a name; where they are silent it may
\* show what virtual access points report of a radio with the same code, never of
\* one with another code.
RadioIsOwn(rep, i) ==
    LET e    == rep.radios[i]
        seen == DecodeRadio(rep, i)
    IN  /\ Identified(rep, i) =>
              /\ seen.channel = SaidByTables(rep, e.of) \cup SaidByVAPs(rep, e.of)
              /\ seen.count \subseteq {Stations(rep, e.of)}
        /\ SaidByTables(rep, e.of) # {} /\ (e.name # Blank \/ e.channel # {}) =>
              seen.channel = SaidByTables(rep, e.of)
        /\ seen.channel \subseteq SaidByTables(rep, e.of)
              \cup UNION {SaidByVAPs(rep, q) : q \in Alike(rep, e.of)}

\* A client is not shown on a listed radio other than its own.
ClientIsOwn(rep, v) ==
    \A i \in DOMAIN rep.radios :
       ClientRadioID(rep, v) = StableRadioID(rep, i) => rep.radios[i].of = v.of

\* A snapshot attributes what was observed: what is missing stays absent, a radio
\* that the report identifies absorbs nothing that was observed on another, one that
\* shares its code absorbs at most what was observed on its like, and only where the
\* other tables are silent (matchingVAPs compares codes alone).  A client is never
\* shown on a radio other than its own; where a virtual access point does not tell
\* radios apart, it is shown under a name that no listed radio has.
ObservationsAreOwn ==
    \A rep \in AccessPoints :
       /\ \A i \in DOMAIN rep.radios : RadioIsOwn(rep, i)
       /\ \A v \in rep.vaps : ClientIsOwn(rep, v)

\* The descriptor, which decides what VLAN interfaces are made of, and the
\* snapshot, which an operator reads, agree on the port that is the uplink, and no
\* two ports are given one interface.
UplinkPortAgrees ==
    \A rep \in AccessPoints :
       rep.ethernet = <<>> /\ rep.uplink # Blank =>
          {i \in DOMAIN rep.ports : PortInterface(rep, "ap", i) = rep.uplink} = UplinkPort(rep)

\* A command changes a device as the family the command is for, and the list showed
\* it in, or not at all, though the controller may have restarted, forgotten a
\* family that could not be saved, and been told something else since.  Reports and
\* families are those of registered devices.
ChangedAsListed ==
    TypeOK /\ \A x \in changed : x.family = x.was
===============================================================================
