----------------------------- MODULE WifiCompiler -----------------------------
(***************************************************************************)
(* The WLANs of an access point, as its compiler composes them             *)
(* (internal/profile/ap/compiler.go, radio.go).                            *)
(*                                                                         *)
(* A WLAN on a radio is spread over numbered records that refer to each    *)
(* other by interface name: a wireless and an aaa record, a netconf        *)
(* record, a bridge member, filters, an entry of the radio.  A VLAN has a  *)
(* bridge, VLAN interfaces on the uplink ports and their netconf records,  *)
(* made for its first WLAN and collected after its last one.  Compile      *)
(* resolves the records of every owned WLAN, composes the request radio by *)
(* radio on a copy of the body, and then removes what is no longer wanted  *)
(* by the numbers it resolved at the start.                                *)
(*                                                                         *)
(* Operators on a body b give the set of the resulting body, or the empty  *)
(* set where the code returns an error.  An optional field is the empty    *)
(* set when omitted.  Country code, radio settings and SSH are left out;   *)
(* enabled, BSS transition and security are one policy.                    *)
(***************************************************************************)
EXTENDS Naturals, FiniteSets, Sequences, SequencesExt

CONSTANTS
    Name,      \* WLAN names, numbered as they sort
    Radio,     \* radios, numbered as their interfaces and their identifiers sort
    Prefixed,  \* radios with an interface wifi<n>: their WLANs are named after them
    VLAN,      \* VLAN numbers; 0 is no VLAN
    Policy,    \* values of the other settings of a WLAN
    Uplink,    \* the interfaces of the reported ports, in order
    Report,    \* sets of radios the access point may report
    Baseline,  \* bodies with projections that an operator may import
    Patch,     \* what a request may say of one WLAN
    MaxRuns    \* bound: compilations explored after an import

Optional(T) == {{}} \cup {{v} : v \in T}

WiFiNetwork ==
    [policy : Optional(Policy),
     vlan   : Optional(VLAN \cup {0}),
     radios : Optional(SUBSET Radio)]

Unchanged == [policy |-> {}, vlan |-> {}, radios |-> {}]

APConfig == UNION {[S -> WiFiNetwork] : S \in SUBSET Name}

ASSUME WifiAssumption ==
    /\ Name \subseteq Nat /\ Radio \subseteq Nat /\ Prefixed \subseteq Radio
    /\ VLAN \subseteq Nat \ {0}
    /\ Patch \subseteq WiFiNetwork
    /\ \A r \in Report : r \subseteq Radio
    /\ Uplink \in Seq(Nat) /\ IsInjective(Uplink)
    /\ MaxRuns \in Nat

\* Interface names: of a WLAN, of a VLAN on an uplink port, of a bridge.
Dev(kind, a, b) == [kind |-> kind, a |-> a, b |-> b]
NoDev == Dev("none", 0, 0)
Wire(u, v) == Dev("wire", u, v)
Br(v) == Dev("br", 0, v)
VirtualInterface(r, i) == Dev("ap", IF r \in Prefixed THEN r ELSE 0, i)

-------------------------------------------------------------------------------
(* Numbered records *)

Least(S) == CHOOSE x \in S : \A y \in S : x <= y

\* The first of RecordPrefixes, which sorts them as text: not the least number once
\* there are ten records, so nothing is said of which one it is.
FirstPrefix(S) == CHOOSE x \in S : TRUE

\* The least number no record has.
NextRecord(f) == Least((1 .. Cardinality(DOMAIN f) + 1) \ DOMAIN f)

Put(f, x) ==
    LET n == NextRecord(f) IN [m \in DOMAIN f \cup {n} |-> IF m = n THEN x ELSE f[m]]

PutAll(f, xs) ==
    LET put[k \in 0 .. Len(xs)] == IF k = 0 THEN f ELSE Put(put[k - 1], xs[k])
    IN  put[Len(xs)]

DeleteRecord(f, S) == [n \in DOMAIN f \ S |-> f[n]]

\* The records with a device name.
Named(f, dev) == {n \in DOMAIN f : f[n].dev = dev}

At(f, dev) == {n \in DOMAIN f : f[n] = dev}

\* The interface names that the records of one kind use.
Uses(f) == {f[n] : n \in DOMAIN f}

\* A body: wireless, aaa and radio records by their fields; netconf and vlan
\* records and bridge members by the interface they name; filters by the
\* interfaces their command names.
Members(b, dev) ==
    {x \in UNION {{<<i, j>> : j \in DOMAIN b.bridge[i].port} : i \in DOMAIN b.bridge} :
        b.bridge[x[1]].port[x[2]] = dev}

WirelessDevs(b) == {b.wireless[n].dev : n \in DOMAIN b.wireless}

Devs(b) ==
    WirelessDevs(b)
        \cup {b.aaa[n].dev : n \in DOMAIN b.aaa}
        \cup Uses(b.netconf)
        \cup (UNION {Uses(b.bridge[i].port) : i \in DOMAIN b.bridge})
        \cup (UNION {{b.radio[r].dev} \cup Uses(b.radio[r].virtual) : r \in DOMAIN b.radio})

-------------------------------------------------------------------------------
(* Resolving a WLAN on a radio to its records *)

Wireless(b, name, r) ==
    {n \in DOMAIN b.wireless : b.wireless[n].ssid = name /\ b.wireless[n].parent = r}

Filters(b, dev) == {n \in DOMAIN b.filter : dev \in b.filter[n]}

\* Records w and a are the WLAN's on the radio, and nothing about it is ambiguous.
Owns(b, name, r, w, a) ==
    LET dev == b.wireless[w].dev
        home == Named(b.bridge, b.aaa[a].br)
    IN  /\ Wireless(b, name, r) = {w}
        /\ dev # NoDev /\ Named(b.wireless, dev) = {w}
        /\ Named(b.aaa, dev) = {a} /\ b.aaa[a].ssid = name
        /\ Cardinality(At(b.netconf, dev)) <= 1
        /\ Cardinality(home) = 1
        /\ Cardinality(Members(b, dev)) <= 1
        /\ \A m \in Members(b, dev) : m[1] \in home
        /\ \A n \in Filters(b, dev) : b.filter[n] \cap WirelessDevs(b) = {dev}

\* resolveWiFi: the binding of the WLAN on the radio, if there is a unique one.
ResolveWiFi(b, name, r) ==
    LET binding(w, a) ==
            [name |-> name, radio |-> r, wireless |-> w, aaa |-> a,
             netconf |-> At(b.netconf, b.wireless[w].dev),
             member |-> Members(b, b.wireless[w].dev),
             filter |-> Filters(b, b.wireless[w].dev)]
        records(w) == {a \in Named(b.aaa, b.wireless[w].dev) : Owns(b, name, r, w, a)}
    IN  UNION {{binding(w, a) : a \in records(w)} : w \in Wireless(b, name, r)}

\* The radios a WLAN selects, none if it does not say or they are not reported.
Selected(f, reported) == IF UNION f.radios \subseteq reported THEN UNION f.radios ELSE {}

Pairs(c, reported) == UNION {{<<w, r>> : r \in Selected(c[w], reported)} : w \in DOMAIN c}

\* resolveBindings succeeds.
Resolves(b, c, reported) ==
    /\ \A w \in DOMAIN c : Selected(c[w], reported) # {}
    /\ \A x \in Pairs(c, reported) : ResolveWiFi(b, x[1], x[2]) # {}

ResolveBindings(b, c, reported) ==
    UNION {ResolveWiFi(b, x[1], x[2]) : x \in Pairs(c, reported)}

-------------------------------------------------------------------------------
(* Bridges *)

UsedByOtherBridge(b, i, dev) == \E m \in Members(b, dev) : m[1] # i

\* Mutant: an unused bridge is left.
RemoveUnusedBridgeNever(b, name) == {b}

\* removeUnusedBridge: a VLAN bridge no aaa record refers to goes, with the VLAN
\* interfaces that only it holds, unless it holds any other interface.
RemoveUnusedBridge(b, name) ==
    LET found == Named(b.bridge, name)
        i == Least(found)
        wires == {b.bridge[i].port[j] : j \in DOMAIN b.bridge[i].port}
        gone == {dev \in wires : ~UsedByOtherBridge(b, i, dev)}
        doubled == \E dev \in gone \cup {name} : Cardinality(At(b.netconf, dev)) > 1
    IN  CASE name \in {NoDev, Br(0)} \/ \E n \in DOMAIN b.aaa : b.aaa[n].br = name -> {b}
          [] OTHER ->
             CASE found = {} -> {b}
               [] Cardinality(found) > 1 -> {}
               [] OTHER ->
                  IF \E dev \in wires : At(b.vlan, dev) = {} THEN {b}
                  ELSE IF doubled THEN {}
                  ELSE {[b EXCEPT
                           !.vlan = DeleteRecord(@, {Least(At(@, dev)) : dev \in gone}),
                           !.netconf = DeleteRecord(@, UNION {At(@, dev) : dev \in gone \cup {name}}),
                           !.bridge = DeleteRecord(@, found)]}

\* The bridge of a VLAN is made with its VLAN interfaces when it is missing.
WithBridge(b, v) ==
    LET wires == [k \in DOMAIN Uplink |-> Wire(Uplink[k], v)] IN
    CASE Cardinality(Named(b.bridge, Br(v))) = 1 -> {b}
      [] Cardinality(Named(b.bridge, Br(v))) > 1 -> {}
      [] OTHER ->
         IF v = 0 THEN {}
         ELSE {[b EXCEPT
                  !.bridge = Put(@, [dev |-> Br(v), port |-> PutAll([n \in {} |-> NoDev], wires)]),
                  !.netconf = PutAll(@, <<Br(v)>> \o wires),
                  !.vlan = PutAll(@, wires)]}

\* Mutant: the interface stays a member of the bridge it leaves.
MoveMemberCopies(b, i, dev) == [b EXCEPT !.bridge[i].port = Put(@, dev)]

\* The interface becomes a member of bridge i.  Its new number is chosen while
\* its old member is still there.
MoveMember(b, i, dev) ==
    LET old == Members(b, dev)
        new == NextRecord(b.bridge[i].port)
        kept(k) == {j \in DOMAIN b.bridge[k].port : <<k, j>> \notin old}
        ports(k) == [j \in kept(k) \cup (IF k = i THEN {new} ELSE {}) |->
                        IF k = i /\ j = new THEN dev ELSE b.bridge[k].port[j]]
    IN  [b EXCEPT !.bridge = [k \in DOMAIN b.bridge |-> [b.bridge[k] EXCEPT !.port = ports(k)]]]

\* Mutant: an interface that is where it should be moves as well.
AssignBridgeAlways(b, w, a, v) ==
    LET dev == b.wireless[w].dev
        moved(c) == [MoveMember(c, Least(Named(c.bridge, Br(v))), dev) EXCEPT !.aaa[a].br = Br(v)]
    IN  UNION {RemoveUnusedBridge(moved(c), b.aaa[a].br) :
                  c \in {x \in WithBridge(b, v) : Cardinality(Members(x, dev)) <= 1}}

\* assignBridge: an interface moves to the bridge of a VLAN.
AssignBridge(b, w, a, v) ==
    LET old == b.aaa[a].br
        dev == b.wireless[w].dev
        moved(c) == [MoveMember(c, Least(Named(c.bridge, Br(v))), dev) EXCEPT !.aaa[a].br = Br(v)]
    IN  IF old = Br(v) THEN {b}
        ELSE UNION {RemoveUnusedBridge(moved(c), old) :
                       c \in {x \in WithBridge(b, v) : Cardinality(Members(x, dev)) <= 1}}

-------------------------------------------------------------------------------
(* Composing one WLAN on one radio *)

\* overlayWiFi: what the request supplies.
OverlayWiFi(b, w, a, f) ==
    LET c == IF f.policy = {} THEN b
             ELSE [b EXCEPT !.aaa[a].policy = CHOOSE p \in f.policy : TRUE]
    IN  IF f.vlan = {} THEN {c} ELSE UNION {AssignBridge(c, w, a, v) : v \in f.vlan}

AvailableInterface(b, r) ==
    VirtualInterface(r, Least({i \in 0 .. Cardinality(Devs(b)) :
                                  VirtualInterface(r, i) \notin Devs(b)}))

\* The radio names an interface: as its own if it has none, else as a virtual one.
WithInterface(b, r, dev) ==
    IF b.radio[r].dev = NoDev THEN [b EXCEPT !.radio[r].dev = dev]
    ELSE [b EXCEPT !.radio[r].virtual = Put(@, dev)]

\* copyWiFiRecords and the rest of addWiFi for a WLAN with a source binding s.  A
\* source without a netconf record or a bridge member gets the copy both, in the rest
\* of addWiFi; which copied filter gets which number is left open by SetToSeq.
CopyWiFi(b, s, name, r) ==
    LET dev == AvailableInterface(b, r)
        old == b.wireless[s.wireless].dev
        home == Least(Named(b.bridge, b.aaa[s.aaa].br))
    IN  WithInterface(
          [b EXCEPT
             !.wireless = Put(@, [ssid |-> name, parent |-> r, dev |-> dev]),
             !.aaa = Put(@, [@[s.aaa] EXCEPT !.ssid = name, !.dev = dev]),
             !.netconf = Put(@, dev),
             !.bridge[home].port = Put(@, dev),
             !.filter = PutAll(@, [k \in 1 .. Cardinality(s.filter) |->
                           (b.filter[SetToSeq(s.filter)[k]] \ {old}) \cup {dev}])],
          r, dev)

\* addWiFi for a WLAN without a source.
NewWiFi(b, name, r, f) ==
    LET dev == AvailableInterface(b, r)
        w == NextRecord(b.wireless)
        a == NextRecord(b.aaa)
        made == [b EXCEPT
                   !.wireless = Put(@, [ssid |-> name, parent |-> r, dev |-> dev]),
                   !.aaa = Put(@, [ssid |-> name, dev |-> dev, br |-> NoDev,
                                   policy |-> CHOOSE p \in f.policy : TRUE]),
                   !.netconf = Put(@, dev)]
    IN  OverlayWiFi(WithInterface(made, r, dev), w, a, f)

\* requireWiFiPolicy
Complete(f) == f.policy # {} /\ f.vlan # {} /\ f.radios # {}

\* selectWiFiSource: a copy names its source, on the same radio; otherwise the
\* WLAN itself on another radio.
Sources(bindings, name, from, r) ==
    IF from # {} THEN {s \in bindings : s.name \in from /\ s.radio = r}
    ELSE {s \in bindings : s.name = name}

\* refreshWiFiBinding: its records may have moved since.
Refresh(b, s) == ResolveWiFi(b, s.name, s.radio)

\* addWiFi, for the effective settings f.
AddWiFi(b, bindings, name, from, r, f) ==
    LET sources == Sources(bindings, name, from, r) IN
    IF Cardinality(sources) > 1 \/ (from # {} /\ sources = {}) \/ r \notin DOMAIN b.radio THEN {}
    ELSE IF sources # {} THEN {CopyWiFi(b, s, name, r) : s \in UNION {Refresh(b, x) : x \in sources}}
    ELSE IF Complete(f) THEN NewWiFi(b, name, r, f) ELSE {}

-------------------------------------------------------------------------------
(* Removing one WLAN from one radio *)

\* removeRadioInterface: another WLAN of the radio becomes its own interface.
RemoveRadioInterface(b, r, dev) ==
    LET left == {n \in DOMAIN b.wireless : b.wireless[n].parent = r} IN
    IF r \notin DOMAIN b.radio THEN b
    ELSE [b EXCEPT
            !.radio[r].virtual = DeleteRecord(@, At(@, dev)),
            !.radio[r].dev = IF @ # dev THEN @
                             ELSE IF left = {} THEN NoDev ELSE b.wireless[FirstPrefix(left)].dev]

\* removeWiFi, by the record numbers of the binding s.
RemoveWiFi(b, s) ==
    LET dev == b.wireless[s.wireless].dev
        gone == [b EXCEPT
                   !.wireless = DeleteRecord(@, {s.wireless}),
                   !.aaa = DeleteRecord(@, {s.aaa}),
                   !.netconf = DeleteRecord(@, s.netconf),
                   !.filter = DeleteRecord(@, s.filter),
                   !.bridge = [i \in DOMAIN b.bridge |-> [b.bridge[i] EXCEPT !.port =
                                 DeleteRecord(@, {m[2] : m \in {x \in s.member : x[1] = i}})]]]
    IN  RemoveUnusedBridge(RemoveRadioInterface(gone, b.wireless[s.wireless].parent, dev),
                           b.aaa[s.aaa].br)

-------------------------------------------------------------------------------
(* Bodies *)

Interface == [kind : {"none", "ap", "wire", "br"}, a : Nat, b : Nat]

WirelessRecord == [ssid : Name, parent : Radio, dev : Interface]

AAARecord == [ssid : Name, dev : Interface, br : Interface, policy : Policy]

\* Records of a type, numbered from 1.
Numbered(f, T) ==
    /\ IsFiniteSet(DOMAIN f) /\ DOMAIN f \subseteq Nat \ {0}
    /\ f \in [DOMAIN f -> T]

Body(b) ==
    /\ b = [wireless |-> b.wireless, aaa |-> b.aaa, netconf |-> b.netconf, vlan |-> b.vlan,
            bridge |-> b.bridge, radio |-> b.radio, filter |-> b.filter]
    /\ Numbered(b.wireless, WirelessRecord) /\ Numbered(b.aaa, AAARecord)
    /\ Numbered(b.netconf, Interface) /\ Numbered(b.vlan, Interface)
    /\ Numbered(b.filter, SUBSET Interface)
    /\ IsFiniteSet(DOMAIN b.bridge) /\ DOMAIN b.bridge \subseteq Nat \ {0}
    /\ b.bridge = [i \in DOMAIN b.bridge |-> [dev |-> b.bridge[i].dev, port |-> b.bridge[i].port]]
    /\ \A i \in DOMAIN b.bridge : /\ b.bridge[i].dev \in Interface
                                  /\ Numbered(b.bridge[i].port, Interface)
    /\ IsFiniteSet(DOMAIN b.radio) /\ DOMAIN b.radio \subseteq Radio
    /\ b.radio = [r \in DOMAIN b.radio |->
                     [dev |-> b.radio[r].dev, virtual |-> b.radio[r].virtual]]
    /\ \A r \in DOMAIN b.radio : /\ b.radio[r].dev \in Interface
                                 /\ Numbered(b.radio[r].virtual, Interface)

\* Each WLAN on a radio has one wireless and one aaa record, about one interface.
WLANsMatch(b) ==
    /\ \A m, n \in DOMAIN b.wireless : b.wireless[m].dev = b.wireless[n].dev => m = n
    /\ \A m, n \in DOMAIN b.aaa : b.aaa[m].dev = b.aaa[n].dev => m = n
    /\ \A m \in DOMAIN b.wireless : b.wireless[m].dev.kind = "ap"
                                     /\ \E n \in DOMAIN b.aaa : /\ b.aaa[n].dev = b.wireless[m].dev
                                                               /\ b.aaa[n].ssid = b.wireless[m].ssid
    /\ \A n \in DOMAIN b.aaa : b.aaa[n].dev \in WirelessDevs(b)

OnRadio(b, r) == {b.wireless[n].dev : n \in {m \in DOMAIN b.wireless : b.wireless[m].parent = r}}

\* A radio names the interfaces of its WLANs.
RadiosMatch(b) ==
    \A r \in DOMAIN b.radio :
        (Uses(b.radio[r].virtual) \cup {b.radio[r].dev}) \ {NoDev} = OnRadio(b, r)

\* A filter is about one WLAN interface, if it is about any.
FiltersMatch(b) ==
    \A n \in DOMAIN b.filter : \A d, e \in b.filter[n] :
        d.kind = "ap" /\ e.kind = "ap" => d = e /\ d \in WirelessDevs(b)

\* The bridges are brs, the management bridge among them.
BridgesMatch(b, brs) ==
    /\ brs \subseteq {Br(v) : v \in VLAN \cup {0}} /\ Br(0) \in brs
    /\ {b.bridge[i].dev : i \in DOMAIN b.bridge} = brs
    /\ \A i, k \in DOMAIN b.bridge : b.bridge[i].dev = b.bridge[k].dev => i = k

\* The VLAN interfaces of the bridges brs.
Wires(brs) == {Wire(Uplink[k], d.b) : k \in DOMAIN Uplink, d \in brs \ {Br(0)}}

\* A bridge holds the VLAN interfaces of its VLAN and interfaces of WLANs; no
\* interface is a member of two bridges, or twice of one.
PortsMatch(b) ==
    /\ \A i \in DOMAIN b.bridge :
          /\ IsInjective(b.bridge[i].port)
          /\ Wires({b.bridge[i].dev}) \subseteq Uses(b.bridge[i].port)
          /\ \A d \in Uses(b.bridge[i].port) :
                \/ d.kind = "ap" /\ d \in WirelessDevs(b)
                \/ d.kind = "wire" /\ d.b = b.bridge[i].dev.b
                      /\ (d.b # 0 => d \in Wires({b.bridge[i].dev}))
    /\ \A i, k \in DOMAIN b.bridge :
          i # k => Uses(b.bridge[i].port) \cap Uses(b.bridge[k].port) = {}

\* A VLAN record for each VLAN interface, and a netconf record for each VLAN
\* interface and bridge; what other WLAN interfaces have one is not fixed.
RecordsMatch(b, brs) ==
    /\ IsInjective(b.vlan) /\ Uses(b.vlan) = Wires(brs)
    /\ IsInjective(b.netconf)
    /\ \A d \in Uses(b.netconf) : d.kind = "ap" => d \in WirelessDevs(b)
    /\ {d \in Uses(b.netconf) : d.kind # "ap"} \ {Br(0)} = Wires(brs) \cup (brs \ {Br(0)})

\* The WLAN of an aaa record is a member of the bridge that the record names.
Homed(b, n) ==
    \E i \in DOMAIN b.bridge :
        b.bridge[i].dev = b.aaa[n].br /\ b.aaa[n].dev \in Uses(b.bridge[i].port)

Fits(b, brs) ==
    /\ WLANsMatch(b) /\ RadiosMatch(b) /\ FiltersMatch(b)
    /\ BridgesMatch(b, brs) /\ PortsMatch(b) /\ RecordsMatch(b, brs)

Used(b) == {b.aaa[n].br : n \in DOMAIN b.aaa} \cup {Br(0)}

\* The records of a WLAN come and go together, and the bridges are those of the
\* VLANs that some WLAN uses: none is missing, none stays behind.
Whole(b) == Fits(b, Used(b)) /\ \A n \in DOMAIN b.aaa : Homed(b, n)

\* Where a bridge lists an interface twice, collecting it deletes a record whose
\* prefix is empty, and with it the whole body; imported bodies are whole.
ASSUME BaselineAssumption ==
    \A b \in Baseline : Body(b.body) /\ Whole(b.body) /\ b.desired \in APConfig

-------------------------------------------------------------------------------
VARIABLES
    body,      \* the stored body
    desired,   \* DesiredAP: the typed projection of the owned WLANs
    pc,        \* Compile: "idle", "compose"
    draft,     \* the copy it works on
    reported,  \* the radios of the report it was called with
    request,   \* the request it was called with
    copies,    \* WiFiCopies: new names and the WLANs they are copied from
    bindings,  \* the records of the owned WLANs, as resolved at the start
    todo,      \* WLANs and radios it has still to compose
    drop,      \* bindings it has still to remove
    asked,     \* history: WLANs the operator asked to change or remove
    supplied,  \* history: fields supplied for a WLAN since it is owned
    last,      \* history: the request committed last
    repeat,    \* history: Compile runs the request committed last
    runs       \* compilations begun since the import

stored == <<body, desired>>
call == <<reported, request, copies, bindings>>
history == <<asked, supplied, last, repeat, runs>>
vars == <<stored, pc, draft, call, todo, drop, history>>

Binding ==
    [name : Name, radio : Radio, wireless : Nat, aaa : Nat, netconf : SUBSET Nat,
     member : SUBSET (Nat \X Nat), filter : SUBSET Nat]

\* Every variable has its type: in the stored body and in the copy, records of
\* every kind are numbered from 1 and name WLANs, radios and interfaces.
TypeOK ==
    /\ Body(body) /\ Body(draft)
    /\ desired \in APConfig /\ request \in APConfig
    /\ pc \in {"idle", "compose"}
    /\ reported \subseteq Radio
    /\ DOMAIN copies \subseteq Name /\ \A w \in DOMAIN copies : copies[w] \in Name
    /\ \A s \in bindings \cup drop : s \in Binding
    /\ todo \subseteq Name \X Radio
    /\ asked \subseteq Name
    /\ supplied \in [Name -> SUBSET {"policy", "vlan", "radios"}]
    /\ last \subseteq APConfig
    /\ repeat \in BOOLEAN
    /\ runs \in 0 .. MaxRuns

Nothing == [w \in {} |-> Unchanged]

MergeWiFi(old, new) ==
    [x \in {"policy", "vlan", "radios"} |-> IF new[x] # {} THEN new[x] ELSE old[x]]

\* mergeEffectiveConfig: copied WLANs start from their source's projection.
MergeEffective(prior, new, from) ==
    [w \in DOMAIN new |->
        IF w \in DOMAIN from THEN MergeWiFi(prior[from[w]], new[w])
        ELSE IF w \in DOMAIN prior THEN MergeWiFi(prior[w], new[w])
        ELSE new[w]]

Effective == MergeEffective(desired, request, copies)

\* Compile up to its first loop.
Begin(rep, new, from) ==
    LET effective == MergeEffective(desired, new, from)
        resolved == ResolveBindings(body, desired, rep)
        pairs == Pairs(effective, rep)
    IN  /\ pc = "idle" /\ runs < MaxRuns
        /\ \A w \in DOMAIN effective : Selected(effective[w], rep) # {}
        /\ Resolves(body, desired, rep)
        /\ pc' = "compose"
        /\ draft' = body
        /\ reported' = rep /\ request' = new /\ copies' = from
        /\ bindings' = resolved
        /\ todo' = pairs
        /\ drop' = {s \in resolved : <<s.name, s.radio>> \notin pairs}
        /\ repeat' = (new \in last /\ from = Nothing) /\ last' = {}
        /\ runs' = runs + 1
        /\ UNCHANGED <<stored, supplied>>

Requested(new) == {w \in DOMAIN new : new[w] # Unchanged}

\* Apply: the request is the complete collection of WLANs.
Apply(rep, new) ==
    /\ Begin(rep, new, Nothing)
    /\ asked' = Requested(new) \cup (DOMAIN desired \ DOMAIN new)

\* Mutant: the change names no other WLAN, so the others are removed.
OthersNone(S) == Nothing

\* wifiMutationRequest: the owned WLANs but those in S, by name only.
Others(S) == [w \in DOMAIN desired \ S |-> Unchanged]

With(c, w, f) == [x \in DOMAIN c \cup {w} |-> IF x = w THEN f ELSE c[x]]

\* addWiFi of the controller: a copy of a WLAN with its own password.
AddNetwork(rep, w, from, p) ==
    /\ from \in DOMAIN desired /\ w \notin DOMAIN desired
    /\ Begin(rep, With(Others({}), w, [Unchanged EXCEPT !.policy = {p}]),
             [x \in {w} |-> from])
    /\ asked' = {w}

\* setWiFi: a change of a WLAN, which may rename it.
SetNetwork(rep, from, w, f) ==
    /\ from \in DOMAIN desired
    /\ w # from => w \notin DOMAIN desired
    /\ Begin(rep, With(Others({from}), w, f),
             IF w = from THEN Nothing ELSE [x \in {w} |-> from])
    /\ asked' = {from, w}

RemoveNetwork(rep, w) ==
    /\ w \in DOMAIN desired
    /\ Begin(rep, Others({w}), Nothing)
    /\ asked' = {w}

\* The first pair by name, then radio.
First(S) == CHOOSE x \in S : \A y \in S : x[1] < y[1] \/ (x[1] = y[1] /\ x[2] <= y[2])

\* Mutant: a copied WLAN does not get what the request says of it.
ComposedBare(x) ==
    LET found == {s \in bindings : s.name = x[1] /\ s.radio = x[2]}
        from == {copies[w] : w \in {x[1]} \cap DOMAIN copies}
    IN  IF found # {}
        THEN UNION {OverlayWiFi(draft, s.wireless, s.aaa, request[x[1]]) : s \in found}
        ELSE AddWiFi(draft, bindings, x[1], from, x[2], Effective[x[1]])

\* The body of overlayNetworks' loops.
Composed(x) ==
    LET found == {s \in bindings : s.name = x[1] /\ s.radio = x[2]}
        from == {copies[w] : w \in {x[1]} \cap DOMAIN copies}
        added == AddWiFi(draft, bindings, x[1], from, x[2], Effective[x[1]])
    IN  IF found # {}
        THEN UNION {OverlayWiFi(draft, s.wireless, s.aaa, request[x[1]]) : s \in found}
        ELSE UNION {OverlayWiFi(b, NextRecord(draft.wireless), NextRecord(draft.aaa), request[x[1]]) :
                       b \in added}

Compose ==
    /\ pc = "compose" /\ todo # {}
    /\ draft' \in Composed(First(todo))
    /\ todo' = todo \ {First(todo)}
    /\ UNCHANGED <<stored, pc, call, drop, history>>

FirstBinding == CHOOSE s \in drop : <<s.name, s.radio>> = First({<<t.name, t.radio>> : t \in drop})

\* The loop of removeWiFiMembers.
RemoveMember ==
    /\ pc = "compose" /\ todo = {} /\ drop # {}
    /\ draft' \in RemoveWiFi(draft, FirstBinding)
    /\ drop' = drop \ {FirstBinding}
    /\ UNCHANGED <<stored, pc, call, todo, history>>

FieldsOf(f) == {x \in {"policy", "vlan", "radios"} : f[x] # {}}

Composing == pc = "compose" /\ (todo # {} \/ drop # {})

\* Compile returns and commitCompiledLocked stores its results.
Finish ==
    /\ pc = "compose" /\ ~Composing
    /\ Resolves(draft, Effective, reported)
    /\ body' = draft /\ desired' = Effective
    /\ pc' = "idle"
    /\ request' = Nothing /\ copies' = Nothing /\ bindings' = {}
    /\ supplied' = [w \in Name |->
          IF w \notin DOMAIN request THEN {}
          ELSE FieldsOf(request[w]) \cup supplied[IF w \in DOMAIN copies THEN copies[w] ELSE w]]
    /\ last' = {request}
    /\ asked' = {} /\ repeat' = FALSE
    /\ reported' = Radio
    /\ UNCHANGED <<draft, todo, drop, runs>>

\* Compile fails: its copy is dropped.
Reject ==
    /\ pc = "compose"
    /\ \/ todo # {} /\ Composed(First(todo)) = {}
       \/ todo = {} /\ drop # {} /\ RemoveWiFi(draft, FirstBinding) = {}
       \/ ~Composing /\ ~Resolves(draft, Effective, reported)
    /\ pc' = "idle" /\ draft' = body
    /\ request' = Nothing /\ copies' = Nothing /\ bindings' = {}
    /\ todo' = {} /\ drop' = {}
    /\ asked' = {} /\ repeat' = FALSE
    /\ reported' = Radio
    /\ UNCHANGED <<stored, supplied, last, runs>>

\* importBaseline stores a body whose projection resolves.
ImportBaseline(rep, b) ==
    /\ pc = "idle"
    /\ Resolves(b.body, b.desired, rep)
    /\ body' = b.body /\ desired' = b.desired /\ draft' = b.body
    /\ supplied' = [w \in Name |-> {}]
    /\ last' = {} /\ runs' = 0
    /\ UNCHANGED <<pc, call, todo, drop, asked, repeat>>

Init ==
    /\ pc = "idle"
    /\ reported = Radio
    /\ \E b \in Baseline :
          Resolves(b.body, b.desired, reported) /\ body = b.body /\ desired = b.desired
    /\ draft = body
    /\ request = Nothing /\ copies = Nothing /\ bindings = {} /\ todo = {} /\ drop = {}
    /\ asked = {} /\ last = {} /\ repeat = FALSE /\ runs = 0
    /\ supplied = [w \in Name |-> {}]

Next ==
    \/ \E rep \in Report, b \in Baseline : ImportBaseline(rep, b)
    \/ \E rep \in Report, S \in SUBSET Name : \E new \in [S -> Patch] : Apply(rep, new)
    \/ \E rep \in Report, w \in Name, from \in Name, p \in Policy : AddNetwork(rep, w, from, p)
    \/ \E rep \in Report, w \in Name, from \in Name, f \in Patch : SetNetwork(rep, from, w, f)
    \/ \E rep \in Report, w \in Name : RemoveNetwork(rep, w)
    \/ Compose \/ RemoveMember \/ Finish \/ Reject

Spec == Init /\ [][Next]_vars

-------------------------------------------------------------------------------
(* Properties *)

\* A request that every step of the composition accepts resolves at the end:
\* whatever moved, was copied or was collected on the way, each WLAN is left with
\* one unambiguous set of records on each of its radios.
ComposedResolves ==
    pc = "compose" /\ ~Composing => Resolves(draft, Effective, reported)

\* What a request supplied for an owned WLAN, now or earlier, is what the body
\* says on every radio the WLAN selects, renamed and copied WLANs included.
SuppliedIsComposed ==
    \A w \in DOMAIN desired : \A r \in UNION desired[w].radios :
        \A s \in ResolveWiFi(body, w, r) :
            /\ "policy" \in supplied[w] => body.aaa[s.aaa].policy \in desired[w].policy
            /\ "vlan" \in supplied[w] =>
                  \E v \in desired[w].vlan :
                      body.aaa[s.aaa].br = Br(v) /\ Cardinality(s.member) = 1

\* However WLANs were added, moved, copied and removed, the body is whole: records
\* of their types, interfaces that match WLANs, bridges that match VLANs.
BodyIsWhole == TypeOK /\ Whole(body)

\* A compilation that succeeds leaves every WLAN alone that the operator did not
\* ask to change or remove: its interface, its bridge, its policy, its radios.
OthersUntouched ==
    [][Finish => \A n \in DOMAIN body.aaa : body.aaa[n].ssid \notin asked =>
          /\ n \in DOMAIN body'.aaa /\ body'.aaa[n] = body.aaa[n]
          /\ \E m \in DOMAIN body.wireless :
                /\ body.wireless[m].dev = body.aaa[n].dev
                /\ m \in DOMAIN body'.wireless /\ body'.wireless[m] = body.wireless[m]]_vars

\* Applying the request that was committed last changes nothing, so the access
\* point is not sent a configuration.
ReapplyIsStable == [][Finish /\ repeat => UNCHANGED stored]_vars
===============================================================================
