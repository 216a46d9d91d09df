---------------------------- MODULE SwitchCompiler ----------------------------
(***************************************************************************)
(* The switch compiler (internal/profile/switches/compiler.go): how a      *)
(* partial request for some ports is composed with the complete stored     *)
(* configuration of a switch.                                              *)
(*                                                                         *)
(* The stored body keeps a record for each port and numbered VLAN records  *)
(* that say how each port belongs to the VLAN.  A compilation works on a   *)
(* copy of the body: its loops are the steps of this module, and only the  *)
(* last step, or none, replaces the stored body.  Controller models when a *)
(* compilation may run; this module models what it writes.                 *)
(*                                                                         *)
(* An optional field is the empty set when omitted and the set of its      *)
(* value when supplied.  SSH credentials, the keys no field names and a    *)
(* VLAN record's own mode and status are left out.                         *)
(***************************************************************************)
EXTENDS Naturals, FiniteSets

CONSTANTS
    Port,        \* port numbers
    VLAN,        \* VLAN numbers
    Baseline,    \* bodies with projections that an operator may import
    Patch,       \* what a request may say of one port
    Descriptor   \* capabilities the switch may have reported

Optional(T) == {{}} \cup {{v} : v \in T}

PortConfig ==
    [enabled : Optional(BOOLEAN),
     native  : Optional(VLAN),
     tagged  : Optional(SUBSET VLAN),
     poe     : Optional({"", "auto", "off"})]

Unchanged == [enabled |-> {}, native |-> {}, tagged |-> {}, poe |-> {}]

\* Typed projections and requests: a configuration for some ports.
SwitchConfig == UNION {[S -> PortConfig] : S \in SUBSET Port}

\* "" and 0: the key is absent.
PortRecord ==
    [opmode : {"", "switch", "mirror"},
     pvid   : VLAN \cup {0},
     status : {"", "enabled", "disabled"},
     poe    : {"", "auto", "shutdown"}]

NoRecord == [opmode |-> "", pvid |-> 0, status |-> "", poe |-> ""]

\* id 0: the stored text is not a number.
VlanRecord ==
    [id     : VLAN \cup {0},
     member : [Port -> {"", "untagged", "tagged", "exclude"}]]

\* A port is reported by count entries of the port table.
Capability ==
    [count : [Port -> Nat],
     vlan  : SUBSET Port,
     poe   : [Port -> SUBSET {"auto", "off"}]]

ASSUME SwitchAssumption ==
    /\ Port \subseteq Nat \ {0}
    /\ VLAN \subseteq Nat \ {0}
    /\ Patch \subseteq PortConfig
    /\ \A d \in Descriptor :
          /\ DOMAIN d.count = Port
          /\ d.vlan \subseteq Port
          /\ d.poe \in [Port -> SUBSET {"auto", "off"}]
    /\ \A b \in Baseline :
          /\ b.port \in [Port -> PortRecord]
          /\ DOMAIN b.vlan \subseteq Nat \ {0} /\ IsFiniteSet(DOMAIN b.vlan)
          /\ b.vlan \in [DOMAIN b.vlan -> VlanRecord]
          /\ b.desired \in SwitchConfig

VARIABLES
    port,       \* stored body: the port records
    vlan,       \* stored body: the numbered VLAN records
    desired,    \* DesiredSwitch: the typed projection of the owned ports
    pc,         \* where Compile is: "idle", "ports", "vlans"
    draftPort,  \* the port records of the copy Compile works on
    draftVlan,  \* the VLAN records of that copy
    descriptor, \* the capabilities Compile was called with
    request,    \* the request it was called with
    todo,       \* ports of the request it has still to apply
    need,       \* VLANs the current port needs a record of
    asked,      \* history: ports the operator asked to change or release
    supplied,   \* history: fields supplied for a port since it is owned
    last,       \* history: the request committed last
    repeat      \* history: Compile runs the request committed last

stored == <<port, vlan, desired>>
draft == <<draftPort, draftVlan>>
call == <<descriptor, request>>
history == <<asked, supplied, last, repeat>>
vars == <<stored, pc, draft, call, todo, need, history>>

VlanRecords(v) ==
    /\ DOMAIN v \subseteq Nat \ {0}
    /\ v \in [DOMAIN v -> VlanRecord]

\* Every variable has its type: ports keep the words the switch firmware knows
\* for status and PoE mode, and VLAN records are numbered from 1.
TypeOK ==
    /\ port \in [Port -> PortRecord] /\ draftPort \in [Port -> PortRecord]
    /\ VlanRecords(vlan) /\ VlanRecords(draftVlan)
    /\ desired \in SwitchConfig /\ request \in SwitchConfig
    /\ pc \in {"idle", "ports", "vlans"}
    /\ descriptor \in Descriptor
    /\ todo \subseteq DOMAIN request
    /\ need \subseteq VLAN
    /\ asked \subseteq Port
    /\ supplied \in [Port -> SUBSET {"enabled", "native", "tagged", "poe"}]
    /\ last \subseteq SwitchConfig
    /\ repeat \in BOOLEAN

Least(S) == CHOOSE x \in S : \A y \in S : x <= y

-------------------------------------------------------------------------------
(* Requests *)

\* Validate, as far as types leave something to reject.
Valid(c) == \A p \in DOMAIN c : \A v \in c[p].native, T \in c[p].tagged : v \notin T

\* ValidateComplete, for one port.
Complete(f) == f.enabled # {} /\ f.native # {} /\ f.tagged # {} /\ f.poe # {}

Overlay(prior, field) == IF field # {} THEN field ELSE prior

MergePort(old, new) ==
    [enabled |-> Overlay(old.enabled, new.enabled),
     native  |-> Overlay(old.native, new.native),
     tagged  |-> Overlay(old.tagged, new.tagged),
     poe     |-> Overlay(old.poe, new.poe)]

\* A supplied collection replaces the ports; each port keeps what it omits.
MergeSwitch(prior, new) ==
    [p \in DOMAIN new |->
        IF p \in DOMAIN prior THEN MergePort(prior[p], new[p]) ELSE new[p]]

Effective == MergeSwitch(desired, request)

\* Every port of a configuration has a record that says how it operates.
ResolvePorts(records, c) == \A p \in DOMAIN c : records[p].opmode # ""

-------------------------------------------------------------------------------
(* Importing a baseline *)

HasIdentity(r) == r.opmode = "switch" /\ r.status # "" /\ r.pvid # 0

Importable(d, b) ==
    /\ Valid(b.desired)
    /\ \A p \in DOMAIN b.desired : d.count[p] = 1 /\ HasIdentity(b.port[p])

Nothing == [p \in {} |-> Unchanged]

ImportBaseline(d, b) ==
    /\ pc = "idle"
    /\ Importable(d, b)
    /\ port' = b.port /\ vlan' = b.vlan /\ desired' = b.desired
    /\ draftPort' = b.port /\ draftVlan' = b.vlan
    /\ supplied' = [p \in Port |-> {}]
    /\ last' = {}
    /\ UNCHANGED <<pc, call, todo, need, asked, repeat>>

-------------------------------------------------------------------------------
(* Compile *)

\* The VLAN records without the memberships of the ports S.
Without(v, S) ==
    [n \in DOMAIN v |->
        [v[n] EXCEPT !.member = [p \in Port |-> IF p \in S THEN "" ELSE @[p]]]]

\* Compile up to its loop over the requested ports: the request and its merge
\* with the projection are valid, owned ports have records, and ports that are
\* owned and not requested lose theirs.  Requests supply the collection
\* of ports; one that omits it leaves the body alone.  The bindings stored with a body are those resolved from
\* it when it was committed, so comparing them finds no difference.
Begin(d, r) ==
    LET dropped == DOMAIN desired \ DOMAIN r
    IN  /\ pc = "idle"
        /\ Valid(r) /\ Valid(MergeSwitch(desired, r))
        /\ ResolvePorts(port, desired)
        /\ pc' = "ports"
        /\ draftPort' = [p \in Port |-> IF p \in dropped THEN NoRecord ELSE port[p]]
        /\ draftVlan' = Without(vlan, dropped)
        /\ descriptor' = d /\ request' = r /\ todo' = DOMAIN r
        /\ repeat' = (r \in last) /\ last' = {}
        /\ UNCHANGED <<stored, need, supplied>>

Requested(r) == {p \in DOMAIN r : r[p] # Unchanged}

\* Apply: the request is the complete collection of owned ports.
Apply(d, r) ==
    /\ Begin(d, r)
    /\ asked' = Requested(r) \cup (DOMAIN desired \ DOMAIN r)

\* Mutant: the change names no other port, so the others are released.
PortRequestAlone(p, f) == [q \in {p} |-> f]

\* portMutationRequest: one port with its change, the others by number only.
PortRequest(p, f) == [q \in DOMAIN desired |-> IF q = p THEN f ELSE Unchanged]

SetSwitchPort(d, p, f) ==
    /\ p \in DOMAIN desired
    /\ Begin(d, PortRequest(p, f))
    /\ asked' = {p}

\* The port the loop is at: requests are applied by ascending number.
Current == Least(todo)

WantsVlan(f) == f.native # {} \/ f.tagged # {}

Memberships(v, p, how) == {v[n].id : n \in {m \in DOMAIN v : v[m].member[p] = how}}

\* The native VLAN the current port will have, 0 when neither the request nor
\* the record names one.
Native ==
    IF request[Current].native # {}
    THEN CHOOSE v \in request[Current].native : TRUE
    ELSE draftPort[Current].pvid

\* Mutant: supplied VLANs are added to the ones the port has.
TaggedAccumulates ==
    (UNION request[Current].tagged) \cup Memberships(draftVlan, Current, "tagged")

\* The tagged VLANs it will have.
Tagged ==
    IF request[Current].tagged # {}
    THEN UNION request[Current].tagged
    ELSE Memberships(draftVlan, Current, "tagged")

PortRefused ==
    LET f == request[Current] IN
    \/ descriptor.count[Current] # 1
    \/ Current \notin DOMAIN desired /\ ~Complete(Effective[Current])
    \/ WantsVlan(f) /\ Current \notin descriptor.vlan
    \/ \E m \in f.poe \ {""} : m \notin descriptor.poe[Current]
    \/ WantsVlan(f) /\ Native = 0
    \/ WantsVlan(f) /\ 0 \in Memberships(draftVlan, Current, "tagged")
    \/ WantsVlan(f) /\ Native \in Tagged

StatusText(b) == IF b THEN "enabled" ELSE "disabled"

PoeText(m) == IF m = "off" THEN "shutdown" ELSE "auto"

\* applyPortRequest and the part of overlayPort before VLANs.
ApplyPort ==
    LET f == request[Current] IN
    /\ pc = "ports" /\ todo # {} /\ ~PortRefused
    /\ draftPort' =
          [draftPort EXCEPT
             ![Current].status = IF f.enabled # {} THEN StatusText(TRUE \in f.enabled) ELSE @,
             ![Current].poe = IF f.poe \ {""} # {} THEN PoeText(CHOOSE m \in f.poe : TRUE)
                              ELSE @]
    /\ IF WantsVlan(f)
       THEN pc' = "vlans" /\ need' = {Native} \cup Tagged /\ UNCHANGED todo
       ELSE todo' = todo \ {Current} /\ UNCHANGED <<pc, need>>
    /\ UNCHANGED <<stored, draftVlan, call, history>>

\* Mutant: the number is taken from a count.
NextRecordCounts(v) == Cardinality(DOMAIN v) + 1

\* The least number no record has.
NextRecord(v) == Least((1 .. Cardinality(DOMAIN v) + 1) \ DOMAIN v)

Matches(v, id) == {n \in DOMAIN v : v[n].id = id}

\* portTaggedVLANs: each VLAN the port needs has one record.
EnsureVlan ==
    LET id == Least(need)
        found == Matches(draftVlan, id)
        new == NextRecord(draftVlan)
    IN  /\ pc = "vlans" /\ need # {}
        /\ Cardinality(found) <= 1
        /\ need' = need \ {id}
        /\ draftVlan' =
              IF found # {} THEN draftVlan
              ELSE [n \in DOMAIN draftVlan \cup {new} |->
                       IF n = new THEN [id |-> id, member |-> [p \in Port |-> ""]]
                       ELSE draftVlan[n]]
        /\ UNCHANGED <<stored, pc, draftPort, call, todo, history>>

\* Mutant: a native change leaves the old native VLAN alone.
MemberModeAdds(r) ==
    IF r.id = Native THEN "untagged"
    ELSE IF r.id \in Tagged THEN "tagged" ELSE r.member[Current]

\* Mutant: an excluded port is taken for one that is to be cleaned up.
MemberModeToggles(r) ==
    LET old == r.member[Current] IN
    IF request[Current].tagged = {} /\ r.id \notin {draftPort[Current].pvid, Native}
    THEN old
    ELSE IF r.id = Native THEN "untagged"
    ELSE IF r.id \in Tagged THEN "tagged"
    ELSE IF old \in {"untagged", "tagged"} THEN "exclude" ELSE ""

\* How the current port belongs to a VLAN afterwards.
MemberMode(r) ==
    LET old == r.member[Current] IN
    IF request[Current].tagged = {} /\ r.id \notin {draftPort[Current].pvid, Native}
    THEN old
    ELSE IF r.id = Native THEN "untagged"
    ELSE IF r.id \in Tagged THEN "tagged"
    ELSE IF old # "" THEN "exclude" ELSE ""

\* The rest of overlayPort.
SetMembers ==
    /\ pc = "vlans" /\ need = {}
    /\ \A n \in DOMAIN draftVlan : draftVlan[n].id # 0
    /\ draftPort' = IF request[Current].native # {}
                    THEN [draftPort EXCEPT ![Current].pvid = Native, ![Current].opmode = "switch"]
                    ELSE draftPort
    /\ draftVlan' = [n \in DOMAIN draftVlan |->
                        [draftVlan[n] EXCEPT !.member[Current] = MemberMode(draftVlan[n])]]
    /\ todo' = todo \ {Current}
    /\ pc' = "ports"
    /\ UNCHANGED <<stored, call, need, history>>

FieldsOf(f) ==
    {x \in {"enabled", "native", "tagged"} : f[x] # {}}
        \cup (IF f.poe \ {""} # {} THEN {"poe"} ELSE {})

\* Compile returns and commitCompiledLocked stores its results.
Finish ==
    /\ pc = "ports" /\ todo = {}
    /\ ResolvePorts(draftPort, Effective)
    /\ port' = draftPort /\ vlan' = draftVlan /\ desired' = Effective
    /\ pc' = "idle"
    /\ request' = Nothing
    /\ supplied' = [p \in Port |-> IF p \in DOMAIN request
                                   THEN supplied[p] \cup FieldsOf(request[p]) ELSE {}]
    /\ last' = {request}
    /\ asked' = {} /\ repeat' = FALSE
    /\ UNCHANGED <<draft, descriptor, todo, need>>

\* Compile fails somewhere: its copy is dropped.
Refused ==
    \/ pc = "ports" /\ todo # {} /\ PortRefused
    \/ pc = "ports" /\ todo = {} /\ ~ResolvePorts(draftPort, Effective)
    \/ pc = "vlans" /\ need # {} /\ Cardinality(Matches(draftVlan, Least(need))) > 1
    \/ pc = "vlans" /\ need = {} /\ \E n \in DOMAIN draftVlan : draftVlan[n].id = 0

Reject ==
    /\ Refused
    /\ pc' = "idle"
    /\ draftPort' = port /\ draftVlan' = vlan
    /\ request' = Nothing /\ todo' = {} /\ need' = {}
    /\ asked' = {} /\ repeat' = FALSE
    /\ UNCHANGED <<stored, descriptor, supplied, last>>

-------------------------------------------------------------------------------
Init ==
    /\ pc = "idle"
    /\ descriptor \in Descriptor
    /\ \E b \in Baseline :
          /\ Importable(descriptor, b)
          /\ port = b.port /\ vlan = b.vlan /\ desired = b.desired
    /\ draftPort = port /\ draftVlan = vlan
    /\ request = Nothing /\ todo = {} /\ need = {}
    /\ asked = {} /\ last = {} /\ repeat = FALSE
    /\ supplied = [p \in Port |-> {}]

Compile == ApplyPort \/ EnsureVlan \/ SetMembers \/ Finish \/ Reject

Next ==
    \/ \E d \in Descriptor : \E b \in Baseline : ImportBaseline(d, b)
    \/ \E d \in Descriptor, S \in SUBSET Port : \E r \in [S -> Patch] : Apply(d, r)
    \/ \E d \in Descriptor, p \in Port, f \in Patch : SetSwitchPort(d, p, f)
    \/ Compile

Spec == Init /\ [][Next]_vars

-------------------------------------------------------------------------------
(* Properties *)

\* What a request supplied for an owned port, in this compilation or an earlier
\* one, is what the stored body says: status, PoE mode, native and tagged VLANs.
\* The projection and the body are merged by different code (MergeSwitch and
\* overlayPort), field by field, over any sequence of partial requests.
SuppliedIsComposed ==
    \A p \in DOMAIN desired :
        /\ "enabled" \in supplied[p] =>
              \A b \in desired[p].enabled : port[p].status = StatusText(b)
        /\ "poe" \in supplied[p] =>
              \A m \in desired[p].poe \ {""} : port[p].poe = PoeText(m)
        /\ "native" \in supplied[p] => port[p].pvid \in desired[p].native
        /\ "tagged" \in supplied[p] =>
              Memberships(vlan, p, "tagged") \in desired[p].tagged

\* Records are of their types, and a port whose VLANs were set is untagged in its
\* native VLAN and in no other: changing the native VLAN takes the port out of the
\* old one.
NativeIsUntagged ==
    TypeOK /\ \A p \in DOMAIN desired : supplied[p] \cap {"native", "tagged"} # {} =>
        Memberships(vlan, p, "untagged") = {port[p].pvid}

\* A compilation that succeeds leaves every port alone that the operator did not
\* ask to change or release: its record, its projection and its memberships.  A
\* port that it releases leaves nothing in the body that a later compilation, for
\* this port or for another, could take up again.
OthersUntouched ==
    [][Finish =>
          /\ \A p \in Port \ asked :
                /\ port'[p] = port[p]
                /\ p \in DOMAIN desired' <=> p \in DOMAIN desired
                /\ p \in DOMAIN desired => desired'[p] = desired[p]
                /\ \A how \in {"untagged", "tagged", "exclude"} :
                      Memberships(vlan', p, how) = Memberships(vlan, p, how)
          /\ \A p \in DOMAIN desired \ DOMAIN desired' :
                port'[p] = NoRecord /\ \A n \in DOMAIN vlan' : vlan'[n].member[p] = ""]_vars

\* Compilations only add VLAN records: a record keeps its number and its VLAN,
\* whatever gaps the numbering has, and no VLAN gets a second record.
VlanRecordsStay ==
    [][Finish =>
          /\ \A n \in DOMAIN vlan : n \in DOMAIN vlan' /\ vlan'[n].id = vlan[n].id
          /\ \A n \in DOMAIN vlan' \ DOMAIN vlan : \A m \in DOMAIN vlan' \ {n} :
                vlan'[m].id # vlan'[n].id]_vars

\* Applying the request that was committed last changes nothing, so the version
\* of the body, a hash of it, stays and the switch is not sent a configuration.
ReapplyIsStable == [][Finish /\ repeat => UNCHANGED stored]_vars
===============================================================================
