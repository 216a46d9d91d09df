----------------------------- MODULE SwitchProofs -----------------------------
(***************************************************************************)
(* Proofs about SwitchCompiler, for any number of ports and VLANs, any     *)
(* baselines and any requests.                                             *)
(*                                                                         *)
(* The argument: whatever the loops of Compile have done so far, the copy  *)
(* it works on is a function of the stored body, the request and the ports *)
(* still to do (DraftPorts, DraftVlans).  What a committed compilation     *)
(* promises is then read off that function.                                *)
(***************************************************************************)
EXTENDS SwitchCompiler, FiniteSetTheorems, WellFoundedInduction, TLAPS

-------------------------------------------------------------------------------
(* Numbers *)

LEMMA SmallerIsWellFounded ==
    \E R : IsWellFoundedOn(R, Nat) /\ \A x, y \in Nat : x < y => <<x, y>> \in R
<1> DEFINE R == OpToRel(<, Nat)
<1>1. \A x, y \in Nat : x < y => <<x, y>> \in R
  BY DEF OpToRel
<1>2. IsWellFoundedOn(R, Nat)
  BY NatLessThanWellFounded
<1> HIDE DEF R
<1> QED
  BY <1>1, <1>2

\* The loops find a next port, and a next VLAN, as long as one is left.
LEMMA LeastIn ==
    ASSUME NEW S, S \subseteq Nat, S # {}
    PROVE  Least(S) \in S
<1>1. PICK R : IsWellFoundedOn(R, Nat) /\ \A x, y \in Nat : x < y => <<x, y>> \in R
  BY SmallerIsWellFounded
<1>2. IsWellFoundedOn(R, Nat)
  BY <1>1
<1>3. PICK x \in S : \A y \in S : ~(<<y, x>> \in R)
  BY <1>2, WFMin, Zenon
<1>4. ASSUME NEW y \in S PROVE x <= y
  <2>1. x \in Nat /\ y \in Nat
    OBVIOUS
  <2>2. ~(y < x)
    BY <1>1, <1>3, <2>1, Zenon
  <2> QED
    BY <2>1, <2>2
<1> QED
  BY <1>3, <1>4 DEF Least

\* A number below the count of the records, or the one after it, is free.
LEMMA NextRecordIsFree ==
    ASSUME NEW v, IsFiniteSet(DOMAIN v)
    PROVE  NextRecord(v) \in Nat \ {0} /\ NextRecord(v) \notin DOMAIN v
<1> DEFINE k == Cardinality(DOMAIN v)
           free == (1 .. k + 1) \ DOMAIN v
<1>1. k \in Nat
  BY FS_CardinalityType
<1>2. free # {}
  <2> SUFFICES ASSUME 1 .. k + 1 \subseteq DOMAIN v PROVE FALSE
    OBVIOUS
  <2>1. Cardinality(1 .. k + 1) <= k
    BY FS_Subset
  <2>2. Cardinality(1 .. k + 1) = k + 1
    BY <1>1, FS_Interval
  <2> QED
    BY <1>1, <2>1, <2>2
<1>3. free \subseteq Nat
  OBVIOUS
<1>4. Least(free) \in free
  BY <1>2, <1>3, LeastIn
<1> QED
  BY <1>1, <1>4 DEF NextRecord

-------------------------------------------------------------------------------
(* Types *)

LEMMA ConfigType ==
    ASSUME NEW c
    PROVE  c \in SwitchConfig <=> /\ c = [p \in DOMAIN c |-> c[p]]
                                  /\ DOMAIN c \subseteq Port
                                  /\ \A p \in DOMAIN c : c[p] \in PortConfig
<1>1. ASSUME c \in SwitchConfig
      PROVE  /\ c = [p \in DOMAIN c |-> c[p]]
             /\ DOMAIN c \subseteq Port
             /\ \A p \in DOMAIN c : c[p] \in PortConfig
  <2>1. PICK S \in SUBSET Port : c \in [S -> PortConfig]
    BY <1>1 DEF SwitchConfig
  <2> QED
    BY <2>1
<1>2. ASSUME c = [p \in DOMAIN c |-> c[p]], DOMAIN c \subseteq Port,
             \A p \in DOMAIN c : c[p] \in PortConfig
      PROVE  c \in SwitchConfig
  <2>1. c \in [DOMAIN c -> PortConfig]
    BY <1>2
  <2> QED
    BY <1>2, <2>1 DEF SwitchConfig
<1> QED
  BY <1>1, <1>2

LEMMA UnchangedType == Unchanged \in PortConfig
BY DEF Unchanged, PortConfig, Optional

LEMMA NothingType == Nothing \in SwitchConfig /\ DOMAIN Nothing = {}
BY ConfigType DEF Nothing

LEMMA MergePortType ==
    ASSUME NEW a \in PortConfig, NEW b \in PortConfig
    PROVE  MergePort(a, b) \in PortConfig
BY DEF MergePort, PortConfig, Overlay

LEMMA MergeType ==
    ASSUME NEW a \in SwitchConfig, NEW b \in SwitchConfig
    PROVE  /\ MergeSwitch(a, b) \in SwitchConfig
           /\ DOMAIN MergeSwitch(a, b) = DOMAIN b
           /\ \A p \in DOMAIN b :
                 MergeSwitch(a, b)[p] = IF p \in DOMAIN a THEN MergePort(a[p], b[p]) ELSE b[p]
<1>1. /\ DOMAIN b \subseteq Port
      /\ \A p \in DOMAIN b : b[p] \in PortConfig
      /\ \A p \in DOMAIN a : a[p] \in PortConfig
  BY ConfigType
<1>2. /\ DOMAIN MergeSwitch(a, b) = DOMAIN b
      /\ \A p \in DOMAIN b :
            MergeSwitch(a, b)[p] = IF p \in DOMAIN a THEN MergePort(a[p], b[p]) ELSE b[p]
      /\ MergeSwitch(a, b) = [p \in DOMAIN b |-> MergeSwitch(a, b)[p]]
  BY DEF MergeSwitch
<1>3. \A p \in DOMAIN b : MergeSwitch(a, b)[p] \in PortConfig
  BY <1>1, <1>2, MergePortType
<1> QED
  BY <1>1, <1>2, <1>3, ConfigType

\* An optional VLAN, or set of VLANs, that is supplied is one of the switch's.
LEMMA OptionalValues ==
    ASSUME NEW f \in PortConfig
    PROVE  /\ f.native # {} => (CHOOSE v \in f.native : TRUE) \in VLAN
           /\ f.native # {} => f.native = {CHOOSE v \in f.native : TRUE}
           /\ UNION f.tagged \subseteq VLAN
           /\ f.tagged # {} => f.tagged = {UNION f.tagged}
<1>1. f.native \in {{}} \cup {{v} : v \in VLAN}
  BY DEF PortConfig, Optional
<1>2. f.tagged \in {{}} \cup {{T} : T \in SUBSET VLAN}
  BY DEF PortConfig, Optional
<1>3. ASSUME f.native # {}
      PROVE  /\ (CHOOSE v \in f.native : TRUE) \in VLAN
             /\ f.native = {CHOOSE v \in f.native : TRUE}
  <2>1. PICK v \in VLAN : f.native = {v}
    BY <1>1, <1>3
  <2>2. (CHOOSE x \in f.native : TRUE) \in f.native
    BY <1>3
  <2> QED
    BY <2>1, <2>2
<1>4. UNION f.tagged \subseteq VLAN /\ (f.tagged # {} => f.tagged = {UNION f.tagged})
  <2>1. CASE f.tagged = {}
    BY <2>1
  <2>2. CASE \E T \in SUBSET VLAN : f.tagged = {T}
    BY <2>2
  <2> QED
    BY <1>2, <2>1, <2>2
<1> QED
  BY <1>3, <1>4

LEMMA MembershipsIn ==
    ASSUME NEW v, NEW p, NEW how, NEW x
    PROVE  x \in Memberships(v, p, how) <=>
              \E n \in DOMAIN v : v[n].member[p] = how /\ v[n].id = x
BY DEF Memberships

-------------------------------------------------------------------------------
(* What a request makes of one port *)

\* Native and Tagged, for the request f of a port with record r in the records v.
NativeOf(f, r) == IF f.native # {} THEN CHOOSE v \in f.native : TRUE ELSE r.pvid
TagsOf(f, v, p) == IF f.tagged # {} THEN UNION f.tagged ELSE Memberships(v, p, "tagged")

\* The port's record after applyPortRequest, and after overlayPort.
Powered(r, f) ==
    [opmode |-> r.opmode, pvid |-> r.pvid,
     status |-> IF f.enabled # {} THEN StatusText(TRUE \in f.enabled) ELSE r.status,
     poe    |-> IF f.poe \ {""} # {} THEN PoeText(CHOOSE m \in f.poe : TRUE) ELSE r.poe]

Overlaid(r, f) ==
    [opmode |-> IF f.native # {} THEN "switch" ELSE r.opmode,
     pvid   |-> NativeOf(f, r),
     status |-> Powered(r, f).status,
     poe    |-> Powered(r, f).poe]

\* MemberMode: how the port belongs to VLAN id, where it belonged to it as old.
ModeOf(f, r, tags, id, old) ==
    IF f.tagged = {} /\ id \notin {r.pvid, NativeOf(f, r)} THEN old
    ELSE IF id = NativeOf(f, r) THEN "untagged"
    ELSE IF id \in tags THEN "tagged"
    ELSE IF old # "" THEN "exclude" ELSE ""

\* How the port belonged to the VLAN of record n before; "" when n is new.
Was(v, n, p) == IF n \in DOMAIN v THEN v[n].member[p] ELSE ""

\* The records w are the records v, with others added for the request f of port p
\* and the port's memberships set.
Retagged(v, w, p, r, f) ==
    /\ DOMAIN v \subseteq DOMAIN w
    /\ \A n \in DOMAIN v : w[n].id = v[n].id
    /\ \A n \in DOMAIN w :
          w[n].member[p] = ModeOf(f, r, TagsOf(f, v, p), w[n].id, Was(v, n, p))
    /\ NativeOf(f, r) \notin TagsOf(f, v, p)
    /\ \A id \in {NativeOf(f, r)} \cup TagsOf(f, v, p) : Matches(w, id) # {}

\* The port is tagged in the VLANs that the request supplied, or that it had.
LEMMA TaggedAfter ==
    ASSUME NEW v, NEW w, NEW p, NEW r, NEW f, Retagged(v, w, p, r, f)
    PROVE  Memberships(w, p, "tagged") = TagsOf(f, v, p)
<1> DEFINE tags == TagsOf(f, v, p)
<1> USE DEF Retagged
<1>1. ASSUME NEW x \in Memberships(w, p, "tagged") PROVE x \in tags
  <2>1. PICK n \in DOMAIN w : w[n].member[p] = "tagged" /\ w[n].id = x
    BY MembershipsIn
  <2>2. CASE f.tagged = {} /\ x \notin {r.pvid, NativeOf(f, r)}
    <3>1. Was(v, n, p) = "tagged"
      BY <2>1, <2>2 DEF ModeOf
    <3>2. n \in DOMAIN v /\ v[n].member[p] = "tagged" /\ v[n].id = x
      BY <2>1, <3>1 DEF Was
    <3> QED
      BY <2>2, <3>2, MembershipsIn DEF TagsOf
  <2>3. CASE ~(f.tagged = {} /\ x \notin {r.pvid, NativeOf(f, r)})
    BY <2>1, <2>3 DEF ModeOf
  <2> QED
    BY <2>2, <2>3
<1>2. ASSUME NEW x \in tags PROVE x \in Memberships(w, p, "tagged")
  <2>1. x # NativeOf(f, r)
    BY <1>2
  <2>2. CASE f.tagged = {} /\ x # r.pvid
    <3>1. PICK n \in DOMAIN v : v[n].member[p] = "tagged" /\ v[n].id = x
      BY <2>2, MembershipsIn DEF TagsOf
    <3>2. n \in DOMAIN w /\ w[n].id = x /\ Was(v, n, p) = "tagged"
      BY <3>1 DEF Was
    <3>3. w[n].member[p] = "tagged"
      BY <2>1, <2>2, <3>2 DEF ModeOf
    <3> QED
      BY <3>2, <3>3, MembershipsIn
  <2>3. CASE ~(f.tagged = {} /\ x # r.pvid)
    <3>1. PICK n \in DOMAIN w : w[n].id = x
      BY DEF Matches
    <3>2. w[n].member[p] = "tagged"
      BY <2>1, <2>3, <3>1 DEF ModeOf
    <3> QED
      BY <3>1, <3>2, MembershipsIn
  <2> QED
    BY <2>2, <2>3
<1> QED
  BY <1>1, <1>2

\* The port is untagged in its native VLAN only, if the request sets all its VLANs
\* or if it was so before.
LEMMA UntaggedAfter ==
    ASSUME NEW v, NEW w, NEW p, NEW r, NEW f, Retagged(v, w, p, r, f),
           f.tagged # {} \/ Memberships(v, p, "untagged") \subseteq {r.pvid}
    PROVE  Memberships(w, p, "untagged") = {NativeOf(f, r)}
<1> USE DEF Retagged
<1>1. ASSUME NEW x \in Memberships(w, p, "untagged") PROVE x = NativeOf(f, r)
  <2> SUFFICES ASSUME x # NativeOf(f, r) PROVE FALSE
    OBVIOUS
  <2>1. PICK n \in DOMAIN w : w[n].member[p] = "untagged" /\ w[n].id = x
    BY MembershipsIn
  <2>2. f.tagged = {} /\ x # r.pvid /\ Was(v, n, p) = "untagged"
    BY <2>1 DEF ModeOf
  <2>3. n \in DOMAIN v /\ v[n].member[p] = "untagged" /\ v[n].id = x
    BY <2>1, <2>2 DEF Was
  <2> QED
    BY <2>2, <2>3, MembershipsIn
<1>2. NativeOf(f, r) \in Memberships(w, p, "untagged")
  <2>1. PICK n \in DOMAIN w : w[n].id = NativeOf(f, r)
    BY DEF Matches
  <2>2. w[n].member[p] = "untagged"
    BY <2>1 DEF ModeOf
  <2> QED
    BY <2>1, <2>2, MembershipsIn
<1> QED
  BY <1>1, <1>2

LEMMA PortTypes ==
    ASSUME NEW r \in PortRecord, NEW f \in PortConfig
    PROVE  /\ Powered(r, f) \in PortRecord
           /\ Overlaid(r, f) \in PortRecord
<1>1. /\ StatusText(TRUE \in f.enabled) \in {"enabled", "disabled"}
      /\ PoeText(CHOOSE m \in f.poe : TRUE) \in {"auto", "shutdown"}
  BY DEF StatusText, PoeText
<1>2. NativeOf(f, r) \in VLAN \cup {0}
  BY OptionalValues DEF NativeOf, PortRecord
<1>3. Powered(r, f) \in PortRecord
  BY <1>1 DEF Powered, PortRecord
<1> QED
  BY <1>2, <1>3 DEF Overlaid, PortRecord

\* Applying the same request to the result changes neither the port's record nor
\* its memberships.
LEMMA OverlaidTwice ==
    ASSUME NEW r \in PortRecord, NEW f \in PortConfig
    PROVE  /\ Overlaid(Overlaid(r, f), f) = Overlaid(r, f)
           /\ NativeOf(f, Overlaid(r, f)) = NativeOf(f, r)
           /\ Overlaid(r, f).pvid = NativeOf(f, r)
BY DEF Overlaid, Powered, NativeOf

LEMMA RetaggedTwice ==
    ASSUME NEW v, NEW w, NEW p, NEW r \in PortRecord, NEW f \in PortConfig,
           Retagged(v, w, p, r, f)
    PROVE  Retagged(w, w, p, Overlaid(r, f), f)
<1> DEFINE q == Overlaid(r, f)
<1>1. NativeOf(f, q) = NativeOf(f, r) /\ q.pvid = NativeOf(f, r)
  BY OverlaidTwice
<1>2. TagsOf(f, w, p) = TagsOf(f, v, p)
  BY TaggedAfter DEF TagsOf
<1> HIDE DEF q
<1>3. ASSUME NEW n \in DOMAIN w
      PROVE  w[n].member[p] = ModeOf(f, q, TagsOf(f, w, p), w[n].id, Was(w, n, p))
  <2>1. w[n].member[p] = ModeOf(f, r, TagsOf(f, v, p), w[n].id, Was(v, n, p))
    BY DEF Retagged
  <2>2. Was(w, n, p) = w[n].member[p]
    BY DEF Was
  <2> QED
    BY <1>1, <1>2, <2>1, <2>2 DEF ModeOf
<1> QED
  BY <1>1, <1>2, <1>3 DEF Retagged, q

-------------------------------------------------------------------------------
(* The inductive invariant *)

Dropped == DOMAIN desired \ DOMAIN request
Done    == DOMAIN request \ todo

\* The copy's port records: released, overlaid, about to be, or as stored.
DraftPorts ==
    \A p \in Port :
       draftPort[p] = IF p \in Dropped THEN NoRecord
                      ELSE IF p \in Done THEN Overlaid(port[p], request[p])
                      ELSE IF pc = "vlans" /\ p = Current THEN Powered(port[p], request[p])
                      ELSE port[p]

\* The copy's VLAN records: the stored ones, and new ones for VLANs without any.
DraftNumbers ==
    /\ DOMAIN vlan \subseteq DOMAIN draftVlan
    /\ \A n \in DOMAIN vlan : draftVlan[n].id = vlan[n].id
    /\ \A n \in DOMAIN draftVlan \ DOMAIN vlan :
          \A m \in DOMAIN draftVlan \ {n} : draftVlan[m].id # draftVlan[n].id

\* Their memberships: removed, set, or as stored.
DraftMember(n, p) ==
    IF p \in Dropped THEN ""
    ELSE IF p \in Done /\ WantsVlan(request[p])
         THEN ModeOf(request[p], port[p], TagsOf(request[p], vlan, p), draftVlan[n].id,
                     Was(vlan, n, p))
         ELSE Was(vlan, n, p)

DraftMembers ==
    \A n \in DOMAIN draftVlan, p \in Port : draftVlan[n].member[p] = DraftMember(n, p)

\* What PortRefused let pass: a port taken over has a complete policy, and VLANs
\* that were asked for are known and do not overlap.
Accepted(p) ==
    /\ p \in DOMAIN desired \/ Complete(request[p])
    /\ WantsVlan(request[p]) =>
          /\ NativeOf(request[p], port[p]) \in VLAN
          /\ TagsOf(request[p], vlan, p) \subseteq VLAN
          /\ NativeOf(request[p], port[p]) \notin TagsOf(request[p], vlan, p)

Ensured(p, left) ==
    WantsVlan(request[p]) =>
       \A v \in ({NativeOf(request[p], port[p])} \cup TagsOf(request[p], vlan, p)) \ left :
          Matches(draftVlan, v) # {}

WorkInv ==
    pc # "idle" =>
       /\ DraftPorts /\ DraftNumbers /\ DraftMembers
       /\ \A p \in Done : Accepted(p) /\ Ensured(p, {})
       /\ pc = "vlans" => /\ todo # {}
                          /\ WantsVlan(request[Current])
                          /\ Accepted(Current)
                          /\ Ensured(Current, need)
                          /\ need \subseteq {NativeOf(request[Current], port[Current])}
                                        \cup TagsOf(request[Current], vlan, Current)
       /\ \A p \in Port \ asked :
             /\ p \in DOMAIN desired => p \in DOMAIN request
             /\ p \in DOMAIN request => request[p] = Unchanged

\* The request r changes nothing any more.
Fixed(r) ==
    /\ MergeSwitch(desired, r) = desired
    /\ \A p \in DOMAIN r :
          /\ Overlaid(port[p], r[p]) = port[p]
          /\ WantsVlan(r[p]) => Retagged(vlan, vlan, p, port[p], r[p])

RepeatInv ==
    /\ \A r \in last : pc = "idle" /\ Fixed(r)
    /\ repeat => pc # "idle" /\ Fixed(request) /\ DOMAIN draftVlan = DOMAIN vlan

SwitchInv ==
    /\ TypeOK
    /\ IsFiniteSet(DOMAIN vlan) /\ IsFiniteSet(DOMAIN draftVlan)
    /\ pc = "idle" => todo = {}
    /\ pc # "vlans" => need = {}
    /\ WorkInv
    /\ RepeatInv
    /\ SuppliedIsComposed
    /\ \A p \in Port \ DOMAIN desired : supplied[p] = {}

-------------------------------------------------------------------------------
(* Every step keeps it *)

LEMMA TypeFacts ==
    ASSUME SwitchInv
    PROVE  /\ DOMAIN desired \subseteq Port /\ DOMAIN request \subseteq Port
           /\ \A p \in DOMAIN desired : desired[p] \in PortConfig
           /\ \A p \in DOMAIN request : request[p] \in PortConfig
           /\ \A p \in Port : port[p] \in PortRecord
           /\ todo \subseteq DOMAIN request /\ todo \subseteq Nat /\ need \subseteq Nat
BY ConfigType, SwitchAssumption DEF SwitchInv, TypeOK

\* With nothing committed or compiled since, the invariant says little.
LEMMA FreshSwitch ==
    ASSUME NEW b \in Baseline, pc' = "idle", todo' = {}, need' = {},
           port' = b.port, vlan' = b.vlan, desired' = b.desired,
           draftPort' = port', draftVlan' = vlan', request' \in SwitchConfig,
           descriptor' \in Descriptor, asked' \subseteq Port,
           supplied' = [p \in Port |-> {}], last' = {}, repeat' = FALSE
    PROVE  SwitchInv'
<1>1. /\ b.port \in [Port -> PortRecord] /\ b.desired \in SwitchConfig
      /\ DOMAIN b.vlan \subseteq Nat \ {0} /\ IsFiniteSet(DOMAIN b.vlan)
      /\ b.vlan \in [DOMAIN b.vlan -> VlanRecord]
  BY SwitchAssumption
<1>2. TypeOK'
  BY <1>1 DEF TypeOK, VlanRecords
<1>3. SuppliedIsComposed' /\ \A p \in Port \ DOMAIN desired' : supplied'[p] = {}
  BY <1>1, ConfigType DEF SuppliedIsComposed
<1> QED
  BY <1>1, <1>2, <1>3 DEF SwitchInv, WorkInv, RepeatInv

LEMMA ImportSwitch ==
    ASSUME SwitchInv, NEW d \in Descriptor, NEW b \in Baseline, ImportBaseline(d, b)
    PROVE  SwitchInv'
<1>1. /\ pc' = "idle" /\ todo' = {} /\ need' = {} /\ repeat' = FALSE
      /\ request' \in SwitchConfig /\ descriptor' \in Descriptor /\ asked' \subseteq Port
  BY DEF ImportBaseline, SwitchInv, RepeatInv, TypeOK, call
<1> QED
  BY <1>1, FreshSwitch DEF ImportBaseline

LEMMA RejectSwitch ==
    ASSUME SwitchInv, Reject
    PROVE  SwitchInv'
<1> USE DEF SwitchInv, Reject, stored
<1>1. TypeOK'
  BY NothingType DEF TypeOK, VlanRecords
<1>2. pc # "idle" /\ last = {}
  BY DEF Refused, RepeatInv
<1>3. SuppliedIsComposed'
  BY DEF SuppliedIsComposed
<1> QED
  BY <1>1, <1>2, <1>3 DEF WorkInv, RepeatInv

LEMMA ExceptMember ==
    ASSUME NEW V, NEW W, NEW x \in [id : V, member : W], NEW m \in W
    PROVE  [x EXCEPT !.member = m] = [id |-> x.id, member |-> m]
OBVIOUS

LEMMA VlanRecordMember ==
    ASSUME NEW x \in VlanRecord,
           NEW m \in [Port -> {"", "untagged", "tagged", "exclude"}]
    PROVE  /\ [x EXCEPT !.member = m] = [id |-> x.id, member |-> m]
           /\ [id |-> x.id, member |-> m] \in VlanRecord
<1>1. x = [id |-> x.id, member |-> x.member] /\ x.id \in VLAN \cup {0}
  BY DEF VlanRecord
<1>2. [x EXCEPT !.member = m] = [id |-> x.id, member |-> m]
  <2> DEFINE V == VLAN \cup {0}
             W == [Port -> {"", "untagged", "tagged", "exclude"}]
  <2>1. x \in [id : V, member : W] /\ m \in W
    BY DEF VlanRecord
  <2> HIDE DEF V, W
  <2> QED
    BY <2>1, ExceptMember
<1>3. [id |-> x.id, member |-> m] \in VlanRecord
  BY <1>1 DEF VlanRecord
<1> QED
  BY <1>2, <1>3

LEMMA VlanRecordsIs ==
    ASSUME NEW v, v = [n \in DOMAIN v |-> v[n]], DOMAIN v \subseteq Nat \ {0},
           \A n \in DOMAIN v : v[n] \in VlanRecord
    PROVE  VlanRecords(v)
BY DEF VlanRecords

LEMMA WithoutType ==
    ASSUME NEW v, VlanRecords(v), NEW S \in SUBSET Port
    PROVE  /\ VlanRecords(Without(v, S)) /\ DOMAIN Without(v, S) = DOMAIN v
           /\ \A n \in DOMAIN v :
                 /\ Without(v, S)[n].id = v[n].id
                 /\ \A p \in Port : Without(v, S)[n].member[p]
                                       = IF p \in S THEN "" ELSE v[n].member[p]
<1>1. ASSUME NEW n \in DOMAIN v
      PROVE  /\ Without(v, S)[n] = [id |-> v[n].id,
                   member |-> [p \in Port |-> IF p \in S THEN "" ELSE v[n].member[p]]]
             /\ Without(v, S)[n] \in VlanRecord
  <2>1. v[n] \in VlanRecord
    BY DEF VlanRecords
  <2>2. Without(v, S)[n] = [v[n] EXCEPT !.member =
                               [p \in Port |-> IF p \in S THEN "" ELSE v[n].member[p]]]
    BY DEF Without
  <2> DEFINE m == [p \in Port |-> IF p \in S THEN "" ELSE v[n].member[p]]
  <2>3. m \in [Port -> {"", "untagged", "tagged", "exclude"}]
    BY <2>1 DEF VlanRecord
  <2> HIDE DEF m
  <2>4. /\ [v[n] EXCEPT !.member = m] = [id |-> v[n].id, member |-> m]
        /\ [id |-> v[n].id, member |-> m] \in VlanRecord
    BY <2>1, <2>3, VlanRecordMember
  <2> QED
    BY <2>2, <2>4 DEF m
<1>2. DOMAIN Without(v, S) = DOMAIN v
  BY DEF Without
<1>3. ASSUME NEW n \in DOMAIN v
      PROVE  /\ Without(v, S)[n].id = v[n].id
             /\ \A p \in Port : Without(v, S)[n].member[p]
                                   = IF p \in S THEN "" ELSE v[n].member[p]
  <2> DEFINE m == [p \in Port |-> IF p \in S THEN "" ELSE v[n].member[p]]
  <2>1. \A p \in Port : m[p] = IF p \in S THEN "" ELSE v[n].member[p]
    OBVIOUS
  <2>2. Without(v, S)[n] = [id |-> v[n].id, member |-> m]
    BY <1>1
  <2> HIDE DEF m
  <2>3. Without(v, S)[n].id = v[n].id /\ Without(v, S)[n].member = m
    BY <2>2
  <2> QED
    BY <2>1, <2>3
<1>4. VlanRecords(Without(v, S))
  <2>1. Without(v, S) = [n \in DOMAIN v |-> Without(v, S)[n]]
    BY DEF Without
  <2> QED
    BY <1>1, <1>2, <2>1, VlanRecordsIs DEF VlanRecords
<1> QED
  BY <1>2, <1>3, <1>4

\* Compile begins: nothing is done, and released ports are gone.
LEMMA BeginSwitch ==
    ASSUME SwitchInv, NEW d \in Descriptor, NEW r \in SwitchConfig, Begin(d, r),
           asked' \subseteq Port,
           \A p \in Port \ asked' : /\ p \in DOMAIN desired => p \in DOMAIN r
                                    /\ p \in DOMAIN r => r[p] = Unchanged
    PROVE  SwitchInv'
<1> DEFINE dropped == DOMAIN desired \ DOMAIN r
<1>1. /\ pc = "idle" /\ pc' = "ports" /\ draftVlan' = Without(vlan, dropped)
      /\ draftPort' = [p \in Port |-> IF p \in dropped THEN NoRecord ELSE port[p]]
      /\ descriptor' = d /\ request' = r /\ todo' = DOMAIN r
      /\ repeat' = (r \in last) /\ last' = {}
      /\ UNCHANGED <<port, vlan, desired, need, supplied>>
  BY DEF Begin, stored
<1>2. dropped \in SUBSET Port /\ VlanRecords(vlan)
  BY TypeFacts DEF SwitchInv, TypeOK
<1> HIDE DEF dropped
<1>3. /\ VlanRecords(draftVlan') /\ DOMAIN draftVlan' = DOMAIN vlan
      /\ \A n \in DOMAIN vlan :
            /\ draftVlan'[n].id = vlan[n].id
            /\ \A p \in Port : draftVlan'[n].member[p]
                                  = IF p \in dropped THEN "" ELSE vlan[n].member[p]
  <2> DEFINE w == Without(vlan, dropped)
  <2>1. /\ VlanRecords(w) /\ DOMAIN w = DOMAIN vlan
        /\ \A n \in DOMAIN vlan :
              /\ w[n].id = vlan[n].id
              /\ \A p \in Port : w[n].member[p]
                                    = IF p \in dropped THEN "" ELSE vlan[n].member[p]
    BY <1>2, WithoutType
  <2> HIDE DEF w
  <2>2. draftVlan' = w
    BY <1>1 DEF w
  <2> QED
    BY <2>1, <2>2
<1>4. NoRecord \in PortRecord
  BY DEF NoRecord, PortRecord
<1>5. TypeOK'
  <2>1. draftPort' \in [Port -> PortRecord] /\ port' \in [Port -> PortRecord]
    BY <1>1, <1>4 DEF SwitchInv, TypeOK
  <2>2. VlanRecords(vlan)' /\ VlanRecords(draftVlan)'
    BY <1>1, <1>2, <1>3
  <2>3. repeat' \in BOOLEAN
    BY <1>1
  <2> QED
    BY <1>1, <2>1, <2>2, <2>3 DEF SwitchInv, TypeOK
<1>6. Dropped' = dropped /\ Done' = {}
  BY <1>1 DEF Dropped, Done, dropped
<1>7. DraftPorts'
  BY <1>1, <1>6 DEF DraftPorts
<1>8. DraftNumbers'
  BY <1>1, <1>3 DEF DraftNumbers
<1>9. DraftMembers'
  BY <1>1, <1>3, <1>6 DEF DraftMembers, DraftMember, Was
<1>10. WorkInv'
  BY <1>1, <1>6, <1>7, <1>8, <1>9 DEF WorkInv
<1>11. RepeatInv'
  <2>1. last' = {} /\ pc' # "idle" /\ DOMAIN draftVlan' = DOMAIN vlan'
    BY <1>1, <1>3
  <2>2. ASSUME repeat' PROVE Fixed(request)'
    <3>1. Fixed(r)
      BY <2>2, <1>1 DEF SwitchInv, RepeatInv
    <3> QED
      BY <3>1, <1>1 DEF Fixed
  <2> QED
    BY <2>1, <2>2 DEF RepeatInv
<1>12. SuppliedIsComposed' /\ \A p \in Port \ DOMAIN desired' : supplied'[p] = {}
  BY <1>1 DEF SwitchInv, SuppliedIsComposed
<1> QED
  BY <1>1, <1>3, <1>5, <1>10, <1>11, <1>12 DEF SwitchInv

LEMMA ApplySwitch ==
    ASSUME SwitchInv, NEW d \in Descriptor, NEW S \in SUBSET Port,
           NEW r \in [S -> Patch], Apply(d, r)
    PROVE  SwitchInv'
<1>1. r \in SwitchConfig
  BY SwitchAssumption, ConfigType
<1>2. asked' = Requested(r) \cup (DOMAIN desired \ DOMAIN r) /\ Begin(d, r)
  BY DEF Apply
<1>3. \A p \in Port \ asked' : /\ p \in DOMAIN desired => p \in DOMAIN r
                               /\ p \in DOMAIN r => r[p] = Unchanged
  BY <1>2 DEF Requested
<1>4. asked' \subseteq Port
  BY <1>2, TypeFacts DEF Requested
<1> QED
  BY <1>1, <1>2, <1>3, <1>4, BeginSwitch

LEMMA SetPortSwitch ==
    ASSUME SwitchInv, NEW d \in Descriptor, NEW p \in Port, NEW f \in Patch,
           SetSwitchPort(d, p, f)
    PROVE  SwitchInv'
<1> DEFINE r == PortRequest(p, f)
<1>1. /\ p \in DOMAIN desired /\ Begin(d, r) /\ asked' = {p}
      /\ r = [q \in DOMAIN desired |-> IF q = p THEN f ELSE Unchanged]
  BY DEF SetSwitchPort, PortRequest
<1>2. r \in SwitchConfig
  BY <1>1, TypeFacts, UnchangedType, SwitchAssumption, ConfigType
<1> QED
  BY <1>1, <1>2, BeginSwitch

\* What the names of the current port in Compile mean, while it is still to do.
LEMMA AtCurrent ==
    ASSUME SwitchInv, pc # "idle", todo # {}
    PROVE  /\ Current \in todo /\ Current \in DOMAIN request /\ Current \in Port
           /\ Current \notin Dropped /\ Current \notin Done
           /\ draftPort[Current].pvid = port[Current].pvid
           /\ Memberships(draftVlan, Current, "tagged") = Memberships(vlan, Current, "tagged")
           /\ Native = NativeOf(request[Current], port[Current])
           /\ Tagged = TagsOf(request[Current], vlan, Current)
           /\ \A n \in DOMAIN draftVlan : draftVlan[n].member[Current] = Was(vlan, n, Current)
<1> DEFINE c == Current
<1>1. c \in todo /\ c \in DOMAIN request /\ c \in Port
  BY TypeFacts, LeastIn DEF Current
<1>2. c \notin Dropped /\ c \notin Done
  BY <1>1 DEF Dropped, Done
<1> HIDE DEF c
<1>3. draftPort[c] = port[c] \/ draftPort[c] = Powered(port[c], request[c])
  BY <1>1, <1>2 DEF SwitchInv, WorkInv, DraftPorts
<1>4. draftPort[c].pvid = port[c].pvid
  <2>1. Powered(port[c], request[c]).pvid = port[c].pvid
    BY DEF Powered
  <2> QED
    BY <1>3, <2>1
<1>5. \A n \in DOMAIN draftVlan : draftVlan[n].member[c] = Was(vlan, n, c)
  BY <1>1, <1>2 DEF SwitchInv, WorkInv, DraftMembers, DraftMember
<1>6. ASSUME NEW x
      PROVE  x \in Memberships(draftVlan, c, "tagged") <=> x \in Memberships(vlan, c, "tagged")
  <2>1. /\ DOMAIN vlan \subseteq DOMAIN draftVlan
        /\ \A n \in DOMAIN vlan : draftVlan[n].id = vlan[n].id
    BY DEF SwitchInv, WorkInv, DraftNumbers
  <2>2. ASSUME NEW n \in DOMAIN draftVlan, draftVlan[n].member[c] = "tagged"
        PROVE  n \in DOMAIN vlan /\ vlan[n].member[c] = "tagged"
    BY <2>2, <1>5 DEF Was
  <2>3. ASSUME NEW n \in DOMAIN vlan
        PROVE  n \in DOMAIN draftVlan /\ draftVlan[n].member[c] = vlan[n].member[c]
    BY <2>1, <1>5 DEF Was
  <2>4. x \in Memberships(draftVlan, c, "tagged") <=>
           \E n \in DOMAIN draftVlan : draftVlan[n].member[c] = "tagged" /\ draftVlan[n].id = x
    BY MembershipsIn
  <2>5. x \in Memberships(vlan, c, "tagged") <=>
           \E n \in DOMAIN vlan : vlan[n].member[c] = "tagged" /\ vlan[n].id = x
    BY MembershipsIn
  <2> QED
    BY <2>1, <2>2, <2>3, <2>4, <2>5
<1>7. Memberships(draftVlan, c, "tagged") = Memberships(vlan, c, "tagged")
  BY <1>6
<1>8. Native = NativeOf(request[c], port[c])
  BY <1>4 DEF Native, NativeOf, c
<1>9. Tagged = TagsOf(request[c], vlan, c)
  BY <1>7 DEF Tagged, TagsOf, c
<1> QED
  BY <1>1, <1>2, <1>4, <1>5, <1>7, <1>8, <1>9 DEF c

\* A port that is not refused is accepted.
LEMMA NotRefused ==
    ASSUME SwitchInv, pc = "ports", todo # {}, ~PortRefused
    PROVE  /\ Accepted(Current)
           /\ WantsVlan(request[Current]) => {Native} \cup Tagged \subseteq VLAN
<1> DEFINE c == Current
           f == request[c]
<1>1. /\ c \in DOMAIN request /\ c \in Port /\ c \in todo
      /\ Memberships(draftVlan, c, "tagged") = Memberships(vlan, c, "tagged")
      /\ Native = NativeOf(f, port[c]) /\ Tagged = TagsOf(f, vlan, c)
  BY AtCurrent
<1>2. f \in PortConfig /\ port[c] \in PortRecord
  BY <1>1, TypeFacts
<1>3. c \in DOMAIN desired \/ Complete(f)
  <2>1. c \notin DOMAIN desired => Effective[c] = f
    BY <1>1, MergeType DEF Effective, SwitchInv, TypeOK
  <2> QED
    BY <2>1 DEF PortRefused
<1>4. ASSUME WantsVlan(f)
      PROVE  /\ Native \in VLAN /\ Tagged \subseteq VLAN /\ Native \notin Tagged
  <2>1. Native # 0 /\ Native \notin Tagged /\ 0 \notin Memberships(draftVlan, c, "tagged")
    BY <1>4 DEF PortRefused
  <2>2. NativeOf(f, port[c]) \in VLAN \cup {0}
    BY <1>2, OptionalValues DEF NativeOf, PortRecord
  <2>3. Memberships(vlan, c, "tagged") \subseteq VLAN \cup {0}
    <3> SUFFICES ASSUME NEW x \in Memberships(vlan, c, "tagged") PROVE x \in VLAN \cup {0}
      OBVIOUS
    <3>1. PICK n \in DOMAIN vlan : vlan[n].id = x
      BY MembershipsIn
    <3>2. vlan[n] \in VlanRecord
      BY DEF SwitchInv, TypeOK, VlanRecords
    <3> QED
      BY <3>1, <3>2 DEF VlanRecord
  <2>4. UNION f.tagged \subseteq VLAN
    BY <1>2, OptionalValues
  <2> QED
    BY <1>1, <2>1, <2>2, <2>3, <2>4 DEF TagsOf
<1> QED
  BY <1>1, <1>3, <1>4 DEF Accepted

\* The updates of ApplyPort and SetMembers, named, so that the provers need not
\* look into them.
WithPower(F, c, x, y)  == [F EXCEPT ![c].status = x, ![c].poe = y]
WithNative(F, c, x, y) == [F EXCEPT ![c].pvid = x, ![c].opmode = y]
WithMember(x, c, how)  == [x EXCEPT !.member[c] = how]

OpWord     == {"", "switch", "mirror"}
StatusWord == {"", "enabled", "disabled"}
PoeWord    == {"", "auto", "shutdown"}
MemberWord == {"", "untagged", "tagged", "exclude"}

PowerRecord(r, x, y)  == [opmode |-> r.opmode, pvid |-> r.pvid, status |-> x, poe |-> y]
NativeRecord(r, x, y) == [opmode |-> y, pvid |-> x, status |-> r.status, poe |-> r.poe]
Replaced(F, c, r)     == [p \in Port |-> IF p = c THEN r ELSE F[p]]
PortRecords           == [Port -> PortRecord]

LEMMA WithPowerIs ==
    ASSUME NEW F \in PortRecords, NEW c \in Port,
           NEW x \in StatusWord, NEW y \in PoeWord
    PROVE  WithPower(F, c, x, y) = Replaced(F, c, PowerRecord(F[c], x, y))
<1>1. WithPower(F, c, x, y)[c] = PowerRecord(F[c], x, y)
  BY DEF PortRecords, PortRecord, WithPower, StatusWord, PoeWord, PowerRecord
<1>2. \A p \in Port \ {c} : WithPower(F, c, x, y)[p] = F[p]
  BY DEF WithPower, PortRecords
<1>3. WithPower(F, c, x, y) = [p \in Port |-> WithPower(F, c, x, y)[p]]
  BY DEF WithPower, PortRecords
<1> QED
  BY <1>1, <1>2, <1>3 DEF Replaced

LEMMA WithNativeIs ==
    ASSUME NEW F \in PortRecords, NEW c \in Port,
           NEW x \in VLAN, NEW y \in OpWord
    PROVE  WithNative(F, c, x, y) = Replaced(F, c, NativeRecord(F[c], x, y))
<1>1. WithNative(F, c, x, y)[c] = NativeRecord(F[c], x, y)
  BY DEF PortRecords, PortRecord, WithNative, OpWord, NativeRecord
<1>2. \A p \in Port \ {c} : WithNative(F, c, x, y)[p] = F[p]
  BY DEF WithNative, PortRecords
<1>3. WithNative(F, c, x, y) = [p \in Port |-> WithNative(F, c, x, y)[p]]
  BY DEF WithNative, PortRecords
<1> QED
  BY <1>1, <1>2, <1>3 DEF Replaced

LEMMA WithMemberIs ==
    ASSUME NEW x \in VlanRecord, NEW c \in Port, NEW how \in MemberWord
    PROVE  /\ WithMember(x, c, how) \in VlanRecord
           /\ WithMember(x, c, how).id = x.id
           /\ WithMember(x, c, how).member[c] = how
           /\ \A p \in Port \ {c} : WithMember(x, c, how).member[p] = x.member[p]
BY DEF VlanRecord, WithMember, MemberWord

\* The current port's record is overlaid, up to its VLANs.
LEMMA ApplyPortSwitch ==
    ASSUME SwitchInv, ApplyPort
    PROVE  SwitchInv'
<1> DEFINE c == Current
           f == request[c]
<1>1. /\ pc = "ports" /\ todo # {} /\ ~PortRefused
      /\ UNCHANGED <<port, vlan, desired, draftVlan, descriptor, request, asked, supplied,
                     last, repeat>>
  BY DEF ApplyPort, stored, call, history
<1>2. c \in todo /\ c \in DOMAIN request /\ c \in Port /\ c \notin Dropped /\ c \notin Done
  BY <1>1, AtCurrent
<1>3. f \in PortConfig /\ port[c] \in PortRecord /\ draftPort \in [Port -> PortRecord]
  BY <1>2, TypeFacts DEF SwitchInv, TypeOK
<1>4. DraftPorts /\ DraftNumbers /\ DraftMembers /\ \A p \in Done : Accepted(p) /\ Ensured(p, {})
  BY <1>1 DEF SwitchInv, WorkInv
<1>5. draftPort[c] = port[c]
  BY <1>1, <1>2, <1>4 DEF DraftPorts
<1>6. draftPort' = [p \in Port |-> IF p = c THEN Powered(port[c], f) ELSE draftPort[p]]
  <2> DEFINE x == IF f.enabled # {} THEN StatusText(TRUE \in f.enabled)
                  ELSE draftPort[c].status
             y == IF f.poe \ {""} # {} THEN PoeText(CHOOSE m \in f.poe : TRUE)
                  ELSE draftPort[c].poe
  <2>1. x \in StatusWord /\ y \in PoeWord
    <3>1. draftPort[c] \in PortRecord
      BY <1>2, <1>3
    <3> QED
      BY <3>1 DEF StatusText, PoeText, PortRecord, StatusWord, PoeWord
  <2>2. draftPort' = WithPower(draftPort, c, x, y)
    BY DEF ApplyPort, WithPower
  <2>3. Powered(port[c], f) = PowerRecord(draftPort[c], x, y)
    BY <1>5 DEF Powered, PowerRecord
  <2>4. draftPort \in PortRecords
    BY <1>3 DEF PortRecords
  <2> HIDE DEF x, y, c, f
  <2>5. WithPower(draftPort, c, x, y) = Replaced(draftPort, c, PowerRecord(draftPort[c], x, y))
    BY <1>2, <2>1, <2>4, WithPowerIs, Zenon
  <2> QED
    BY <2>2, <2>3, <2>5 DEF Replaced
<1>7. draftPort' \in [Port -> PortRecord]
  BY <1>3, <1>6, PortTypes
<1>8. Accepted(c) /\ (WantsVlan(f) => {Native} \cup Tagged \subseteq VLAN)
  BY <1>1, NotRefused
<1>9. /\ DraftNumbers'
      /\ \A p \in Port \ asked : /\ p \in DOMAIN desired => p \in DOMAIN request
                                 /\ p \in DOMAIN request => request[p] = Unchanged
  BY <1>1, <1>4 DEF DraftNumbers, SwitchInv, WorkInv
<1>10. \A p : /\ Accepted(p)' <=> Accepted(p)
              /\ Ensured(p, {})' <=> Ensured(p, {})
  BY <1>1 DEF Accepted, Ensured
<1>11. RepeatInv'
  <2>1. last = {} /\ pc' # "idle"
    BY <1>1 DEF SwitchInv, RepeatInv, ApplyPort
  <2> QED
    BY <1>1, <2>1 DEF SwitchInv, RepeatInv, Fixed
<1>12. SuppliedIsComposed' /\ \A p \in Port \ DOMAIN desired' : supplied'[p] = {}
  BY <1>1 DEF SwitchInv, SuppliedIsComposed
<1>13. CASE WantsVlan(f)
  <2>1. pc' = "vlans" /\ need' = {Native} \cup Tagged /\ todo' = todo
    BY <1>13 DEF ApplyPort
  <2>2. TypeOK'
    BY <1>1, <1>7, <1>8, <1>13, <2>1 DEF SwitchInv, TypeOK, VlanRecords
  <2>3. Dropped' = Dropped /\ Done' = Done /\ Current' = c
    BY <1>1, <2>1 DEF Dropped, Done, Current
  <2>4. DraftPorts'
    BY <1>1, <1>2, <1>4, <1>6, <2>1, <2>3 DEF DraftPorts
  <2>5. DraftMembers'
    BY <1>1, <1>4, <2>3 DEF DraftMembers, DraftMember
  <2>6. need' = {NativeOf(f, port[c])} \cup TagsOf(f, vlan, c)
    BY <1>1, <2>1, AtCurrent
  <2>7. Ensured(Current, need)'
    BY <1>1, <2>3, <2>6 DEF Ensured
  <2>8. WorkInv'
    BY <1>1, <1>4, <1>8, <1>9, <1>10, <1>13, <2>1, <2>3, <2>4, <2>5, <2>6, <2>7 DEF WorkInv
  <2> QED
    BY <1>1, <1>11, <1>12, <2>1, <2>2, <2>8 DEF SwitchInv
<1>14. CASE ~WantsVlan(f)
  <2>1. pc' = "ports" /\ need' = need /\ todo' = todo \ {c}
    BY <1>1, <1>14 DEF ApplyPort
  <2>2. TypeOK'
    BY <1>1, <1>7, <2>1 DEF SwitchInv, TypeOK, VlanRecords
  <2>3. Dropped' = Dropped /\ Done' = Done \cup {c}
    BY <1>1, <1>2, <2>1 DEF Dropped, Done
  <2>4. Overlaid(port[c], f) = Powered(port[c], f)
    BY <1>14 DEF Overlaid, Powered, NativeOf, WantsVlan
  <2>5. DraftPorts'
    BY <1>1, <1>2, <1>4, <1>6, <2>1, <2>3, <2>4 DEF DraftPorts
  <2>6. DraftMembers'
    BY <1>1, <1>4, <1>14, <2>3 DEF DraftMembers, DraftMember
  <2>7. Ensured(c, {})
    BY <1>14 DEF Ensured
  <2>8. WorkInv'
    BY <1>1, <1>4, <1>8, <1>9, <1>10, <2>1, <2>3, <2>5, <2>6, <2>7 DEF WorkInv
  <2> QED
    BY <1>1, <1>11, <1>12, <2>1, <2>2, <2>8 DEF SwitchInv
<1> QED
  BY <1>13, <1>14

\* One more VLAN of the current port has a record.
LEMMA EnsureVlanSwitch ==
    ASSUME SwitchInv, EnsureVlan
    PROVE  SwitchInv'
<1> DEFINE c == Current
           id == Least(need)
           new == NextRecord(draftVlan)
           needs == {NativeOf(request[c], port[c])} \cup TagsOf(request[c], vlan, c)
           fresh == [id |-> id, member |-> [p \in Port |-> ""]]
<1>1. /\ pc = "vlans" /\ need # {} /\ need' = need \ {id}
      /\ UNCHANGED <<port, vlan, desired, pc, draftPort, descriptor, request, todo, asked,
                     supplied, last, repeat>>
  BY DEF EnsureVlan, stored, call, history
<1>2. /\ todo # {} /\ WantsVlan(request[c]) /\ Accepted(c) /\ Ensured(c, need)
      /\ need \subseteq needs
      /\ DraftPorts /\ DraftNumbers /\ DraftMembers
      /\ \A p \in Done : Accepted(p) /\ Ensured(p, {})
      /\ \A p \in Port \ asked : /\ p \in DOMAIN desired => p \in DOMAIN request
                                 /\ p \in DOMAIN request => request[p] = Unchanged
  BY <1>1 DEF SwitchInv, WorkInv
<1>3. id \in need /\ id \in VLAN
  BY <1>1, TypeFacts, LeastIn DEF SwitchInv, TypeOK
<1>4. new \in Nat \ {0} /\ new \notin DOMAIN draftVlan
  BY NextRecordIsFree DEF SwitchInv
<1>5. /\ Dropped' = Dropped /\ Done' = Done /\ Current' = c
      /\ \A p : Accepted(p)' <=> Accepted(p)
      /\ DraftPorts'
  BY <1>1, <1>2 DEF Dropped, Done, Current, Accepted, DraftPorts
<1>6. \/ Matches(draftVlan, id) # {} /\ draftVlan' = draftVlan
      \/ /\ Matches(draftVlan, id) = {}
         /\ draftVlan' = [n \in DOMAIN draftVlan \cup {new} |->
                             IF n = new THEN fresh ELSE draftVlan[n]]
  BY DEF EnsureVlan
<1>7. last = {} /\ SuppliedIsComposed' /\ \A p \in Port \ DOMAIN desired' : supplied'[p] = {}
  BY <1>1 DEF SwitchInv, RepeatInv, SuppliedIsComposed
<1> HIDE DEF c, id, new
<1>8. CASE Matches(draftVlan, id) # {} /\ draftVlan' = draftVlan
  <2>1. TypeOK'
    BY <1>1, <1>8 DEF SwitchInv, TypeOK, VlanRecords
  <2>2. DraftNumbers' /\ DraftMembers' /\ \A p : Ensured(p, {})' <=> Ensured(p, {})
    BY <1>1, <1>2, <1>5, <1>8 DEF DraftNumbers, DraftMembers, DraftMember, Ensured
  <2>3. Ensured(Current, need)'
    <3>1. \A v \in needs \ need' : Matches(draftVlan', v) # {}
      BY <1>1, <1>2, <1>8 DEF Ensured
    <3> QED
      BY <1>1, <1>5, <3>1 DEF Ensured
  <2>4. WorkInv'
    BY <1>1, <1>2, <1>5, <2>2, <2>3 DEF WorkInv
  <2>5. RepeatInv'
    BY <1>1, <1>7, <1>8 DEF SwitchInv, RepeatInv, Fixed
  <2> QED
    BY <1>1, <1>7, <1>8, <2>1, <2>4, <2>5 DEF SwitchInv
<1>9. CASE /\ Matches(draftVlan, id) = {}
           /\ draftVlan' = [n \in DOMAIN draftVlan \cup {new} |->
                               IF n = new THEN fresh ELSE draftVlan[n]]
  <2>1. /\ DOMAIN draftVlan' = DOMAIN draftVlan \cup {new}
        /\ draftVlan'[new] = fresh
        /\ \A n \in DOMAIN draftVlan : draftVlan'[n] = draftVlan[n]
    BY <1>4, <1>9
  <2>2. fresh.id = id /\ (\A p \in Port : fresh.member[p] = "") /\ fresh \in VlanRecord
    BY <1>3 DEF VlanRecord
  <2> HIDE DEF fresh
  <2>3. \A n \in DOMAIN draftVlan : draftVlan[n].id # id
    BY <1>9 DEF Matches
  <2>4. TypeOK'
    <3>1. VlanRecords(draftVlan')
      <4>1. draftVlan' = [n \in DOMAIN draftVlan' |-> draftVlan'[n]]
        BY <1>9
      <4> QED
        BY <1>4, <2>1, <2>2, <4>1, VlanRecordsIs DEF SwitchInv, TypeOK, VlanRecords
    <3>2. VlanRecords(vlan)'
      BY <1>1 DEF SwitchInv, TypeOK
    <3> QED
      BY <1>1, <3>1, <3>2 DEF SwitchInv, TypeOK
  <2>5. DraftNumbers'
    <3>1. /\ DOMAIN vlan \subseteq DOMAIN draftVlan'
          /\ \A n \in DOMAIN vlan : draftVlan'[n].id = vlan[n].id
      BY <1>2, <2>1 DEF DraftNumbers
    <3>2. ASSUME NEW n \in DOMAIN draftVlan' \ DOMAIN vlan, NEW m \in DOMAIN draftVlan' \ {n}
          PROVE  draftVlan'[m].id # draftVlan'[n].id
      <4>1. CASE n = new
        <5>1. draftVlan'[n].id = id /\ m \in DOMAIN draftVlan
          BY <2>1, <2>2, <4>1
        <5> QED
          BY <2>1, <2>3, <5>1
      <4>2. CASE m = new
        <5>1. draftVlan'[m].id = id /\ n \in DOMAIN draftVlan
          BY <2>1, <2>2, <4>2
        <5> QED
          BY <2>1, <2>3, <5>1
      <4>3. CASE n # new /\ m # new
        BY <1>2, <2>1, <4>3 DEF DraftNumbers
      <4> QED
        BY <4>1, <4>2, <4>3
    <3> QED
      BY <1>1, <3>1, <3>2 DEF DraftNumbers
  <2>6. DraftMembers'
    <3> SUFFICES ASSUME NEW n \in DOMAIN draftVlan', NEW p \in Port
                 PROVE  draftVlan'[n].member[p] = DraftMember(n, p)'
      BY DEF DraftMembers
    <3>1. CASE n # new
      <4>1. n \in DOMAIN draftVlan /\ draftVlan'[n] = draftVlan[n]
        BY <2>1, <3>1
      <4>2. DraftMember(n, p)' = DraftMember(n, p)
        BY <1>1, <1>5, <4>1 DEF DraftMember
      <4> QED
        BY <1>2, <4>1, <4>2 DEF DraftMembers
    <3>2. CASE n = new
      <4>1. draftVlan'[n].member[p] = "" /\ draftVlan'[n].id = id
        BY <2>1, <2>2, <3>2
      <4>2. Was(vlan, n, p) = ""
        BY <1>2, <1>4, <3>2 DEF Was, DraftNumbers
      <4>3. ASSUME p \in Done, WantsVlan(request[p])
            PROVE  /\ id # NativeOf(request[p], port[p])
                   /\ id \notin TagsOf(request[p], vlan, p)
        BY <1>2, <1>9, <4>3 DEF Ensured
      <4> QED
        BY <1>1, <1>5, <4>1, <4>2, <4>3 DEF DraftMember, ModeOf
    <3> QED
      BY <3>1, <3>2
  <2>7. \A v : Matches(draftVlan, v) # {} => Matches(draftVlan', v) # {}
    BY <2>1 DEF Matches
  <2>8. Matches(draftVlan', id) # {}
    BY <2>1, <2>2 DEF Matches
  <2>9. \A p : Ensured(p, {}) => Ensured(p, {})'
    BY <1>1, <2>7 DEF Ensured
  <2>10. Ensured(Current, need)'
    <3>1. \A v \in needs \ need' : Matches(draftVlan', v) # {}
      BY <1>1, <1>2, <2>7, <2>8 DEF Ensured
    <3> QED
      BY <1>1, <1>5, <3>1 DEF Ensured
  <2>11. WorkInv'
    BY <1>1, <1>2, <1>5, <2>5, <2>6, <2>9, <2>10 DEF WorkInv
  <2>12. ~repeat
    <3> SUFFICES ASSUME repeat PROVE FALSE
      OBVIOUS
    <3>1. Fixed(request) /\ c \in DOMAIN request
      BY <1>1, <1>2, AtCurrent DEF SwitchInv, RepeatInv, c
    <3>2. Matches(vlan, id) # {}
      BY <1>2, <1>3, <3>1 DEF Fixed, Retagged
    <3> QED
      BY <1>2, <1>9, <3>2 DEF Matches, DraftNumbers
  <2>13. RepeatInv'
    BY <1>1, <1>7, <2>12 DEF RepeatInv
  <2>14. IsFiniteSet(DOMAIN draftVlan')
    BY <2>1, FS_AddElement DEF SwitchInv
  <2> QED
    BY <1>1, <1>7, <2>4, <2>11, <2>13, <2>14 DEF SwitchInv
<1> QED
  BY <1>6, <1>8, <1>9

\* The current port's memberships are set, and it is done.
LEMMA SetMembersSwitch ==
    ASSUME SwitchInv, SetMembers
    PROVE  SwitchInv'
<1> DEFINE c == Current
           f == request[c]
           tags == TagsOf(f, vlan, c)
<1>0. draftVlan' = [n \in DOMAIN draftVlan |->
                      WithMember(draftVlan[n], c, MemberMode(draftVlan[n]))]
  BY DEF SetMembers, WithMember
<1>1. /\ pc = "vlans" /\ need = {} /\ pc' = "ports" /\ todo' = todo \ {c}
      /\ UNCHANGED <<port, vlan, desired, descriptor, request, need, asked, supplied, last,
                     repeat>>
  BY DEF SetMembers, stored, call, history
<1>2. /\ todo # {} /\ WantsVlan(f) /\ Accepted(c) /\ Ensured(c, {})
      /\ DraftPorts /\ DraftNumbers /\ DraftMembers
      /\ \A p \in Done : Accepted(p) /\ Ensured(p, {})
      /\ \A p \in Port \ asked : /\ p \in DOMAIN desired => p \in DOMAIN request
                                 /\ p \in DOMAIN request => request[p] = Unchanged
  BY <1>1 DEF SwitchInv, WorkInv
<1>3. /\ c \in todo /\ c \in DOMAIN request /\ c \in Port /\ c \notin Dropped /\ c \notin Done
      /\ draftPort[c].pvid = port[c].pvid
      /\ Native = NativeOf(f, port[c]) /\ Tagged = tags
      /\ \A n \in DOMAIN draftVlan : draftVlan[n].member[c] = Was(vlan, n, c)
  BY <1>1, <1>2, AtCurrent
<1>4. /\ f \in PortConfig /\ port[c] \in PortRecord /\ draftPort \in [Port -> PortRecord]
      /\ \A n \in DOMAIN draftVlan : draftVlan[n] \in VlanRecord
  BY <1>3, TypeFacts DEF SwitchInv, TypeOK, VlanRecords
<1>5. draftPort[c] = Powered(port[c], f)
  BY <1>1, <1>2, <1>3 DEF DraftPorts
<1>6. draftPort' = [p \in Port |-> IF p = c THEN Overlaid(port[c], f) ELSE draftPort[p]]
  <2>1. CASE f.native # {}
    <3> DEFINE x == NativeOf(f, port[c])
               y == "switch"
    <3>1. draftPort' = WithNative(draftPort, c, x, y)
      BY <2>1, <1>3 DEF SetMembers, WithNative
    <3>2. x \in VLAN /\ y \in OpWord
      BY <1>2 DEF Accepted, OpWord
    <3>3. Overlaid(port[c], f) = NativeRecord(draftPort[c], x, y)
      BY <1>5, <2>1 DEF Overlaid, NativeRecord
    <3>4. draftPort \in PortRecords
      BY <1>4 DEF PortRecords
    <3> HIDE DEF x, y, c, f
    <3>5. WithNative(draftPort, c, x, y) = Replaced(draftPort, c, NativeRecord(draftPort[c], x, y))
      BY <1>3, <3>2, <3>4, WithNativeIs, Zenon
    <3> QED
      BY <3>1, <3>3, <3>5 DEF Replaced
  <2>2. CASE f.native = {}
    <3>1. draftPort' = draftPort
      BY <2>2 DEF SetMembers
    <3>2. Overlaid(port[c], f) = Powered(port[c], f)
      BY <2>2 DEF Overlaid, Powered, NativeOf
    <3>3. draftPort = [p \in Port |-> draftPort[p]]
      BY <1>4
    <3> QED
      BY <1>5, <3>1, <3>2, <3>3
  <2> QED
    BY <2>1, <2>2
<1>7. ASSUME NEW n \in DOMAIN draftVlan
      PROVE  MemberMode(draftVlan[n])
                = ModeOf(f, port[c], tags, draftVlan[n].id, Was(vlan, n, c))
  BY <1>3 DEF MemberMode, ModeOf
<1>8. ASSUME NEW n \in DOMAIN draftVlan
      PROVE  /\ draftVlan'[n] \in VlanRecord /\ draftVlan'[n].id = draftVlan[n].id
             /\ draftVlan'[n].member[c]
                   = ModeOf(f, port[c], tags, draftVlan[n].id, Was(vlan, n, c))
             /\ \A p \in Port \ {c} : draftVlan'[n].member[p] = draftVlan[n].member[p]
  <2> DEFINE how == ModeOf(f, port[c], tags, draftVlan[n].id, Was(vlan, n, c))
  <2>1. how \in MemberWord
    <3>1. draftVlan[n].member[c] \in MemberWord
      BY <1>3, <1>4 DEF VlanRecord, MemberWord
    <3>2. Was(vlan, n, c) \in MemberWord
      BY <1>3, <3>1
    <3> QED
      BY <3>2 DEF ModeOf, MemberWord
  <2>2. draftVlan'[n] = WithMember(draftVlan[n], c, how)
    BY <1>0, <1>7
  <2> HIDE DEF how, c
  <2> DEFINE x == draftVlan[n]
  <2>3. x \in VlanRecord /\ c \in Port
    BY <1>3, <1>4
  <2>4. /\ WithMember(x, c, how) \in VlanRecord
        /\ WithMember(x, c, how).id = x.id
        /\ WithMember(x, c, how).member[c] = how
        /\ \A p \in Port \ {c} : WithMember(x, c, how).member[p] = x.member[p]
    <3> HIDE DEF x
    <3> QED
      BY <2>1, <2>3, WithMemberIs, Zenon
  <2>5. /\ draftVlan'[n] \in VlanRecord /\ draftVlan'[n].id = draftVlan[n].id
        /\ draftVlan'[n].member[c] = how
        /\ \A p \in Port \ {c} : draftVlan'[n].member[p] = draftVlan[n].member[p]
    BY <2>2, <2>4
  <2> QED
    BY <2>5 DEF how
<1>9. DOMAIN draftVlan' = DOMAIN draftVlan
  BY <1>0
<1> HIDE DEF c, f, tags
<1>10. TypeOK'
  <2>1. VlanRecords(draftVlan') /\ VlanRecords(vlan)'
    <3>1. draftVlan' = [n \in DOMAIN draftVlan' |-> draftVlan'[n]]
      BY <1>0
    <3>2. VlanRecords(draftVlan')
      BY <1>8, <1>9, <3>1, VlanRecordsIs DEF SwitchInv, TypeOK, VlanRecords
    <3> QED
      BY <1>1, <3>2 DEF SwitchInv, TypeOK
  <2>2. draftPort' \in [Port -> PortRecord]
    BY <1>4, <1>6, PortTypes
  <2> QED
    BY <1>1, <2>1, <2>2 DEF SwitchInv, TypeOK
<1>11. Dropped' = Dropped /\ Done' = Done \cup {c}
  BY <1>1, <1>3 DEF Dropped, Done
<1>12. DraftPorts'
  <2> SUFFICES ASSUME NEW p \in Port
               PROVE  draftPort'[p] = IF p \in Dropped' THEN NoRecord
                                      ELSE IF p \in Done' THEN Overlaid(port[p], request[p])
                                      ELSE port[p]
    BY <1>1 DEF DraftPorts
  <2>1. CASE p = c
    BY <1>3, <1>6, <1>11, <2>1 DEF f
  <2>2. CASE p # c
    <3>1. draftPort'[p] = draftPort[p]
      BY <1>6, <2>2
    <3> QED
      BY <1>2, <1>11, <2>2, <3>1 DEF DraftPorts, c
  <2> QED
    BY <2>1, <2>2
<1>13. DraftNumbers'
  BY <1>1, <1>2, <1>8, <1>9 DEF DraftNumbers
<1>14. DraftMembers'
  <2> SUFFICES ASSUME NEW n \in DOMAIN draftVlan, NEW p \in Port
               PROVE  draftVlan'[n].member[p] = DraftMember(n, p)'
    BY <1>9 DEF DraftMembers
  <2>1. CASE p = c
    BY <1>1, <1>2, <1>3, <1>8, <1>11, <2>1 DEF DraftMember, f, tags
  <2>2. CASE p # c
    <3>0. draftVlan'[n].id = draftVlan[n].id /\ (p \in Done' <=> p \in Done)
      BY <1>8, <1>11, <2>2
    <3>1. DraftMember(n, p)' = DraftMember(n, p)
      BY <1>1, <1>11, <3>0 DEF DraftMember
    <3> QED
      BY <1>2, <1>8, <2>2, <3>1 DEF DraftMembers
  <2> QED
    BY <2>1, <2>2
<1>15. \A v : Matches(draftVlan, v) # {} => Matches(draftVlan', v) # {}
  BY <1>8, <1>9 DEF Matches
<1>16. \A p : /\ Accepted(p)' <=> Accepted(p)
              /\ Ensured(p, {}) => Ensured(p, {})'
  BY <1>1, <1>15 DEF Accepted, Ensured
<1>17. WorkInv'
  BY <1>1, <1>2, <1>11, <1>12, <1>13, <1>14, <1>16 DEF WorkInv
<1>18. RepeatInv'
  <2>1. last = {}
    BY <1>1 DEF SwitchInv, RepeatInv
  <2> QED
    BY <1>1, <1>9, <2>1 DEF SwitchInv, RepeatInv, Fixed
<1>19. SuppliedIsComposed' /\ \A p \in Port \ DOMAIN desired' : supplied'[p] = {}
  BY <1>1 DEF SwitchInv, SuppliedIsComposed
<1> QED
  BY <1>1, <1>9, <1>10, <1>17, <1>18, <1>19 DEF SwitchInv

-------------------------------------------------------------------------------
(* The end of a compilation *)

\* How a port can belong to a VLAN.
BelongWord == {"untagged", "tagged", "exclude"}

\* The records w are the records v, with others added, and leave the port p alone.
Kept(v, w, p) ==
    /\ DOMAIN v \subseteq DOMAIN w
    /\ \A n \in DOMAIN v : w[n].id = v[n].id
    /\ \A n \in DOMAIN w : w[n].member[p] = Was(v, n, p)

LEMMA KeptMemberships ==
    ASSUME NEW v, NEW w, NEW p, Kept(v, w, p), NEW how \in BelongWord
    PROVE  Memberships(w, p, how) = Memberships(v, p, how)
<1> USE DEF Kept, BelongWord
<1>1. ASSUME NEW n \in DOMAIN w, w[n].member[p] = how
      PROVE  n \in DOMAIN v /\ v[n].member[p] = how
  BY <1>1 DEF Was
<1>2. ASSUME NEW n \in DOMAIN v
      PROVE  n \in DOMAIN w /\ w[n].member[p] = v[n].member[p]
  BY DEF Was
<1>3. ASSUME NEW x
      PROVE  x \in Memberships(w, p, how) <=> x \in Memberships(v, p, how)
  <2>1. x \in Memberships(w, p, how) <=>
           \E n \in DOMAIN w : w[n].member[p] = how /\ w[n].id = x
    BY DEF Memberships
  <2>2. x \in Memberships(v, p, how) <=>
           \E n \in DOMAIN v : v[n].member[p] = how /\ v[n].id = x
    BY DEF Memberships
  <2> QED
    BY <1>1, <1>2, <2>1, <2>2
<1> QED
  BY <1>3

\* When every port of the request is done, the copy is what the request makes of
\* the stored body.
LEMMA AtFinish ==
    ASSUME SwitchInv, pc = "ports", todo = {}
    PROVE  /\ Done = DOMAIN request
           /\ \A p \in DOMAIN request : /\ draftPort[p] = Overlaid(port[p], request[p])
                                        /\ Accepted(p)
           /\ \A p \in DOMAIN request : WantsVlan(request[p]) =>
                 Retagged(vlan, draftVlan, p, port[p], request[p])
           /\ \A p \in DOMAIN request :
                 Memberships(draftVlan, p, "tagged") = TagsOf(request[p], vlan, p)
           /\ \A p \in DOMAIN request, how \in BelongWord : ~WantsVlan(request[p]) =>
                 Memberships(draftVlan, p, how) = Memberships(vlan, p, how)
<1>1. Done = DOMAIN request /\ DOMAIN request \subseteq Port
  BY TypeFacts DEF Done
<1>2. DraftPorts /\ DraftNumbers /\ DraftMembers /\ \A p \in Done : Accepted(p) /\ Ensured(p, {})
  BY DEF SwitchInv, WorkInv
<1>3. ASSUME NEW p \in DOMAIN request
      PROVE  p \in Port /\ p \in Done /\ p \notin Dropped
  BY <1>1 DEF Dropped
<1>4. \A p \in DOMAIN request : draftPort[p] = Overlaid(port[p], request[p]) /\ Accepted(p)
  BY <1>2, <1>3 DEF DraftPorts
<1>5. ASSUME NEW p \in DOMAIN request, WantsVlan(request[p])
      PROVE  Retagged(vlan, draftVlan, p, port[p], request[p])
  <2>1. \A n \in DOMAIN draftVlan :
           draftVlan[n].member[p] = ModeOf(request[p], port[p], TagsOf(request[p], vlan, p),
                                           draftVlan[n].id, Was(vlan, n, p))
    BY <1>2, <1>3, <1>5 DEF DraftMembers, DraftMember
  <2>2. Accepted(p) /\ Ensured(p, {})
    BY <1>2, <1>3
  <2> QED
    BY <1>2, <1>5, <2>1, <2>2 DEF Retagged, DraftNumbers, Accepted, Ensured
<1>6. ASSUME NEW p \in DOMAIN request, NEW how \in BelongWord, ~WantsVlan(request[p])
      PROVE  Memberships(draftVlan, p, how) = Memberships(vlan, p, how)
  <2>1. \A n \in DOMAIN draftVlan : draftVlan[n].member[p] = Was(vlan, n, p)
    BY <1>2, <1>3, <1>6 DEF DraftMembers, DraftMember
  <2>2. Kept(vlan, draftVlan, p)
    BY <1>2, <2>1 DEF DraftNumbers, Kept
  <2> QED
    BY <1>6, <2>2, KeptMemberships
<1>7. ASSUME NEW p \in DOMAIN request
      PROVE  Memberships(draftVlan, p, "tagged") = TagsOf(request[p], vlan, p)
  <2>1. CASE WantsVlan(request[p])
    BY <1>5, <2>1, TaggedAfter
  <2>2. CASE ~WantsVlan(request[p])
    BY <1>6, <2>2 DEF WantsVlan, TagsOf, BelongWord
  <2> QED
    BY <2>1, <2>2
<1> QED
  BY <1>1, <1>4, <1>5, <1>6, <1>7

\* What SuppliedIsComposed says of a port: the fields supplied, the projection
\* want of the port, its record and the VLANs it is tagged in.
Composed(fields, want, r, tags) ==
    /\ "enabled" \in fields => \A b \in want.enabled : r.status = StatusText(b)
    /\ "poe" \in fields => \A m \in want.poe \ {""} : r.poe = PoeText(m)
    /\ "native" \in fields => r.pvid \in want.native
    /\ "tagged" \in fields => tags \in want.tagged

LEMMA FieldsIn ==
    ASSUME NEW f
    PROVE  /\ FieldsOf(f) \subseteq {"enabled", "native", "tagged", "poe"}
           /\ "enabled" \in FieldsOf(f) <=> f.enabled # {}
           /\ "native" \in FieldsOf(f) <=> f.native # {}
           /\ "tagged" \in FieldsOf(f) <=> f.tagged # {}
           /\ "poe" \in FieldsOf(f) <=> f.poe \ {""} # {}
BY DEF FieldsOf

\* The projection and the record stay composed when a request is merged into one
\* and overlaid on the other.
LEMMA ComposedAfter ==
    ASSUME NEW fields, NEW want \in PortConfig, NEW f \in PortConfig, NEW r \in PortRecord,
           NEW v, NEW p, Composed(fields, want, r, Memberships(v, p, "tagged"))
    PROVE  Composed(fields \cup FieldsOf(f), MergePort(want, f), Overlaid(r, f), TagsOf(f, v, p))
<1> DEFINE F == fields \cup FieldsOf(f)
           g == MergePort(want, f)
           q == Overlaid(r, f)
<1>1. /\ "enabled" \in F => "enabled" \in fields \/ f.enabled # {}
      /\ "poe" \in F => "poe" \in fields \/ f.poe \ {""} # {}
      /\ "native" \in F => "native" \in fields \/ f.native # {}
      /\ "tagged" \in F => "tagged" \in fields \/ f.tagged # {}
  BY FieldsIn
<1>2. /\ g.enabled = Overlay(want.enabled, f.enabled) /\ g.poe = Overlay(want.poe, f.poe)
      /\ g.native = Overlay(want.native, f.native) /\ g.tagged = Overlay(want.tagged, f.tagged)
  BY DEF MergePort
<1>3. /\ q.pvid = NativeOf(f, r)
      /\ q.status = IF f.enabled # {} THEN StatusText(TRUE \in f.enabled) ELSE r.status
      /\ q.poe = IF f.poe \ {""} # {} THEN PoeText(CHOOSE m \in f.poe : TRUE) ELSE r.poe
  BY DEF Overlaid, Powered
<1> HIDE DEF F, g, q
<1>4. ASSUME "enabled" \in F, NEW b \in g.enabled
      PROVE  q.status = StatusText(b)
  <2>1. CASE f.enabled # {}
    <3>1. g.enabled = f.enabled /\ q.status = StatusText(TRUE \in f.enabled)
      BY <1>2, <1>3, <2>1 DEF Overlay
    <3>2. PICK e \in BOOLEAN : f.enabled = {e}
      BY <2>1 DEF PortConfig, Optional
    <3>3. b = e
      BY <1>4, <3>1, <3>2
    <3>4. CASE e = TRUE
      <4>1. TRUE \in f.enabled
        BY <3>2, <3>4
      <4> QED
        BY <3>1, <3>3, <3>4, <4>1 DEF StatusText
    <3>5. CASE e = FALSE
      <4>1. TRUE \notin f.enabled
        BY <3>2, <3>5
      <4> QED
        BY <3>1, <3>3, <3>5, <4>1 DEF StatusText
    <3> QED
      BY <3>2, <3>4, <3>5
  <2>2. CASE f.enabled = {}
    BY <1>1, <1>2, <1>3, <1>4, <2>2 DEF Overlay, Composed
  <2> QED
    BY <2>1, <2>2
<1>5. ASSUME "poe" \in F, NEW m \in g.poe \ {""}
      PROVE  q.poe = PoeText(m)
  <2>1. CASE f.poe \ {""} # {}
    <3>1. g.poe = f.poe /\ q.poe = PoeText(CHOOSE x \in f.poe : TRUE)
      BY <1>2, <1>3, <2>1 DEF Overlay
    <3>2. PICK e : f.poe = {e}
      BY <2>1 DEF PortConfig, Optional
    <3>3. (CHOOSE x \in f.poe : TRUE) \in f.poe /\ m \in f.poe
      BY <1>5, <3>1, <3>2
    <3>4. (CHOOSE x \in f.poe : TRUE) = e /\ m = e
      BY <3>2, <3>3
    <3> QED
      BY <3>1, <3>4
  <2>2. CASE f.poe \ {""} = {}
    <3>1. f.poe = {}
      BY <1>2, <1>5, <2>2 DEF Overlay
    <3> QED
      BY <1>1, <1>2, <1>3, <1>5, <2>2, <3>1 DEF Overlay, Composed
  <2> QED
    BY <2>1, <2>2
<1>6. ASSUME "native" \in F
      PROVE  q.pvid \in g.native
  <2>1. CASE f.native # {}
    BY <1>2, <1>3, <2>1 DEF Overlay, NativeOf
  <2>2. CASE f.native = {}
    BY <1>1, <1>2, <1>3, <1>6, <2>2 DEF Overlay, NativeOf, Composed
  <2> QED
    BY <2>1, <2>2
<1>7. ASSUME "tagged" \in F
      PROVE  TagsOf(f, v, p) \in g.tagged
  <2>1. CASE f.tagged # {}
    BY <1>2, <2>1, OptionalValues DEF Overlay, TagsOf
  <2>2. CASE f.tagged = {}
    BY <1>1, <1>2, <1>7, <2>2 DEF Overlay, TagsOf, Composed
  <2> QED
    BY <2>1, <2>2
<1>8. Composed(F, g, q, TagsOf(f, v, p))
  BY <1>4, <1>5, <1>6, <1>7 DEF Composed
<1> QED
  BY <1>8 DEF F, g, q

\* Merging the same request again changes nothing.
LEMMA MergedTwice ==
    ASSUME NEW a \in PortConfig, NEW f \in PortConfig
    PROVE  /\ MergePort(MergePort(a, f), f) = MergePort(a, f)
           /\ MergePort(f, f) = f
           /\ MergePort(Unchanged, f) = f
           /\ MergePort(a, Unchanged) = a
<1>1. MergePort(MergePort(a, f), f) = MergePort(a, f)
  BY DEF MergePort, Overlay
<1>2. MergePort(f, f) = f /\ MergePort(Unchanged, f) = f /\ MergePort(a, Unchanged) = a
  BY DEF MergePort, Overlay, PortConfig, Unchanged
<1> QED
  BY <1>1, <1>2

\* Requests that say nothing of a port leave its record and projection alone.
LEMMA OverlaidUnchanged ==
    ASSUME NEW r \in PortRecord
    PROVE  Overlaid(r, Unchanged) = r
BY DEF Overlaid, Powered, NativeOf, Unchanged, PortRecord

\* The merged projection, port by port.
LEMMA EffectiveIs ==
    ASSUME SwitchInv
    PROVE  /\ Effective \in SwitchConfig /\ DOMAIN Effective = DOMAIN request
           /\ Effective = [p \in DOMAIN request |-> Effective[p]]
           /\ \A p \in DOMAIN request :
                 Effective[p] = MergePort(IF p \in DOMAIN desired THEN desired[p] ELSE Unchanged,
                                          request[p])
<1>1. /\ Effective \in SwitchConfig /\ DOMAIN Effective = DOMAIN request
      /\ \A p \in DOMAIN request :
            Effective[p] = IF p \in DOMAIN desired THEN MergePort(desired[p], request[p])
                           ELSE request[p]
  BY MergeType DEF Effective, SwitchInv, TypeOK
<1>2. ASSUME NEW p \in DOMAIN request, p \notin DOMAIN desired
      PROVE  MergePort(Unchanged, request[p]) = request[p]
  BY TypeFacts, UnchangedType, MergedTwice
<1> QED
  BY <1>1, <1>2, ConfigType

LEMMA FinishSupplied ==
    ASSUME SwitchInv, Finish
    PROVE  SuppliedIsComposed'
<1>1. /\ pc = "ports" /\ todo = {}
      /\ port' = draftPort /\ vlan' = draftVlan /\ desired' = Effective
      /\ \A p \in Port : supplied'[p] = IF p \in DOMAIN request
                                        THEN supplied[p] \cup FieldsOf(request[p]) ELSE {}
  BY DEF Finish
<1>2. ASSUME NEW p \in DOMAIN request
      PROVE  Composed(supplied'[p], desired'[p], port'[p], Memberships(vlan', p, "tagged"))
  <2> DEFINE want == IF p \in DOMAIN desired THEN desired[p] ELSE Unchanged
             f == request[p]
             r == port[p]
             fields == supplied[p]
  <2>1. p \in Port /\ f \in PortConfig /\ r \in PortRecord /\ want \in PortConfig
    BY TypeFacts, UnchangedType
  <2>2. Composed(fields, want, r, Memberships(vlan, p, "tagged"))
    <3>1. CASE p \in DOMAIN desired
      BY <3>1 DEF Composed, SwitchInv, SuppliedIsComposed
    <3>2. CASE p \notin DOMAIN desired
      <4>1. fields = {}
        BY <2>1, <3>2 DEF SwitchInv
      <4> QED
        BY <4>1 DEF Composed
    <3> QED
      BY <3>1, <3>2
  <2>3. supplied'[p] = fields \cup FieldsOf(f)
    BY <1>1, <2>1
  <2>4. desired'[p] = MergePort(want, f)
    BY <1>1, EffectiveIs
  <2>5. port'[p] = Overlaid(r, f) /\ Memberships(vlan', p, "tagged") = TagsOf(f, vlan, p)
    BY <1>1, AtFinish
  <2> HIDE DEF want, f, r, fields
  <2>6. Composed(fields \cup FieldsOf(f), MergePort(want, f), Overlaid(r, f), TagsOf(f, vlan, p))
    BY <2>1, <2>2, ComposedAfter
  <2> QED
    BY <2>3, <2>4, <2>5, <2>6
<1>3. DOMAIN desired' = DOMAIN request
  BY <1>1, EffectiveIs
<1> QED
  BY <1>2, <1>3 DEF SuppliedIsComposed, Composed

\* The request just committed would change nothing if it were applied again.
LEMMA FinishFixed ==
    ASSUME SwitchInv, Finish, NEW r, r = request
    PROVE  Fixed(r)'
<1>1. /\ pc = "ports" /\ todo = {}
      /\ port' = draftPort /\ vlan' = draftVlan /\ desired' = Effective
  BY DEF Finish
<1>2. \A p \in DOMAIN request : /\ p \in Port /\ request[p] \in PortConfig
                                /\ port[p] \in PortRecord
  BY TypeFacts
<1>3. MergeSwitch(Effective, request) = Effective
  <2>1. Effective \in SwitchConfig /\ request \in SwitchConfig
    BY EffectiveIs DEF SwitchInv, TypeOK
  <2> DEFINE M == MergeSwitch(Effective, request)
  <2>2. /\ M \in SwitchConfig /\ DOMAIN M = DOMAIN request
        /\ \A p \in DOMAIN request : M[p] = MergePort(Effective[p], request[p])
    BY <2>1, MergeType, EffectiveIs
  <2>3. M = [p \in DOMAIN request |-> M[p]]
    BY <2>2, ConfigType
  <2> HIDE DEF M
  <2>4. ASSUME NEW p \in DOMAIN request
        PROVE  M[p] = Effective[p]
    <3> DEFINE want == IF p \in DOMAIN desired THEN desired[p] ELSE Unchanged
    <3>1. want \in PortConfig /\ request[p] \in PortConfig
      BY TypeFacts, UnchangedType
    <3>2. Effective[p] = MergePort(want, request[p])
      BY EffectiveIs
    <3> HIDE DEF want
    <3> QED
      BY <2>2, <3>1, <3>2, MergedTwice
  <2>5. M = Effective
    BY <2>3, <2>4, EffectiveIs
  <2> QED
    BY <2>5 DEF M
<1>4. ASSUME NEW p \in DOMAIN request
      PROVE  /\ draftPort[p] = Overlaid(port[p], request[p])
             /\ Overlaid(draftPort[p], request[p]) = draftPort[p]
  <2>1. draftPort[p] = Overlaid(port[p], request[p])
    BY <1>1, AtFinish
  <2> QED
    BY <1>2, <2>1, OverlaidTwice
<1>5. ASSUME NEW p \in DOMAIN request, WantsVlan(request[p])
      PROVE  Retagged(draftVlan, draftVlan, p, draftPort[p], request[p])
  <2>1. Retagged(vlan, draftVlan, p, port[p], request[p])
    BY <1>1, <1>5, AtFinish
  <2> QED
    BY <1>2, <1>4, <2>1, RetaggedTwice
<1> QED
  BY <1>1, <1>3, <1>4, <1>5 DEF Fixed

\* The copy becomes the stored body.
LEMMA FinishSwitch ==
    ASSUME SwitchInv, Finish
    PROVE  SwitchInv'
<1>1. /\ pc = "ports" /\ todo = {} /\ pc' = "idle" /\ request' = Nothing
      /\ port' = draftPort /\ vlan' = draftVlan /\ desired' = Effective
      /\ last' = {request} /\ asked' = {} /\ repeat' = FALSE
      /\ UNCHANGED <<draftPort, draftVlan, descriptor, todo, need>>
      /\ supplied' = [p \in Port |-> IF p \in DOMAIN request
                                     THEN supplied[p] \cup FieldsOf(request[p]) ELSE {}]
  BY DEF Finish, draft
<1>2. /\ DOMAIN request \subseteq Port /\ need = {}
      /\ Effective \in SwitchConfig /\ DOMAIN Effective = DOMAIN request
  BY <1>1, TypeFacts, EffectiveIs DEF SwitchInv
<1>3. supplied' \in [Port -> SUBSET {"enabled", "native", "tagged", "poe"}]
  BY <1>1, FieldsIn DEF SwitchInv, TypeOK
<1>4. TypeOK'
  BY <1>1, <1>2, <1>3, NothingType DEF SwitchInv, TypeOK
<1>5. RepeatInv'
  <2>1. ASSUME NEW r \in last' PROVE Fixed(r)'
    BY <1>1, FinishFixed
  <2> QED
    BY <1>1, <2>1 DEF RepeatInv
<1>6. \A p \in Port \ DOMAIN desired' : supplied'[p] = {}
  BY <1>1, <1>2
<1> QED
  BY <1>1, <1>2, <1>4, <1>5, <1>6, FinishSupplied DEF SwitchInv, WorkInv

-------------------------------------------------------------------------------
(* The theorems *)

LEMMA SwitchStep ==
    ASSUME SwitchInv, [Next]_vars
    PROVE  SwitchInv'
<1>1. ASSUME NEW d \in Descriptor, NEW b \in Baseline, ImportBaseline(d, b)
      PROVE  SwitchInv'
  BY <1>1, ImportSwitch
<1>2. ASSUME NEW d \in Descriptor, NEW S \in SUBSET Port, NEW r \in [S -> Patch], Apply(d, r)
      PROVE  SwitchInv'
  BY <1>2, ApplySwitch
<1>3. ASSUME NEW d \in Descriptor, NEW p \in Port, NEW f \in Patch, SetSwitchPort(d, p, f)
      PROVE  SwitchInv'
  BY <1>3, SetPortSwitch
<1>4. ASSUME Compile PROVE SwitchInv'
  BY <1>4, ApplyPortSwitch, EnsureVlanSwitch, SetMembersSwitch, FinishSwitch, RejectSwitch
     DEF Compile
<1>5. ASSUME UNCHANGED vars PROVE SwitchInv'
  <2>1. UNCHANGED <<port, vlan, desired, pc, draftPort, draftVlan, descriptor, request, todo,
                    need, asked, supplied, last, repeat>>
    BY <1>5 DEF vars, stored, draft, call, history
  <2>2. TypeOK' /\ RepeatInv' /\ SuppliedIsComposed'
    BY <2>1 DEF SwitchInv, TypeOK, RepeatInv, Fixed, SuppliedIsComposed
  <2>3. WorkInv'
    <3>1. /\ Dropped' = Dropped /\ Done' = Done /\ Current' = Current
          /\ DraftPorts' <=> DraftPorts
          /\ DraftNumbers' <=> DraftNumbers
          /\ \A p : /\ Accepted(p)' <=> Accepted(p)
                    /\ \A left : Ensured(p, left)' <=> Ensured(p, left)
      BY <2>1 DEF Dropped, Done, Current, DraftPorts, DraftNumbers, Accepted, Ensured
    <3>2. DraftMembers' <=> DraftMembers
      BY <2>1, <3>1 DEF DraftMembers, DraftMember
    <3>3. Ensured(Current, need)' <=> Ensured(Current, need)
      BY <2>1, <3>1 DEF Ensured
    <3> QED
      BY <2>1, <3>1, <3>2, <3>3 DEF SwitchInv, WorkInv
  <2> QED
    BY <2>1, <2>2, <2>3 DEF SwitchInv
<1> QED
  BY <1>1, <1>2, <1>3, <1>4, <1>5 DEF Next

LEMMA SwitchInit == Init => SwitchInv
<1> SUFFICES ASSUME Init PROVE SwitchInv
  OBVIOUS
<1>1. PICK b \in Baseline : port = b.port /\ vlan = b.vlan /\ desired = b.desired
  BY DEF Init
<1>2. /\ b.port \in [Port -> PortRecord] /\ b.desired \in SwitchConfig
      /\ DOMAIN b.vlan \subseteq Nat \ {0} /\ IsFiniteSet(DOMAIN b.vlan)
      /\ b.vlan \in [DOMAIN b.vlan -> VlanRecord]
  BY SwitchAssumption
<1>3. /\ pc = "idle" /\ descriptor \in Descriptor /\ draftPort = port /\ draftVlan = vlan
      /\ request = Nothing /\ todo = {} /\ need = {} /\ asked = {} /\ last = {}
      /\ repeat = FALSE /\ supplied = [p \in Port |-> {}]
  BY DEF Init
<1>4. TypeOK
  BY <1>1, <1>2, <1>3, NothingType DEF TypeOK, VlanRecords
<1>5. SuppliedIsComposed /\ \A p \in Port \ DOMAIN desired : supplied[p] = {}
  BY <1>1, <1>2, <1>3, ConfigType DEF SuppliedIsComposed
<1> QED
  BY <1>1, <1>2, <1>3, <1>4, <1>5 DEF SwitchInv, WorkInv, RepeatInv

LEMMA SwitchInductive == Spec => []SwitchInv
<1>1. SwitchInv /\ [Next]_vars => SwitchInv'
  BY SwitchStep
<1> QED
  BY <1>1, SwitchInit, PTL DEF Spec

\* In every reachable state the stored body says of an owned port what requests
\* have supplied for it, through any sequence of partial requests, and the types
\* are as declared: the projection that MergeSwitch keeps and the body that
\* overlayPort writes do not drift apart.
THEOREM SuppliedFieldsAgree == Spec => [](TypeOK /\ SuppliedIsComposed)
<1>1. SwitchInv => TypeOK /\ SuppliedIsComposed
  BY DEF SwitchInv
<1> QED
  BY <1>1, SwitchInductive, PTL

LEMMA FinishOthers ==
    ASSUME SwitchInv, Finish
    PROVE  /\ \A p \in Port \ asked :
                 /\ port'[p] = port[p]
                 /\ p \in DOMAIN desired' <=> p \in DOMAIN desired
                 /\ p \in DOMAIN desired => desired'[p] = desired[p]
                 /\ \A how \in {"untagged", "tagged", "exclude"} :
                       Memberships(vlan', p, how) = Memberships(vlan, p, how)
           /\ \A p \in DOMAIN desired \ DOMAIN desired' :
                 port'[p] = NoRecord /\ \A n \in DOMAIN vlan' : vlan'[n].member[p] = ""
<1>1. /\ pc = "ports" /\ todo = {}
      /\ port' = draftPort /\ vlan' = draftVlan /\ desired' = Effective
  BY DEF Finish
<1>2. /\ DraftPorts /\ DraftNumbers /\ DraftMembers
      /\ \A p \in Port \ asked : /\ p \in DOMAIN desired => p \in DOMAIN request
                                 /\ p \in DOMAIN request => request[p] = Unchanged
  BY <1>1 DEF SwitchInv, WorkInv
<1>3. Done = DOMAIN request /\ DOMAIN desired' = DOMAIN request
  BY <1>1, AtFinish, EffectiveIs
<1>4. ASSUME NEW p \in Port \ asked
      PROVE  /\ port'[p] = port[p]
             /\ p \in DOMAIN desired' <=> p \in DOMAIN desired
             /\ p \in DOMAIN desired => desired'[p] = desired[p]
             /\ \A how \in BelongWord : Memberships(vlan', p, how) = Memberships(vlan, p, how)
  <2>1. p \notin Dropped
    BY <1>2 DEF Dropped
  <2>2. CASE p \in DOMAIN request
    <3>1. request[p] = Unchanged /\ ~WantsVlan(Unchanged) /\ ~Complete(Unchanged)
      BY <1>2, <2>2 DEF WantsVlan, Complete, Unchanged
    <3>2. port'[p] = port[p]
      <4>1. draftPort[p] = Overlaid(port[p], Unchanged) /\ port[p] \in PortRecord
        BY <1>1, <2>2, <3>1, AtFinish, TypeFacts
      <4> QED
        BY <1>1, <4>1, OverlaidUnchanged
    <3>3. p \in DOMAIN desired
      BY <1>1, <2>2, <3>1, AtFinish DEF Accepted
    <3>4. desired'[p] = desired[p]
      <4>1. Effective[p] = MergePort(desired[p], Unchanged) /\ desired[p] \in PortConfig
        BY <2>2, <3>1, <3>3, EffectiveIs, TypeFacts
      <4> QED
        BY <1>1, <4>1, MergedTwice
    <3>5. \A how \in BelongWord : Memberships(vlan', p, how) = Memberships(vlan, p, how)
      BY <1>1, <2>2, <3>1, AtFinish
    <3> QED
      BY <1>3, <2>2, <3>2, <3>3, <3>4, <3>5
  <2>3. CASE p \notin DOMAIN request
    <3>1. p \notin Done /\ p \notin DOMAIN desired
      BY <1>2, <1>3, <2>3
    <3>2. draftPort[p] = port[p]
      BY <1>1, <1>2, <2>1, <3>1 DEF DraftPorts
    <3>3. Kept(vlan, draftVlan, p)
      BY <1>2, <2>1, <3>1 DEF DraftMembers, DraftMember, DraftNumbers, Kept
    <3>4. \A how \in BelongWord : Memberships(draftVlan, p, how) = Memberships(vlan, p, how)
      BY <3>3, KeptMemberships
    <3> QED
      BY <1>1, <1>3, <2>3, <3>1, <3>2, <3>4
  <2> QED
    BY <2>2, <2>3
<1>5. ASSUME NEW p \in DOMAIN desired \ DOMAIN desired'
      PROVE  port'[p] = NoRecord /\ \A n \in DOMAIN vlan' : vlan'[n].member[p] = ""
  <2>1. p \in Port /\ p \in Dropped
    BY <1>3, TypeFacts DEF Dropped
  <2> QED
    BY <1>1, <1>2, <2>1 DEF DraftPorts, DraftMembers, DraftMember
<1> QED
  BY <1>4, <1>5 DEF BelongWord

\* A compilation that succeeds writes nothing of a port that the operator did not
\* ask to change or release, in any of its loops, and leaves nothing in the body
\* of a port it releases.
THEOREM OtherPortsAreKept == Spec => OthersUntouched
<1> DEFINE Kind == Finish =>
              /\ \A p \in Port \ asked :
                    /\ port'[p] = port[p]
                    /\ p \in DOMAIN desired' <=> p \in DOMAIN desired
                    /\ p \in DOMAIN desired => desired'[p] = desired[p]
                    /\ \A how \in {"untagged", "tagged", "exclude"} :
                          Memberships(vlan', p, how) = Memberships(vlan, p, how)
              /\ \A p \in DOMAIN desired \ DOMAIN desired' :
                    port'[p] = NoRecord /\ \A n \in DOMAIN vlan' : vlan'[n].member[p] = ""
<1>1. SwitchInv /\ [Next]_vars => [Kind]_vars
  BY FinishOthers
<1> QED
  BY <1>1, SwitchInductive, PTL DEF Spec, OthersUntouched

\* Compilations number the VLAN records they add around those that are there, and
\* add none for a VLAN that has one.
THEOREM VlanRecordsAreKept == Spec => VlanRecordsStay
<1> DEFINE Kind == Finish =>
              /\ \A n \in DOMAIN vlan : n \in DOMAIN vlan' /\ vlan'[n].id = vlan[n].id
              /\ \A n \in DOMAIN vlan' \ DOMAIN vlan : \A m \in DOMAIN vlan' \ {n} :
                    vlan'[m].id # vlan'[n].id
<1>1. ASSUME SwitchInv, Finish PROVE Kind
  <2>1. pc = "ports" /\ vlan' = draftVlan
    BY <1>1 DEF Finish
  <2>2. DraftNumbers
    BY <1>1, <2>1 DEF SwitchInv, WorkInv
  <2> QED
    BY <2>1, <2>2 DEF DraftNumbers
<1>2. SwitchInv /\ [Next]_vars => [Kind]_vars
  BY <1>1
<1> QED
  BY <1>2, SwitchInductive, PTL DEF Spec, VlanRecordsStay

LEMMA FinishRepeat ==
    ASSUME SwitchInv, Finish, repeat
    PROVE  UNCHANGED stored
<1>1. /\ pc = "ports" /\ todo = {}
      /\ port' = draftPort /\ vlan' = draftVlan /\ desired' = Effective
  BY DEF Finish
<1>2. Fixed(request) /\ DOMAIN draftVlan = DOMAIN vlan
  BY DEF SwitchInv, RepeatInv
<1>3. DraftPorts /\ DraftNumbers /\ DraftMembers
  BY <1>1 DEF SwitchInv, WorkInv
<1>4. Effective = desired
  BY <1>2 DEF Fixed, Effective
<1>5. Dropped = {} /\ Done = DOMAIN request
  BY <1>1, <1>4, EffectiveIs, AtFinish DEF Dropped
<1>6. draftPort = port
  <2>1. draftPort \in [Port -> PortRecord] /\ port \in [Port -> PortRecord]
    BY DEF SwitchInv, TypeOK
  <2>2. \A p \in Port : draftPort[p] = port[p]
    BY <1>1, <1>2, <1>3, <1>5 DEF DraftPorts, Fixed
  <2> QED
    BY <2>1, <2>2
<1>7. ASSUME NEW n \in DOMAIN vlan
      PROVE  draftVlan[n] = vlan[n]
  <2>1. draftVlan[n] \in VlanRecord /\ vlan[n] \in VlanRecord
    BY <1>2 DEF SwitchInv, TypeOK, VlanRecords
  <2>2. draftVlan[n].id = vlan[n].id
    BY <1>3 DEF DraftNumbers
  <2>3. ASSUME NEW p \in Port
        PROVE  draftVlan[n].member[p] = vlan[n].member[p]
    <3>1. draftVlan[n].member[p] = DraftMember(n, p) /\ Was(vlan, n, p) = vlan[n].member[p]
      BY <1>2, <1>3 DEF DraftMembers, Was
    <3>2. CASE p \in DOMAIN request /\ WantsVlan(request[p])
      <4>1. Retagged(vlan, vlan, p, port[p], request[p])
        BY <1>2, <3>2 DEF Fixed
      <4>2. vlan[n].member[p] = ModeOf(request[p], port[p], TagsOf(request[p], vlan, p),
                                       vlan[n].id, Was(vlan, n, p))
        BY <4>1 DEF Retagged
      <4> QED
        BY <1>5, <2>2, <3>1, <3>2, <4>2 DEF DraftMember
    <3>3. CASE ~(p \in DOMAIN request /\ WantsVlan(request[p]))
      BY <1>5, <3>1, <3>3 DEF DraftMember
    <3> QED
      BY <3>2, <3>3
  <2>4. draftVlan[n].member = vlan[n].member
    <3>1. draftVlan[n].member \in [Port -> MemberWord] /\ vlan[n].member \in [Port -> MemberWord]
      BY <2>1 DEF VlanRecord, MemberWord
    <3> QED
      BY <2>3, <3>1
  <2>5. /\ draftVlan[n] = [id |-> draftVlan[n].id, member |-> draftVlan[n].member]
        /\ vlan[n] = [id |-> vlan[n].id, member |-> vlan[n].member]
    BY <2>1 DEF VlanRecord
  <2> QED
    BY <2>2, <2>4, <2>5
<1>8. draftVlan = vlan
  <2>1. /\ draftVlan = [n \in DOMAIN draftVlan |-> draftVlan[n]]
        /\ vlan = [n \in DOMAIN vlan |-> vlan[n]]
    BY DEF SwitchInv, TypeOK, VlanRecords
  <2> QED
    BY <1>2, <1>7, <2>1
<1> QED
  BY <1>1, <1>4, <1>6, <1>8 DEF stored

\* Applying the request committed last composes the body and the projection that
\* are stored already, so that no new version of them is sent to the switch.
THEOREM ReapplyChangesNothing == Spec => ReapplyIsStable
<1>1. SwitchInv /\ [Next]_vars => [Finish /\ repeat => UNCHANGED stored]_vars
  BY FinishRepeat
<1> QED
  BY <1>1, SwitchInductive, PTL DEF Spec, ReapplyIsStable

-------------------------------------------------------------------------------
(* Untagged VLANs *)

\* Every baseline has an owned port untagged in its native VLAN at most.  A request
\* that names a native VLAN and no tagged ones takes the port out of its native
\* VLAN only, so a port that was imported untagged in a third one stays there.
CleanBaselines ==
    \A b \in Baseline : \A p \in DOMAIN b.desired :
       Memberships(b.vlan, p, "untagged") \subseteq {b.port[p].pvid}

CleanPort(p) ==
    /\ Memberships(vlan, p, "untagged") \subseteq {port[p].pvid}
    /\ supplied[p] \cap {"native", "tagged"} # {} =>
          Memberships(vlan, p, "untagged") = {port[p].pvid}

CleanInv == \A p \in DOMAIN desired : CleanPort(p)

LEMMA FreshClean ==
    ASSUME CleanBaselines, NEW b \in Baseline,
           port' = b.port, vlan' = b.vlan, desired' = b.desired,
           supplied' = [p \in Port |-> {}]
    PROVE  CleanInv'
<1>1. b.desired \in SwitchConfig
  BY SwitchAssumption
<1>2. ASSUME NEW p \in DOMAIN b.desired
      PROVE  CleanPort(p)'
  <2>1. p \in Port
    BY <1>1, ConfigType
  <2>2. Memberships(b.vlan, p, "untagged") \subseteq {b.port[p].pvid}
    BY DEF CleanBaselines
  <2> QED
    BY <2>1, <2>2 DEF CleanPort
<1> QED
  BY <1>2 DEF CleanInv

LEMMA FinishClean ==
    ASSUME SwitchInv, CleanInv, Finish
    PROVE  CleanInv'
<1>1. /\ pc = "ports" /\ todo = {}
      /\ port' = draftPort /\ vlan' = draftVlan /\ desired' = Effective
      /\ \A p \in Port : supplied'[p] = IF p \in DOMAIN request
                                        THEN supplied[p] \cup FieldsOf(request[p]) ELSE {}
  BY DEF Finish
<1>2. ASSUME NEW p \in DOMAIN request
      PROVE  CleanPort(p)'
  <2> DEFINE f == request[p]
             r == port[p]
  <2>1. /\ p \in Port /\ draftPort[p] = Overlaid(r, f)
        /\ p \in DOMAIN desired \/ Complete(f)
    BY <1>1, AtFinish, TypeFacts DEF Accepted
  <2>2. port'[p].pvid = NativeOf(f, r)
    BY <1>1, <2>1 DEF Overlaid
  <2>3. CASE WantsVlan(f)
    <3>1. Retagged(vlan, draftVlan, p, r, f)
      BY <1>1, <2>3, AtFinish
    <3>2. f.tagged # {} \/ Memberships(vlan, p, "untagged") \subseteq {r.pvid}
      BY <2>1 DEF Complete, CleanInv, CleanPort
    <3> HIDE DEF f, r
    <3>3. Memberships(draftVlan, p, "untagged") = {NativeOf(f, r)}
      BY <3>1, <3>2, UntaggedAfter
    <3> QED
      BY <1>1, <2>2, <3>3 DEF CleanPort
  <2>4. CASE ~WantsVlan(f)
    <3>1. f.native = {} /\ f.tagged = {}
      BY <2>4 DEF WantsVlan
    <3>2. p \in DOMAIN desired /\ NativeOf(f, r) = r.pvid
      BY <2>1, <3>1 DEF Complete, NativeOf
    <3>3. Memberships(draftVlan, p, "untagged") = Memberships(vlan, p, "untagged")
      BY <1>1, <2>4, AtFinish DEF BelongWord
    <3>4. supplied'[p] \cap {"native", "tagged"} = supplied[p] \cap {"native", "tagged"}
      <4>1. supplied'[p] = supplied[p] \cup FieldsOf(f)
        BY <1>1, <2>1
      <4>2. "native" \notin FieldsOf(f) /\ "tagged" \notin FieldsOf(f)
        BY <3>1, FieldsIn
      <4> QED
        BY <4>1, <4>2
    <3> QED
      BY <1>1, <2>2, <3>2, <3>3, <3>4 DEF CleanInv, CleanPort
  <2> QED
    BY <2>3, <2>4
<1>3. DOMAIN desired' = DOMAIN request
  BY <1>1, EffectiveIs
<1> QED
  BY <1>2, <1>3 DEF CleanInv

LEMMA CleanStep ==
    ASSUME CleanBaselines, SwitchInv, CleanInv, [Next]_vars
    PROVE  CleanInv'
<1>1. ASSUME NEW d \in Descriptor, NEW b \in Baseline, ImportBaseline(d, b)
      PROVE  CleanInv'
  BY <1>1, FreshClean DEF ImportBaseline
<1>2. CASE Finish
  BY <1>2, FinishClean
<1>3. CASE UNCHANGED <<port, vlan, desired, supplied>>
  BY <1>3 DEF CleanInv, CleanPort
<1>4. ASSUME NEW d, NEW r, Begin(d, r)
      PROVE  UNCHANGED <<port, vlan, desired, supplied>>
  BY <1>4 DEF Begin, stored
<1>5. CASE ApplyPort \/ EnsureVlan \/ SetMembers \/ Reject \/ UNCHANGED vars
  BY <1>3, <1>5
     DEF ApplyPort, EnsureVlan, SetMembers, Reject, vars, stored, history
<1> QED
  BY <1>1, <1>2, <1>3, <1>4, <1>5 DEF Next, Compile, Apply, SetSwitchPort

\* A port whose VLANs were set is untagged in its native VLAN and in no other,
\* whatever native VLANs it has had and whichever requests came between, if the
\* baselines that were imported were so.
THEOREM NativeIsTheUntaggedVlan ==
    ASSUME CleanBaselines
    PROVE  Spec => []NativeIsUntagged
<1>1. Init => CleanInv
  <2> SUFFICES ASSUME Init PROVE CleanInv
    OBVIOUS
  <2>1. PICK b \in Baseline : port = b.port /\ vlan = b.vlan /\ desired = b.desired
    BY DEF Init
  <2>2. b.desired \in SwitchConfig /\ supplied = [p \in Port |-> {}]
    BY SwitchAssumption DEF Init
  <2>3. ASSUME NEW p \in DOMAIN desired
        PROVE  CleanPort(p)
    <3>1. p \in Port /\ Memberships(vlan, p, "untagged") \subseteq {port[p].pvid}
      BY <2>1, <2>2, ConfigType DEF CleanBaselines
    <3> QED
      BY <2>2, <3>1 DEF CleanPort
  <2> QED
    BY <2>3 DEF CleanInv
<1>2. SwitchInv /\ CleanInv /\ [Next]_vars => CleanInv'
  BY CleanStep
<1>3. SwitchInv /\ CleanInv => NativeIsUntagged
  BY DEF SwitchInv, CleanInv, CleanPort, NativeIsUntagged
<1> QED
  BY <1>1, <1>2, <1>3, SwitchInductive, PTL DEF Spec

===============================================================================
