# A verification project for unifi-go

unifi-go is a controller for UniFi access points and switches: devices post
encrypted *informs*, the controller answers each with one command, and an
operator registers, adopts and configures devices through a local control
socket. A second tool, `unifi-go sync`, copies the records of a UniFi Network
Application to files and back.

This directory holds TLA+ models of its stateful parts, the TLC runs that check
them on small instances, and TLAPS proofs, for every value of the constants, of
everything the passing runs show but liveness. All paths below are relative to the
repository root.

## Inventory

| Part | State it keeps | Operations | Hard behaviour |
|------|----------------|------------|----------------|
| Inform controller (`internal/controller`) | devices (persisted), queues, awaited versions, reports, previews (all volatile) | Register, Adopt, Queue, apply, mutateDesired, importBaseline, preview, ServeHTTP, Open | lost and late replies, two keys at once, failed saves, restart |
| State file (`saveLocked`, `replaceState`) | one JSON file of every device, replaced by rename | save, load, migrate | a failed save must not leave memory ahead |
| Devices (external) | inform key, running configuration version | inform, act on a reply | hold either key, drift, answer late |
| Serve process (`cmd/unifi-go/main.go`, `serve.go`, `mode.go`) | control socket path, control listener, inform listener | start, promote, demote, stop | starts, stops and crashes of several processes in separate system calls, handlers that outlive a release |
| Record sync (`cmd/unifi-go/sync.go`, `internal/syncplan`, `internal/syncstore`, `internal/unifiapi`) | the application's records, record files, one plan | pull, push, prune | failures between requests, torn files, concurrent edits |
| Switch compiler (`internal/profile/switches`) | none: stored body and typed projection in, the same out | Compile, import check | partial requests over a long history, record numbers with gaps |
| Access point compiler (`internal/profile/ap`) | the same | Compile, import check | records that refer to each other by name, bindings resolved before composition and used after it, collection of bridges |
| Reports (`internal/informmodel`, `internal/profile/descriptor.go`, `internal/profile/ap/report.go`, `internal/controller/typed.go`) | the last report and the family of each device | describe, decode, list | three tables about one radio, names that are missing or repeated, reports that contradict each other |
| Resource commands (`cmd/unifi-go/resources.go`, `network`) | the device a command settled on | wifi, radio, port | two requests with a restart in between |
| Codec, rendering, other commands, fixture generator | none that outlives a call | | formats |

Interactions: the control socket and the inform listener call into one
`Controller` under one mutex (`Controller.mu`), so an operation is one atomic
step; compilers are pure functions called under that mutex; the state file
connects a process to its successor; `sync` shares nothing with the controller
but the record files that `import-controller` reads to register keys.

What makes each part correct: a device is never stranded with a key the
controller does not know; what was accepted is what a restart reads back; a
resource change is only composed with what the device runs; a preview shows what
Apply will do; a composed body says what its typed projection says, however it
came about; a live control socket is left alone, a process forgets nothing it
acknowledged and is in the mode it reports; a sync plans before it writes, overlays and never duplicates. `PROJECT.json` lists the
hazards behind these at their lines.

## Modules

| Module | Models |
|--------|--------|
| `Controller` | inform controller, state file, devices and network |
| `KeyCustody` | what the controller promises about keys; `Controller` implements it |
| `ControllerProofs` | theorems about records, keys and queues of `Controller`, and that it implements `KeyCustody` |
| `TypedProofs` | theorems about typed configurations of `Controller` |
| `MCController` | instances of `Controller` for TLC |
| `RecordSync`, `MCRecordSync`, `SyncProofs` | `unifi-go sync` with the store and the application |
| `ServeProcess`, `MCServeProcess`, `ServeProofs` | the life of serve processes |
| `SwitchCompiler`, `MCSwitchCompiler`, `SwitchProofs` | what compilations write into the body of a switch |
| `WifiCompiler`, `MCWifiCompiler`, `WifiProofs` | what they write for the WLANs of an access point |
| `RadioCompiler`, `MCRadioCompiler`, `RadioProofs` | what they write for its radios, and which radios a WLAN is on |
| `DeviceReport`, `MCDeviceReport`, `ReportProofs` | what is made of a report, and how a resource command finds its device |

`Controller` leaves the result of a compilation to its constant `Compile`; the
three compiler modules say what that result is, and leave out when it is admitted
and delivered. `Controller` likewise takes the family of a report as given;
`DeviceReport` says how it follows from the tables. Each compiler module keeps
one stored body with its typed projection and lets any sequence of requests work
on it.

### Controller

`mem` is `Controller.devices`, `disk` the devices in the state file; `queue`,
`awaiting`, `report` and `previews` are the maps of the same names. A record
keeps what the control flow depends on: both keys, the last setparam, the
baseline's version and typed readiness, the desired version and the family. A
configuration body is its version: a typed version is a hash of the body
(`profile.CanonicalVersion`), so it identifies it. `Compile` is a constant
operator that stands for the compiler. Raw setparams are taken to carry a
version; a queued noop behaves like any other command without a key.

Every control operation is one action. `Commit` is the pattern they share: store
the record, save all devices, put the previous record back when the save fails.
The inform handler has four outcomes with different effects and is therefore
four actions: refused, descriptor not saved, adoption not saved, answered (with
or without a successful write). Devices are external: they inform with the key
and version they hold, may stop waiting for an answer that is then handled late,
and act on a reply or lose it. `Restart` keeps the file and the devices only.

`foreign` is a history variable: a device whose key the operator chose by hand
(an import of a key it does not have, a raw `authkey`, a hand-made set-adopt) is
no longer this controller's to guarantee.

### KeyCustody

The abstract specification has four variables: the keys a running controller
accepts from each device, the keys it would accept after a restart, the key each
device holds, and the devices in its custody. `Controller` maps `mem` and `disk`
to the first two (`KeysOf`: the current and the next key), the devices' keys to
the third and everything not `foreign` to the fourth; no history variable was
added for it. `KeysInCustody` says that every step of `Controller` is a step of
`KeyCustody` or leaves the keys alone. This is more than `KeyReachable`, which
speaks of single states: a key is only dropped in the step in which the device is
seen with the other one, a device is only handed a key that memory and file both
have, a save never touches what another device accepts, and the file lags behind
memory by completed transitions only.

### RecordSync

One sync reads both sides of each collection in order (`PlanCollection`), may
refuse (`PlanRefused`), and then applies the plan one request or one file at a
time. `Fail` ends it between any two of these; `Tear` ends it inside a file
write. The application is external (`Stored`, `EditController`); `Edited` names
the collections people change while a sync runs, and properties about what a
sync leaves behind exempt a collection that was edited under it, since
`docs/sync.md` states that there is no conflict detection.

### ServeProcess

Each system call of a start is an action: read the state file (`Open`), stat,
dial, remove, bind, listen, set permissions, and for an authoritative one probe and
listen for informs. Starts, ends and crashes of other processes come between any
two of them. A dial that fails for any reason counts as a refusal, as in the code
(`DialFails`). A control request is one action that saves the process's whole
memory. An inform is accepted and ended in two steps, so a `Release` may find it
under way: the listener closes first (`Demote`), then `Release` waits until no
handler is left (`Released`) or for `informShutdownWait` (`ReleaseTimesOut`), after
which the server is forgotten and its handlers are strays. A process that is told
to end is `stopping` while it does the same, and its control socket still answers.
`told` is the mode the operator was last told.

Who else holds the inform address is left open: a probe and a listen call may find
it free or taken. That covers what the code cannot see: a probe that times out
counts as free, a wildcard listener (`--listen=0.0.0.0:8080`, `README.md:328`) is
probed through the loopback interface only (`serve.go:141`), so that a rival on
another specific address is missed, although `docs/sync.md:95` has promotion refuse
when anything answers; and a rival may come between the probe and the listen call.
No property is about the rival, because after the probe nothing in this code can
tell whether there is one.

Four history variables say of each start what happened beside it: `alone` (no other
process has been alive), `elder` (sockets that were live before it and still are),
`beside` and `raced` (another process listened since it read the state file, and it
came to listen itself). The properties name them where the code promises no more.

### SwitchCompiler

The body is `port` (a record per port) and `vlan` (numbered VLAN records with the
membership of each port); `desired` is `DesiredSwitch`. A full `Apply` or a
`SetSwitchPort` starts a compilation; `ApplyPort`, `EnsureVlan` and `SetMembers`
are the iterations of its loops on a copy, `Finish` stores the copy, `Reject`
drops it at any of the places where the code returns an error. `Begin` is not
enabled for a request that the code refuses before the first loop. An omitted
field is the empty set, so that omitted and cleared differ as in
`network.Optional`. A port listed twice by the report, a port without VLAN or PoE
evidence, a VLAN record whose number does not parse and two records of one VLAN
are instances of `Descriptor` and `Baseline`. SSH credentials are left out.

### WifiCompiler

The body has the record namespaces that carry a WLAN: `wireless`, `aaa`,
`netconf`, `bridge` with its ports, `vlan`, `ebtables` filters, and each radio's
own and virtual interfaces. Interface names are values (`Dev`) that keep what the
code parses out of them. Operators named after the functions of `compiler.go` map
a body to the set of its successors, empty where the function returns an error.
`Compose` is one WLAN on one radio of `overlayNetworks`, `RemoveMember` one
binding of `removeWiFiMembers`; `bindings` are resolved at the start and used at
the end, as in the code. `AddNetwork`, `SetNetwork` (with renames) and
`RemoveNetwork` are the resource changes, with the requests that
`wifiMutationRequest` makes of them.

A WLAN's enabled flag, BSS transition and security are one `policy`; radios are
selected by identifier; filters are the sets of interfaces they name. Country
code, radio settings and their removal, SSH, radios that are configured but not
reported and legacy radio identifiers are left out. Stored bindings are those of
the stored body, so `verifyBindings` always succeeds and has no state of its own.
Where the code takes the first of its records in the order of their names, which is
not that of their numbers from ten on, the model takes any (`FirstPrefix`).
`BaselineAssumption` requires imported bodies to be whole (`Whole`: the interfaces,
bridges and VLAN interfaces of a body are those of its WLANs, each there once), as
the bodies the firmware writes are. For a bridge that lists an interface twice
`removeUnusedBridge` (`compiler.go:408`) deletes a record with an empty prefix, and
with it everything; such bodies are outside the model, and no property covers them.

### RadioCompiler

The body is the radio records and, for each WLAN, the radios it has records on;
`desired` is `DesiredAP`, `bind` the stored bindings. A compilation is one action,
because `Compile` is one call under the mutex and nothing is stored when it fails:
`Compile` is the set of its results, empty where the code returns an error.
`ComposeRadio` is `overlayRadio` on one record, `PlaceNetworks` and `Removable`
say what `overlayNetworks`, `removeWiFiMembers` and `removeRadios` do to where
WLANs are. The report may differ from one compilation to the next, so that radios
appear and vanish, change their evidence or lose their identity between requests.
Imported projections are taken to agree with their bodies, as in `WifiCompiler`;
country code and the records of a WLAN other than their place are left out, and so
is its enabled flag: an enabled WLAN with an empty selector is refused by
`Validate`, any other one when its radios are resolved, which the model has.

`NetworksKeepRecords` states an exception that the code has: a WLAN selected by
band belongs to all reported radios of the band as long as the projection lists no
radios. The first request that lists some takes the others from it, and its
records there stay in the body without an owner.

### DeviceReport

A report is its tables; each entry carries the radio it is really about, which
only the properties look at. The operators are the decoders: `StableRadioID`,
`ReportedFamily`, `PortInterface` build the descriptor, `DecodeRadio`,
`ClientRadioID` and `UplinkPort` the snapshot. The state around them is the
family of each device in memory and in the file, the last report, and the device
a resource command has settled on: `ResourceDevice` is the list request,
`Mutate` the change that follows, and a restart or a report may come in between.

Reports are `Uniform`: they name all radios or none and all ports or none. They
are `Truthful`: a radio is listed once, and so are its statistics; every entry is
about a listed radio and names it, if at all, by the name (`NameOf`) or the code
(`CodeOf`) that the firmware has for it. The properties say where the code promises
less. Radios that share a code absorb the observations of virtual access points
that give the code, even beside another radio's name (`matchingVAPs` has no
uniqueness check, unlike `clientRadioID`): the snapshot may show the channel or
the stations of one 5 GHz radio on the other. `ObservationsAreOwn` is therefore
exact for identified radios only (a name, and a code of their own); of the others it
says that what the tables report of them stands, and that a channel which is not
their own is one of a radio with their code. A mixed report, with one port named and
down and a nameless one up, could give two ports the uplink's interface. A report
with an Ethernet table has other ports in the descriptor than in the snapshot, and
`UplinkPortAgrees` is not about it. One report that does not
decode refuses the list of all devices, and with it every resource command that
names no device.

## Runs

Passing:

* `keys`: keys and raw configuration with every fault (failed save, failed
  write, lost reply, late inform, crash): `KeyReachable`, `RestartRecovers`,
  `NewestQueuedIsPersisted`, and the refinement `KeysInCustody`. Three keys,
  because a stranded device needs a key that is neither current nor next; a queue
  of two, because order matters from two on. The two assigned keys are symmetric;
  the default key is not.
* `typed`: typed Apply, previews, resource changes, imports and commands from a
  migrated legacy record, two families and ambiguous reports:
  `RecordsWellFormed`, `NoBlindMutation`, `OnePendingConfiguration`,
  `PreviewHonoured`. Two requests: a full one and one whose
  result depends on the baseline. Raw submissions are left out of this instance
  because they defeat `NoBlindMutation`: `Queue` remembers nothing of a raw
  setparam once it left the queue, so an import of the version the device last
  reported admits a resource change while the raw configuration is on its way,
  although `README.md:124` says that a resource change stops while another
  configuration is pending.
* `live`: `AdoptionCompletes` and `AwaitedIsSent` under fairness, with lost
  replies, failed writes and saves, drift and restarts.
* `sync`: `PushOverlays`, `SyncConverges`, `SyncKeepsIdentity`,
  `PlansBeforeWriting` on two collections, one of which others edit during the
  sync, with two identifiers (enough for an ambiguous name) and one managed and
  one unmanaged field.
* `serve`: `AcknowledgedSurvives`, `LoneStartSucceeds`, `LiveSocketSurvives`,
  `ModeIsAsTold` for two processes of two starts each that interleave freely, with
  two operations. Two processes and two starts are enough for one to crash and leave
  its socket, and for two later starts to race for it; two operations, for one to be
  lost and the other kept. A run ends when every process has ended and used up its
  starts, so deadlock is not checked; the same holds for `serve_stale`.
  Each property names the case in which the code promises less:
  `AcknowledgedSurvives` a process that listens although another one did since it
  read the file (`serve_stale`); `LiveSocketSurvives` sockets that were bound after
  the start began. Those are not safe: when two starts find one stale socket, the
  second `os.Remove` (`main.go:148`) may take the socket that the first start bound
  after the second one's dial was refused. The same happens to a live socket
  whose dial fails for another reason than a refusal, as when the start is
  cancelled or the connection times out. In both cases the comment at
  `main.go:126-127`, that a socket that still accepts a connection survives, says
  more than the code does. `ModeIsAsTold` excepts handlers that outlived a release
  that gave up: the operator is told of the error, but a repeated demotion then
  reports shadow mode beside them.
* `switch`: two ports, three VLANs, complete and partial policies, four bodies
  (agreeing with their projection, disagreeing, an unreadable VLAN, a doubled
  one), any number of compilations: `SuppliedIsComposed`, `NativeIsUntagged`,
  `OthersUntouched` (a released port leaves no membership), `VlanRecordsStay`,
  `ReapplyIsStable`. Two ports are enough for one to disturb the other, three
  VLANs for a native, a tagged and an uninvolved one.
* `wifi`: three names, two radios, two VLANs, one uplink, up to three
  compilations after an import: `ComposedResolves`, `SuppliedIsComposed`,
  `BodyIsWhole` (interfaces and bridges match the records that use them),
  `OthersUntouched`, `ReapplyIsStable`. Two names share bridges and radios and the third is a copy or a rename; three
  compilations make, move and collect a bridge.
* `radio`: three radios of which two share a band, two WLANs, reports with all,
  fewer and unidentified radios, up to four compilations after an import:
  `ProjectionAgrees`, `WLANsHaveRadios`, `ReapplyIsStable`, `OthersUntouched`,
  `ChangesAreEvident`, `NetworksKeepRecords`.
* `report`: an access point with three radios, two of them with one code, that
  sends some sixty reports (orders, names or codes or both, observations in
  different tables, ports), and a device whose reports leave the family open or
  contradict it: `ObservationsAreOwn` (of radios and of clients), `UplinkPortAgrees`,
  `ChangedAsListed`. Every pair of consecutive reports occurs; three radios are
  enough for a shared code beside a unique one.

In the runs other than `keys`, `typed` and `live`, types are a conjunct of one of
the invariants named. In `switch` and `wifi`, `supplied` is a history variable: a field that came with an import is
the operator's word about the body, which the code does not verify; only a field
that a request supplied is held against the body.

Violations, each a disagreement between the code and a sentence of the
repository (quoted in `PROJECT.json` under `findings`):

* `drift`: a reply that is lost after its write leaves its version awaited, and
  every later Apply is refused as pending until a raw submission or a restart:
  drift cannot be reconciled by full Apply.
* `sync_removal`: a pull removes stored records without `--prune`.
* `serve_stale`: `controller.Open` reads the state file before the control socket is
  owned. A start that reads it while another process is ending, and listens when that
  one is gone, saves what it read too early: an operation that was acknowledged in
  between is no longer in the file.

Fairness in `live`: every reply carries an interval after which the device
informs again, so informs are weakly fair; the endpoint answers each request, and
answering and receiving are strongly fair because a lost reply, a failed save or
a restart may disable them again and again but not for ever. Nothing is assumed
of operators or faults.

## Proofs

Each theorem names the definition that a run checks, so the run shows it on a
small instance and the theorem for every value of the constants that satisfies the
module's assumption. TLAPS checks every step; no fact is assumed but the named
assumptions on constants, which TLC evaluates in the runs.

### Controller

`ControllerProofs`, for all devices, keys, versions, families and requests, every
compiler and every queue bound: `TypeCorrect`, `RecordsStayWellFormed`,
`CrashRecovers`, `KeysStayReachable`, `NewestIsPersisted`.

* The first three rest on `RecordInv`: types, well-formed records on both sides,
  and `Recovers`, which relates a device's record in memory to the one on disk.
  `RestartRecovers` alone is not inductive: a failed adoption save leaves memory
  with the new key and the file with both, and a later save has to be shown to
  close the gap.
* `KeyReachable` needs `KeyInv`, which also bounds the keys of queued commands, of
  replies on their way and of informs under way: a device may adopt any key that is
  somewhere in flight.
* `NewestQueuedIsPersisted` needs `QueueInv`, which ties every queued setparam to
  the last one submitted.

The assumptions are `ConstantsAssumption` and `StoredAssumption`: distinct empty
values, a compiler that returns versions, and stored records the program can have
written.

`CustodyIsKept` is `KeysInCustody`, the refinement of `KeyCustody`, shown one action
at a time from `RecordInv` and `KeyInv`. Each action is first described by what it
does to the keys of each device (left alone, all of memory saved, a device enrolled,
a transition completed, a key taken by a device, a restart), and that is a step of
`KeyCustody` or a stutter.

`TypedProofs` shows `OnePendingConfiguration`, `NoBlindMutation` and
`PreviewHonoured`. The first two follow from `PathInv`, in which one
configuration is in one of four stages: nothing pending, queued, sent, or run by a
device that has not reported it. In each stage the queue, the awaited version, the
last report, the device's version and the reply on its way determine each other. A
device that has not reported since a restart has nothing queued.
They assume `TypedPath`: no adoption or raw submission among the operations, no
late inform or drift among the faults; lost replies, failed saves, failed writes
and crashes are included. Without it the properties fail for reasons the code
accepts: adoption and raw submission queue behind what is pending, a late inform
puts an old report in place of a newer one, and drift is known only when it is
reported. The run `typed` has the same restriction. `PreviewHonoured` needs none.

### ServeProcess

No theorem limits how processes interleave. `ModeIsKept` follows from `InformInv`:
handlers of the bound server belong to a listener the operator was told of, and
stray ones are remembered. `AcknowledgedIsKept`, `LoneStartIsServed` and
`LiveSocketIsKept` follow from `SocketInv`. Its part `Memory` says that, unless a
process raced, every one that listens holds what was acknowledged, and so does every
one that is starting and beside which nobody has listened since it read the file;
`Alone` says what a lone start finds at the path, whatever earlier processes left
there; `Socket` ties the path, the sockets that accept and the elders of each start
to each other. The exceptions in the properties are needed: without that of
`AcknowledgedSurvives` the run `serve_stale` is a counterexample.

### RecordSync

`NothingIsWrittenEarly`, `IdentityIsKept`, `PushIsAnOverlay` and `SyncIsComplete`
follow from `SyncInv`, which accompanies a change from its comparison to its request:
`PlanInv` (what is planned has been read), `SoundInv` (what was read and not edited is
indexable still), `PushInv` (the controller holds what was read while a change is
pending, and what the comparison wanted afterwards) and `PullInv` (the same for the
files written so far). At the end no change is pending, so a second comparison is
empty. Edits by others, failures between requests and torn files are included.

### SwitchCompiler

`SuppliedFieldsAgree`, `OtherPortsAreKept`, `VlanRecordsAreKept` and
`ReapplyChangesNothing` follow from `SwitchInv`. Its core, `WorkInv`, says that
the copy a compilation works on is a function of the stored body, the request and
the ports still to do, whatever the loops have done so far, so what is committed can
be read off that function; `RepeatInv` says which request the stored body is a fixed
point of. The VLAN records of a body are finite in number, so a next free number exists.

`NativeIsTheUntaggedVlan` adds `CleanInv` and assumes `CleanBaselines`: an owned port
is imported untagged in its native VLAN at most. A request that names a native VLAN
and no tagged ones takes the port out of its native VLAN only, so a port that was
imported untagged in a third one stays there. The bodies of the run `switch` are clean.

### RadioCompiler

All six properties are theorems. `ProjectionNeverDisagrees` and `BodyStaysWhole` follow
from `RadioInv`: records and projection keep their types and agree, and WLANs have
records on listed radios only. A request is merged into the projection by one piece of
code (`MergeRadio`) and written into the body by another (`ComposeRadio`); the predicate
`Follows` says what merged settings have to do with those asked for and with the record
they are written into, and both halves are shown against it. `ReapplyIsAlwaysStable` rests
on merging being idempotent (`MergeAgain`) and on a second composition finding every
field in place (`ComposeAgain`). `OtherRadiosUntouched`, `EveryChangeIsEvident` and
`NetworksAlwaysKeepRecords` are read off one compilation of a state with `RadioInv`.
`RadioAssumption` requires that an imported projection agrees with its body: the import
composes an empty request (`validateBaselineProjection`) and does not compare them, so
this is the operator's word.

### WifiCompiler

All five properties are theorems. They are shown in two layers.

The first is about operators. A body is whole (`WholeBody`) when its records match
(`Fits`) and each WLAN is a member of the bridge its record names, once. Each operator
of the model gets a lemma that says what it does to a whole body: `AssignBridgeIs`,
`OverlayWiFiIs`, `NewWiFiIs`, `CopyWiFiIs`, `RemoveWiFiIs`. Between the writes of one
operator a body is not whole (a new WLAN has no bridge yet, a bridge that lost its last
WLAN is still there), so the lemmas go through `Nearly`, which allows one WLAN to be
without a bridge, and through `Fits` for a set of bridges that may be one too large.
What is written record by record is reasoned about over the set of its positions, and
a refuted position has a least one; the number of a new record exists because the
records are finitely many.

The second is about the compilation as it runs. `ComposingInv` is the invariant the
others need: both bodies are whole, and the record numbers that were resolved at the
start still lead to the records of their WLANs in the draft (`Followed`), although
`overlayNetworks` has since added and moved records and `removeWiFiMembers` has
removed some. Without it a stale binding could edit another WLAN. `BodyStaysWhole`
follows. On top of it:

* `OthersStayUntouched` needs `UntouchedInv`: a request that nobody made of a WLAN
  says nothing of it, so overlaying it changes nothing.
* `ComposedRequestsResolve` needs `OwnedInv`: a pair of WLAN and radio has one record,
  or is still to be composed and has none; every other record is about to be removed.
  The theorem assumes `Owning`: an imported projection leaves out no WLAN of its body.
  The import does not check this. A WLAN that is in the body but in no projection makes
  a request for one of that name on that radio fail at the end, after all of it was
  composed. The bodies of the run `wifi` are owned.
* `SuppliedStaysComposed` needs `SuppliedInv`, which says, for each WLAN, what its
  record shows before it is composed (what was supplied for it earlier, or for the WLAN
  it is a copy of) and afterwards (that and the request).
* `ReapplyStaysStable` needs `RepeatInv`: the request that was committed last is met by
  the projection, and merging it again gives the projection again; by `SuppliedInv`
  every record already says what would be written.

### DeviceReport

`ChangesAreAsListed` is inductive with the types of a command's choice. `UplinkIsOnePort`
holds for each report separately and needs `Uniform`, as the mixed report above shows.
`ObservationsStayOwn` needs `Truthful`: the virtual access points that match an
identified radio are about that radio, so whatever is copied or summed over them is
its own, and those that match any other radio have at least its code; statistics are
found by a name that one radio has. A
client names its radio or a code that one radio only has, and no radio's name is one
of the four that the decoder gives by position.

### Only model-checked

* `AdoptionCompletes` and `AwaitedIsSent`: liveness under fairness, out of reach of
  TLAPS because of ENABLED.

What `Controller` proves under an assumption about the environment (`TypedPath`) is
checked under the same assumption in `typed`; this file says what fails without it.

## Plan

Done, in this order: `Controller` with its proofs, `RecordSync`, `ServeProcess`,
`SwitchCompiler`, `WifiCompiler`, `RadioCompiler`, `KeyCustody` as a refinement,
handlers that outlive `Release`, `DeviceReport`, and theorems about each of them,
`WifiCompiler` last. Open:

1. `PathInv` with adoptions: what remains true of pending configurations when an
   adoption queues behind one (an exact account of where two can be pending);
2. `ComposedResolves` for bodies with WLANs that no projection owns: which requests are
   refused at the end for them;
3. reports that are not `Truthful`: which observations survive a firmware that lists a
   radio twice.

## Not modelled

Country code, SSH credentials and legacy radio identifiers in the compilers, and
the read-only view of WLANs (`wifiNetworks`). The byte formats (inform codec,
JSON, canonical encoding, redaction and rendering), command-line parsing, and the
fixture generator keep no state between calls. The double read in `Mode`
(`mode.go:44-47`) may report an authoritative controller without an address, an
answer that no later step uses. A promotion that arrives between the release and the
end of a stopping process is cut off with it. A record of the application without a
name stops a sync like an ambiguous one and is left out. A sync overlays a snapshot and overwrites an edit made since
(`plan.go:155`); `docs/sync.md` says that there is no conflict detection. A
setparam queued before `Register` re-keys the device when it is delivered later;
the device counts as foreign. The loop of `import-controller` over stored records
is a sequence of `Register` steps.
