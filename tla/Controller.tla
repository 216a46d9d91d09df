------------------------------ MODULE Controller ------------------------------
(***************************************************************************)
(* The inform controller of unifi-go (internal/controller) and the devices *)
(* it manages.                                                             *)
(*                                                                         *)
(* Every control operation and every inform handler holds Controller.mu    *)
(* from its first read to its last write, so each one is a single action.  *)
(* What interleaves is: operator requests, informs of the devices, replies *)
(* on their way back, a state file that may refuse to be written, and the  *)
(* end and restart of the process.                                         *)
(*                                                                         *)
(* Configuration bodies are abstracted to their version.  A typed version  *)
(* is a hash of the body (profile.CanonicalVersion), so for typed          *)
(* configurations the version identifies the body.  Compile is the profile *)
(* compiler: what the baseline becomes under a request.                    *)
(***************************************************************************)
EXTENDS Naturals, Sequences, FiniteSets

CONSTANTS
    Device,          \* MAC addresses
    Key,             \* inform keys
    DefaultKey,      \* inform.DefaultKey, the key of a factory-reset device
    NoKey,           \* the empty key
    Version,         \* configuration versions
    NoVersion,       \* the empty version
    AdoptVersion,    \* "unifi-go-1", the version of every adoption template
    Bindable,        \* versions whose body identifies each typed resource once
    Family,          \* device families: access point, switch
    NoFamily,        \* the empty family
    Evidence,        \* families the devices' reports give evidence of
    Request,         \* typed requests the compiler accepts
    Compile(_, _),   \* version of the baseline overlaid with a request
    Token,           \* preview tokens
    Stored,          \* device records a state file may hold when first opened
    Operator,        \* control operations the operator uses
    Faults,          \* faults that happen: see FaultName
    MaxQueue         \* longest command queue explored

OperatorName == {"register", "adopt", "raw", "command", "apply", "mutate",
                 "import", "preview"}
FaultName    == {"save", "write", "lose", "late", "crash", "drift"}

Version0 == Version \cup {NoVersion}
Key0     == Key \cup {NoKey}
Family0  == Family \cup {NoFamily}

(***************************************************************************)
(* A reply (protocol.go): a setparam carries the configuration version and *)
(* the authkey of its management configuration, NoKey when the body sets   *)
(* none; a set-adopt carries a key; any other command carries neither.     *)
(***************************************************************************)
Reply == [kind : {"none", "setparam", "set-adopt", "cmd"},
          key  : Key0, ver : Version0]

NoReply        == [kind |-> "none",      key |-> NoKey, ver |-> NoVersion]
Setparam(k, v) == [kind |-> "setparam",  key |-> k,     ver |-> v]
SetAdopt(k)    == [kind |-> "set-adopt", key |-> k,     ver |-> NoVersion]
Command        == [kind |-> "cmd",       key |-> NoKey, ver |-> NoVersion]

(***************************************************************************)
(* A persisted device.  key = NoKey: the device is not registered.  typed  *)
(* is Baseline.TypedReady, base the version of Baseline.Config; DesiredAP  *)
(* or DesiredSwitch is present exactly when typed holds.  Family and       *)
(* Descriptor are set together.                                            *)
(***************************************************************************)
DeviceRecord == [key : Key0, next : Key0, last : Reply, base : Version0,
                 typed : BOOLEAN, desired : Version0, family : Family0]

NewDevice(k, n) == [key |-> k, next |-> n, last |-> NoReply,
                    base |-> NoVersion, typed |-> FALSE,
                    desired |-> NoVersion, family |-> NoFamily]

Absent == NewDevice(NoKey, NoKey)

Report   == [got : BOOLEAN, ver : Version0, family : Family0]
NoReport == [got |-> FALSE, ver |-> NoVersion, family |-> NoFamily]

Inform   == [sent : BOOLEAN, key : Key0, ver : Version0, family : Family0]
NoInform == [sent |-> FALSE, key |-> NoKey, ver |-> NoVersion,
             family |-> NoFamily]

Preview  == [token : Token, mac : Device, dev : DeviceRecord,
             family : Family, req : Request, ver : Version,
             expired : BOOLEAN]

ASSUME ConstantsAssumption ==
    /\ DefaultKey \in Key
    /\ NoKey \notin Key
    /\ NoVersion \notin Version
    /\ AdoptVersion \in Version
    /\ Bindable \subseteq Version
    /\ NoFamily \notin Family
    /\ Evidence \subseteq Family0
    /\ \A v \in Version, r \in Request : Compile(v, r) \in Version
    /\ Operator \subseteq OperatorName
    /\ Faults \subseteq FaultName
    /\ MaxQueue \in Nat \ {0}

\* A record the program can have written: an unregistered device has nothing,
\* desired state exists only after the key transition, a typed baseline is the
\* desired version's, and what was last submitted is a versioned setparam.
WellFormed(r) ==
    /\ r.key = NoKey => r = Absent
    /\ r.desired # NoVersion => r.next = NoKey
    /\ r.typed => r.base \in Version /\ r.desired = r.base
    /\ r.last # NoReply => r.last.kind = "setparam" /\ r.last.ver \in Version

ASSUME StoredAssumption ==
    Stored \subseteq DeviceRecord /\ \A r \in Stored : WellFormed(r)

VARIABLES
    mem,        \* Controller.devices
    disk,       \* the devices in the state file
    queue,      \* Controller.queues
    awaiting,   \* Controller.awaiting
    report,     \* Controller.reports
    previews,   \* Controller.previews
    devKey,     \* the inform key a device holds
    devVer,     \* the configuration version a device runs
    inform,     \* the inform a device waits on
    late,       \* an inform whose connection the device gave up
    reply,      \* the reply on its way to a device
    foreign     \* history: devices whose key someone else chose

ctlVars == <<mem, disk, queue, awaiting, report, previews>>
devVars == <<devKey, devVer, inform, late, reply>>
vars    == <<ctlVars, devVars, foreign>>

\* Every variable has its type: records in memory and on disk, queues of
\* replies, awaited versions, replies and informs under way.
TypeOK ==
    /\ mem  \in [Device -> DeviceRecord]
    /\ disk \in [Device -> DeviceRecord]
    /\ queue \in [Device -> Seq(Reply)]
    /\ awaiting \in [Device -> Version0]
    /\ report \in [Device -> Report]
    /\ previews \subseteq Preview
    /\ devKey \in [Device -> Key]
    /\ devVer \in [Device -> Version0]
    /\ inform \in [Device -> Inform]
    /\ late \in [Device -> Inform]
    /\ reply \in [Device -> Reply]
    /\ foreign \subseteq Device

-------------------------------------------------------------------------------
(* Loading and saving the state file *)

\* baselineFromLegacy: a record written before baselines existed gets one from
\* its last setparam, typed when the desired version is that setparam's.
Migrate(r) ==
    IF r.base = NoVersion /\ r.last.kind = "setparam"
    THEN [r EXCEPT !.base  = r.last.ver,
                   !.typed = /\ r.desired \in Bindable
                             /\ r.desired = r.last.ver]
    ELSE r

\* Open: the devices a starting controller holds.
Open(stored) == [d \in Device |-> Migrate(stored[d])]

Known(d) == mem[d].key # NoKey

SaveOutcome == IF "save" \in Faults THEN BOOLEAN ELSE {TRUE}

\* Mutant: no rollback when the save fails.
CommitKeepsUnsaved(d, new, saved) ==
    /\ mem'  = [mem EXCEPT ![d] = new]
    /\ disk' = IF saved THEN mem' ELSE disk

\* Every control operation stores its new record, saves all devices, and puts
\* the previous record back when the save fails.
Commit(d, new, saved) ==
    /\ mem'  = IF saved THEN [mem EXCEPT ![d] = new] ELSE mem
    /\ disk' = IF saved THEN mem' ELSE disk

\* History: the operator chose the key of d, so this controller alone can no
\* longer answer for it.
Claim(d, chosen) == foreign' = IF chosen THEN foreign \cup {d} ELSE foreign

-------------------------------------------------------------------------------
(* Control operations *)

\* Register: installs a key and leaves everything else of a known device.
Register(d, k, saved) ==
    /\ Commit(d, IF Known(d) THEN [mem[d] EXCEPT !.key = k]
                             ELSE NewDevice(k, NoKey), saved)
    /\ Claim(d, saved /\ k # (IF Known(d) THEN mem[d].key ELSE devKey[d]))
    /\ UNCHANGED <<queue, awaiting, report, previews, devVars>>

\* The key an adopted device is to end up with.
TargetKey(r) == IF r.next # NoKey THEN r.next ELSE r.key

\* Mutant: the baseline takes the authkey for its version.
RawSubmittedMixed(r, command) ==
    [r EXCEPT !.last = command, !.base = command.key, !.typed = FALSE,
              !.desired = NoVersion]

\* A record that a setparam of unknown content was submitted to: typed
\* ownership ends.
RawSubmitted(r, command) ==
    [r EXCEPT !.last = command, !.base = command.ver, !.typed = FALSE,
              !.desired = NoVersion]

\* Mutant: adoption starts over, even for a device that has a key.
AdoptAfresh(d, n, saved) ==
    LET dev      == NewDevice(DefaultKey, n)
        template == Setparam(TargetKey(dev), AdoptVersion)
    IN  /\ Commit(d, RawSubmitted(dev, template), saved)
        /\ queue' = IF saved THEN [queue EXCEPT ![d] = <<template>>] ELSE queue
        /\ Claim(d, saved /\ ~Known(d) /\ devKey[d] # DefaultKey)
        /\ UNCHANGED <<awaiting, report, previews, devVars>>

\* Mutant: a device that is adopted again is assigned another key.
AdoptAgain(d, n, saved) ==
    LET dev      == IF Known(d) THEN [mem[d] EXCEPT !.next = n]
                                ELSE NewDevice(DefaultKey, n)
        template == Setparam(TargetKey(dev), AdoptVersion)
    IN  /\ Commit(d, RawSubmitted(dev, template), saved)
        /\ queue' = IF saved THEN [queue EXCEPT ![d] = <<template>>] ELSE queue
        /\ Claim(d, saved /\ ~Known(d) /\ devKey[d] # DefaultKey)
        /\ UNCHANGED <<awaiting, report, previews, devVars>>

\* Adopt: a new device gets the default key and a random next key n; a known
\* one keeps its keys.  The template replaces whatever was queued.
Adopt(d, n, saved) ==
    LET dev      == IF Known(d) THEN mem[d] ELSE NewDevice(DefaultKey, n)
        template == Setparam(TargetKey(dev), AdoptVersion)
    IN  /\ Commit(d, RawSubmitted(dev, template), saved)
        /\ queue' = IF saved THEN [queue EXCEPT ![d] = <<template>>] ELSE queue
        /\ Claim(d, saved /\ ~Known(d) /\ devKey[d] # DefaultKey)
        /\ UNCHANGED <<awaiting, report, previews, devVars>>

\* Mutant: the command is queued before it is known to be saved.
QueueSetparamEarly(d, command, saved) ==
    /\ Known(d)
    /\ Len(queue[d]) < MaxQueue
    /\ Commit(d, RawSubmitted(mem[d], command), saved)
    /\ awaiting' = IF saved THEN [awaiting EXCEPT ![d] = NoVersion] ELSE awaiting
    /\ queue' = [queue EXCEPT ![d] = Append(@, command)]
    /\ Claim(d, command.key \notin {NoKey, TargetKey(mem[d])})
    /\ UNCHANGED <<report, previews, devVars>>

\* Queue with a setparam (apply-config, send): the command becomes the raw
\* baseline and nothing typed is awaited any more.
QueueSetparam(d, command, saved) ==
    /\ Known(d)
    /\ Len(queue[d]) < MaxQueue
    /\ Commit(d, RawSubmitted(mem[d], command), saved)
    /\ awaiting' = IF saved THEN [awaiting EXCEPT ![d] = NoVersion] ELSE awaiting
    /\ queue' = IF saved THEN [queue EXCEPT ![d] = Append(@, command)] ELSE queue
    /\ Claim(d, saved /\ command.key \notin {NoKey, TargetKey(mem[d])})
    /\ UNCHANGED <<report, previews, devVars>>

\* Queue with any other command, a set-adopt with an operator's key included:
\* it is appended and nothing is persisted.
QueueCommand(d, command) ==
    /\ Known(d)
    /\ Len(queue[d]) < MaxQueue
    /\ queue' = [queue EXCEPT ![d] = Append(@, command)]
    /\ Claim(d, command.key \notin {NoKey, TargetKey(mem[d])})
    /\ UNCHANGED <<mem, disk, awaiting, report, previews, devVars>>

\* profile.DescribeWithFamily: the family a report describes, the hint only
\* where the report has no evidence; NoFamily is the error.
Describe(evidence, hint) ==
    IF evidence = NoFamily THEN hint
    ELSE IF hint \in {NoFamily, evidence} THEN evidence ELSE NoFamily

\* Mutant: a consumed command is no longer pending.
PendingQueued(d) == queue[d] # <<>>

Pending(d) == awaiting[d] # NoVersion \/ queue[d] # <<>>

\* compileWithSecretsLocked: what must hold before a request is compiled.
Compilable(d, f) ==
    /\ Known(d)
    /\ mem[d].next = NoKey
    /\ mem[d].family \in {NoFamily, f}
    /\ report[d].got
    /\ Describe(report[d].family, f) # NoFamily
    /\ mem[d].typed
    /\ ~Pending(d)

\* Mutant: the compiled configuration does not become the baseline.
CommitCompiledOnly(d, f, v, saved) ==
    LET command == Setparam(mem[d].key, v)
        new     == [mem[d] EXCEPT !.family = f, !.desired = v, !.last = command]
        send    == saved /\ report[d].ver # v
    IN  /\ Commit(d, new, saved)
        /\ queue'    = IF send THEN [queue EXCEPT ![d] = Append(@, command)]
                               ELSE queue
        /\ awaiting' = IF send THEN [awaiting EXCEPT ![d] = v] ELSE awaiting
        /\ UNCHANGED <<report, devVars, foreign>>

\* commitCompiledLocked: persist the compiled configuration, then queue and
\* await it unless the device already reports its version.
CommitCompiled(d, f, v, saved) ==
    LET command == Setparam(mem[d].key, v)
        new     == [mem[d] EXCEPT !.family = f, !.desired = v,
                       !.last = command, !.base = v, !.typed = TRUE]
        send    == saved /\ report[d].ver # v
    IN  /\ Commit(d, new, saved)
        /\ queue'    = IF send THEN [queue EXCEPT ![d] = Append(@, command)]
                               ELSE queue
        /\ awaiting' = IF send THEN [awaiting EXCEPT ![d] = v] ELSE awaiting
        /\ UNCHANGED <<report, devVars, foreign>>

\* apply without a token: full typed Apply.
Apply(d, f, r, saved) ==
    /\ Compilable(d, f)
    /\ CommitCompiled(d, f, Compile(mem[d].base, r), saved)
    /\ UNCHANGED previews

\* Mutant: the reported version is not compared with the desired one.
MutableUnreported(d, f) ==
    /\ Known(d)
    /\ mem[d].family = f
    /\ report[d].got
    /\ mem[d].typed
    /\ mem[d].desired # NoVersion
    /\ ~Pending(d)
    /\ Compilable(d, f)

\* mutateDesired admits a resource change of a device in family f.
Mutable(d, f) ==
    /\ Known(d)
    /\ mem[d].family = f
    /\ report[d].got
    /\ mem[d].typed
    /\ mem[d].desired # NoVersion
    /\ ~Pending(d)
    /\ report[d].ver = mem[d].desired
    /\ Compilable(d, f)

\* wifi-add, wifi-set, wifi-remove, radio-set, port-set.
Mutate(d, f, r, saved) ==
    /\ Mutable(d, f)
    /\ CommitCompiled(d, f, Compile(mem[d].base, r), saved)
    /\ UNCHANGED previews

\* importBaseline: replaces the baseline and desired version, sends nothing and
\* leaves the last setparam, the queue and the awaited version alone.
ImportBaseline(d, v, typed, saved) ==
    /\ Known(d)
    /\ mem[d].next = NoKey
    /\ mem[d].family # NoFamily
    /\ Commit(d, [mem[d] EXCEPT !.base = v, !.typed = typed, !.desired = v],
              saved)
    /\ UNCHANGED <<queue, awaiting, report, previews, devVars, foreign>>

\* compilePreviewLocked: everything a preview's fingerprint covers.
Fingerprint(d, f, r) ==
    [mac |-> d, dev |-> mem[d], family |-> f, req |-> r,
     ver |-> Compile(mem[d].base, r)]

\* Mutant: the fingerprint leaves out the device record.
CoversRequest(p, print) ==
    p.mac = print.mac /\ p.family = print.family /\ p.req = print.req

Covers(p, print) ==
    [mac |-> p.mac, dev |-> p.dev, family |-> p.family, req |-> p.req,
     ver |-> p.ver] = print

\* preview: sweeps expired tokens and records a new one.
TakePreview(d, f, r, t) ==
    /\ Compilable(d, f)
    /\ \A p \in previews : p.token # t
    /\ previews' = {p \in previews : ~p.expired}
                      \cup {[token |-> t, mac |-> d, dev |-> mem[d],
                             family |-> f, req |-> r,
                             ver |-> Compile(mem[d].base, r),
                             expired |-> FALSE]}
    /\ UNCHANGED <<mem, disk, queue, awaiting, report, devVars, foreign>>

\* Five minutes pass.
ExpirePreview(p) ==
    /\ p \in previews
    /\ ~p.expired
    /\ previews' = (previews \ {p}) \cup {[p EXCEPT !.expired = TRUE]}
    /\ UNCHANGED <<mem, disk, queue, awaiting, report, devVars, foreign>>

\* apply with a token: revalidated against the same inputs, and spent only
\* when the commit succeeds.
ApplyPreviewed(d, f, r, p, saved) ==
    /\ p \in previews
    /\ ~p.expired
    /\ Compilable(d, f)
    /\ Covers(p, Fingerprint(d, f, r))
    /\ CommitCompiled(d, f, Compile(mem[d].base, r), saved)
    /\ previews' = IF saved THEN previews \ {p} ELSE previews

-------------------------------------------------------------------------------
(* The inform endpoint: ServeHTTP *)

\* The connection an inform arrived on: the one its device still waits on, or
\* one it gave up.
Arrived(d, live) == IF live THEN inform[d] ELSE late[d]

Taken(d, live) ==
    /\ Arrived(d, live).sent
    /\ inform' = IF live THEN [inform EXCEPT ![d] = NoInform] ELSE inform
    /\ late'   = IF live THEN late ELSE [late EXCEPT ![d] = NoInform]

\* decodeDeviceInform: the current key is tried first, then the assigned one.
Decodes(d, m)   == m.key \in {mem[d].key, mem[d].next} \ {NoKey}
Completes(d, m) == m.key # mem[d].key

\* recordReport: the described device; an ambiguous report changes nothing.
Described(d, m) ==
    LET f == Describe(m.family, mem[d].family)
    IN  IF f = NoFamily THEN mem[d] ELSE [mem[d] EXCEPT !.family = f]

Describes(d, m) == Describe(m.family, mem[d].family) # NoFamily

RecordReport(d, m) ==
    report' = [report EXCEPT ![d] = [got |-> TRUE, ver |-> m.ver,
                                     family |-> m.family]]

\* The awaited version has been reported.
Acknowledge(d, m) ==
    awaiting' = IF awaiting[d] = m.ver
                THEN [awaiting EXCEPT ![d] = NoVersion] ELSE awaiting

Adopted(r) == [r EXCEPT !.key = r.next, !.next = NoKey]

\* An unknown device, or a packet neither key decodes: an error and no reply.
InformRefused(d, live) ==
    /\ Taken(d, live)
    /\ ~Known(d) \/ ~Decodes(d, Arrived(d, live))
    /\ UNCHANGED <<ctlVars, devKey, devVer, reply, foreign>>

\* The descriptor cannot be saved: the report and the descriptor stay in
\* memory, the device gets an error.
InformUnsaved(d, live) ==
    LET m == Arrived(d, live)
    IN  /\ Taken(d, live)
        /\ Known(d) /\ Decodes(d, m) /\ Describes(d, m)
        /\ mem' = [mem EXCEPT ![d] = Described(d, m)]
        /\ RecordReport(d, m)
        /\ UNCHANGED <<disk, queue, awaiting, previews, devKey, devVer, reply,
                       foreign>>

\* The completed key transition cannot be saved: it stays in memory, the
\* device gets an error, no command is consumed.
InformUnadopted(d, live) ==
    LET m == Arrived(d, live)
    IN  /\ Taken(d, live)
        /\ Known(d) /\ Decodes(d, m) /\ Completes(d, m)
        /\ mem' = [mem EXCEPT ![d] = Adopted(Described(d, m))]
        /\ disk' = IF Describes(d, m)
                   THEN [mem EXCEPT ![d] = Described(d, m)] ELSE disk
        /\ RecordReport(d, m)
        /\ Acknowledge(d, m)
        /\ UNCHANGED <<queue, previews, devKey, devVer, reply, foreign>>

\* Mutant: the assigned key is sent with the template alone.
TransitioningNever(d, m) == FALSE

\* An unfinished key transition is repeated before anything queued; then the
\* head of the queue; then noop.
Transitioning(d, m) == mem[d].next # NoKey /\ ~Completes(d, m)

Answer(d, m) ==
    IF Transitioning(d, m) THEN SetAdopt(mem[d].next)
    ELSE IF queue[d] # <<>> THEN Head(queue[d]) ELSE NoReply

\* Mutant: the command is consumed before its write succeeded.
InformAnsweredConsumes(d, live, wrote) ==
    LET m == Arrived(d, live)
    IN  /\ Taken(d, live)
        /\ Known(d) /\ Decodes(d, m)
        /\ mem' = [mem EXCEPT ![d] = IF Completes(d, m)
                                     THEN Adopted(Described(d, m))
                                     ELSE Described(d, m)]
        /\ disk' = IF Describes(d, m) \/ Completes(d, m) THEN mem' ELSE disk
        /\ RecordReport(d, m)
        /\ Acknowledge(d, m)
        /\ queue' = IF ~Transitioning(d, m) /\ queue[d] # <<>>
                    THEN [queue EXCEPT ![d] = Tail(@)] ELSE queue
        /\ reply' = IF wrote /\ live THEN [reply EXCEPT ![d] = Answer(d, m)]
                                     ELSE reply
        /\ UNCHANGED <<previews, devKey, devVer, foreign>>

\* The whole handler succeeds; only a successful write consumes the command.
InformAnswered(d, live, wrote) ==
    LET m == Arrived(d, live)
    IN  /\ Taken(d, live)
        /\ Known(d) /\ Decodes(d, m)
        /\ mem' = [mem EXCEPT ![d] = IF Completes(d, m)
                                     THEN Adopted(Described(d, m))
                                     ELSE Described(d, m)]
        /\ disk' = IF Describes(d, m) \/ Completes(d, m) THEN mem' ELSE disk
        /\ RecordReport(d, m)
        /\ Acknowledge(d, m)
        /\ queue' = IF wrote /\ ~Transitioning(d, m) /\ queue[d] # <<>>
                    THEN [queue EXCEPT ![d] = Tail(@)] ELSE queue
        /\ reply' = IF wrote /\ live THEN [reply EXCEPT ![d] = Answer(d, m)]
                                     ELSE reply
        /\ UNCHANGED <<previews, devKey, devVer, foreign>>

-------------------------------------------------------------------------------
(* The devices, the network between, and the process *)

\* A device informs once it has dealt with the previous answer.
SendInform(d, f) ==
    /\ ~inform[d].sent
    /\ reply[d] = NoReply
    /\ inform' = [inform EXCEPT ![d] = [sent |-> TRUE, key |-> devKey[d],
                                        ver |-> devVer[d], family |-> f]]
    /\ UNCHANGED <<ctlVars, devKey, devVer, late, reply, foreign>>

\* A device stops waiting while its inform is still to be handled.
GiveUpInform(d) ==
    /\ inform[d].sent
    /\ ~late[d].sent
    /\ late' = [late EXCEPT ![d] = inform[d]]
    /\ inform' = [inform EXCEPT ![d] = NoInform]
    /\ UNCHANGED <<ctlVars, devKey, devVer, reply, foreign>>

\* A device acts on its reply.
ReceiveReply(d) ==
    /\ reply[d] # NoReply
    /\ devKey' = IF reply[d].key # NoKey
                 THEN [devKey EXCEPT ![d] = reply[d].key] ELSE devKey
    /\ devVer' = IF reply[d].kind = "setparam"
                 THEN [devVer EXCEPT ![d] = reply[d].ver] ELSE devVer
    /\ reply' = [reply EXCEPT ![d] = NoReply]
    /\ UNCHANGED <<ctlVars, inform, late, foreign>>

\* The reply never arrives, or the device cannot apply it.
LoseReply(d) ==
    /\ reply[d] # NoReply
    /\ reply' = [reply EXCEPT ![d] = NoReply]
    /\ UNCHANGED <<ctlVars, devKey, devVer, inform, late, foreign>>

\* Another tool reconfigures the device.
Drift(d, v) ==
    /\ devVer' = [devVer EXCEPT ![d] = v]
    /\ UNCHANGED <<ctlVars, devKey, inform, late, reply, foreign>>

\* The process ends and starts again: only the state file survives, and the
\* connections of unanswered informs are gone.
Restart ==
    /\ mem'      = Open(disk)
    /\ queue'    = [d \in Device |-> <<>>]
    /\ awaiting' = [d \in Device |-> NoVersion]
    /\ report'   = [d \in Device |-> NoReport]
    /\ previews' = {}
    /\ inform'   = [d \in Device |-> NoInform]
    /\ late'     = [d \in Device |-> NoInform]
    /\ UNCHANGED <<disk, devKey, devVer, reply, foreign>>

-------------------------------------------------------------------------------
Init ==
    /\ disk \in [Device -> Stored]
    /\ mem = Open(disk)
    /\ queue    = [d \in Device |-> <<>>]
    /\ awaiting = [d \in Device |-> NoVersion]
    /\ report   = [d \in Device |-> NoReport]
    /\ previews = {}
    /\ devKey \in [Device -> Key]
    /\ \A d \in Device :
          disk[d].key # NoKey => devKey[d] \in {disk[d].key, disk[d].next}
    /\ devVer \in [Device -> Version0]
    /\ inform = [d \in Device |-> NoInform]
    /\ late   = [d \in Device |-> NoInform]
    /\ reply  = [d \in Device |-> NoReply]
    /\ foreign = {}

RawReplies == {Setparam(k, v) : k \in Key0, v \in Version}
RawCommands == {Command} \cup {SetAdopt(k) : k \in Key}

Operate(d, saved) ==
    \/ "register" \in Operator /\ \E k \in Key : Register(d, k, saved)
    \/ "adopt" \in Operator /\ \E n \in Key \ {DefaultKey} : Adopt(d, n, saved)
    \/ "raw" \in Operator /\ \E c \in RawReplies : QueueSetparam(d, c, saved)
    \/ "command" \in Operator /\ \E c \in RawCommands : QueueCommand(d, c)
    \/ "import" \in Operator
          /\ \E v \in Version, b \in BOOLEAN : ImportBaseline(d, v, b, saved)
    \/ \E f \in Family, r \in Request :
          \/ "apply" \in Operator /\ Apply(d, f, r, saved)
          \/ "mutate" \in Operator /\ Mutate(d, f, r, saved)
          \/ "preview" \in Operator /\ \E t \in Token : TakePreview(d, f, r, t)
          \/ "preview" \in Operator
                /\ \E p \in previews : ApplyPreviewed(d, f, r, p, saved)

Serve(d, live) ==
    \/ InformRefused(d, live)
    \/ "save" \in Faults /\ InformUnsaved(d, live)
    \/ "save" \in Faults /\ InformUnadopted(d, live)
    \/ InformAnswered(d, live, TRUE)
    \/ "write" \in Faults /\ InformAnswered(d, live, FALSE)

Environment(d) ==
    \/ \E f \in Evidence : SendInform(d, f)
    \/ ReceiveReply(d)
    \/ "late" \in Faults /\ GiveUpInform(d)
    \/ "lose" \in Faults /\ LoseReply(d)
    \/ "drift" \in Faults /\ \E v \in Version : Drift(d, v)

Next ==
    \/ \E d \in Device :
          \/ \E saved \in SaveOutcome : Operate(d, saved)
          \/ \E live \in BOOLEAN : Serve(d, live)
          \/ Environment(d)
    \/ \E p \in previews : ExpirePreview(p)
    \/ "crash" \in Faults /\ Restart

Spec == Init /\ [][Next]_vars

-------------------------------------------------------------------------------
(* Properties *)

\* The inform key a device holds is always one that the running controller
\* would try, and one that a controller restarted from the state file would
\* try: no order of adoption, lost replies, failed saves and crashes strands a
\* device whose keys only this controller manages.
KeyReachable ==
    \A d \in Device \ foreign :
       /\ Known(d) => devKey[d] \in {mem[d].key, mem[d].next}
       /\ disk[d].key # NoKey => devKey[d] \in {disk[d].key, disk[d].next}

KeysOf(r) == {r.key, r.next} \ {NoKey}

Custody == INSTANCE KeyCustody WITH
    accepts <- [d \in Device |-> KeysOf(mem[d])],
    durable <- [d \in Device |-> KeysOf(disk[d])],
    holds   <- devKey,
    custody <- Device \ foreign

\* The controller keeps the promise of KeyCustody: each operation, inform, reply,
\* failed save and restart is one of its steps.  It never stops trying a key of a
\* device before the device was seen with the other one, and never sends a key
\* that a restarted controller would not try.
KeysInCustody == Custody!Spec

\* A crash never changes what the controller holds of a device's configuration:
\* what Open would read back is what is in memory.  Only a key transition whose
\* save failed may be ahead of the file, and then the file still has both keys.
RestartRecovers ==
    \A d \in Device :
       LET r == Migrate(disk[d])
       IN  /\ r.last = mem[d].last
           /\ r.base = mem[d].base
           /\ r.typed = mem[d].typed
           /\ r.desired = mem[d].desired
           /\ \/ r.key = mem[d].key /\ r.next = mem[d].next
              \/ /\ Known(d)
                 /\ mem[d].next = NoKey
                 /\ r.next = mem[d].key

IsSetparam(c) == c.kind = "setparam"

\* i is the place of the newest configuration in the queue q.
Newest(q, i) ==
    /\ IsSetparam(q[i])
    /\ \A j \in 1..Len(q) : j > i => ~IsSetparam(q[j])

\* The newest configuration that waits in a queue is the one persisted as the
\* last submitted: an earlier one is never sent after it, and a crash before
\* delivery leaves it on record.
NewestQueuedIsPersisted ==
    \A d \in Device : \A i \in 1..Len(queue[d]) :
       Newest(queue[d], i) => queue[d][i] = mem[d].last /\ queue[d][i] = disk[d].last

\* In memory and in the file, a device whose key transition is unfinished has
\* no desired state, and typed ownership is always of the desired version.
RecordsWellFormed ==
    \A d \in Device : WellFormed(mem[d]) /\ WellFormed(disk[d])

\* A configuration is on its way to the device.
InFlight(d) == reply[d].kind = "setparam"

\* Whenever the controller would accept a resource change, no configuration is
\* on its way to the device and the device runs exactly the version the change
\* is composed with.
NoBlindMutation ==
    \A d \in Device, f \in Family :
       Mutable(d, f) => ~InFlight(d) /\ devVer[d] = mem[d].desired

\* The places of the configurations in a queue.
Waiting(q) == {i \in 1..Len(q) : IsSetparam(q[i])}

\* However callers interleave, a device has at most one configuration that is
\* queued or on its way: a second typed change waits for the first one's report.
OnePendingConfiguration ==
    \A d \in Device :
       /\ \A i, j \in Waiting(queue[d]) : i = j
       /\ InFlight(d) => Waiting(queue[d]) = {}

\* The device has reported, with nothing queued or on its way, a version other
\* than the desired one.
Drifted(d) ==
    /\ Known(d) /\ mem[d].typed
    /\ report[d].got /\ report[d].ver = devVer[d]
    /\ report[d].ver # mem[d].desired
    /\ queue[d] = <<>> /\ reply[d] = NoReply /\ ~inform[d].sent

\* A full typed Apply is accepted for a device that has drifted.
DriftReconcilable ==
    \A d \in Device : Drifted(d) => \E f \in Family : Compilable(d, f)

\* A spent token committed what its preview showed, against the very device
\* record the preview was computed from.
PreviewHonoured ==
    [][\A p \in previews :
          p \notin previews' /\ mem' # mem =>
             \/ mem' = Open(disk)
             \/ /\ mem[p.mac].base = p.dev.base
                /\ mem[p.mac].key = p.dev.key
                /\ mem'[p.mac].desired = p.ver]_vars

-------------------------------------------------------------------------------
(* Liveness *)

\* Devices keep informing (every reply sets an interval), the endpoint keeps
\* answering, and a reply that is sent again and again arrives at last.
Fairness ==
    \A d \in Device :
       /\ WF_vars(\E f \in Evidence : SendInform(d, f))
       /\ SF_vars(InformAnswered(d, TRUE, TRUE))
       /\ WF_vars(InformRefused(d, TRUE))
       /\ SF_vars(ReceiveReply(d))

FairSpec == Spec /\ Fairness

\* A key transition that has begun completes, whatever is lost or restarted on
\* the way, because the set-adopt reply is repeated and both keys are kept.
AdoptionCompletes ==
    \A d \in Device :
       (Known(d) /\ mem[d].next # NoKey)
          ~> (mem[d].next = NoKey \/ d \in foreign)

\* A typed configuration that is queued is sent to its device in the end: a
\* failed write keeps it queued for the next inform.  It may be superseded by a
\* later submission, and a restart drops it.
AwaitedIsSent ==
    \A d \in Device, v \in Version :
       (awaiting[d] = v /\ queue[d] # <<>>)
          ~> \/ InFlight(d) /\ reply[d].ver = v
             \/ awaiting[d] # v \/ mem[d].last.ver # v

===============================================================================
