--------------------------- MODULE ControllerProofs ---------------------------
(***************************************************************************)
(* Proofs of the safety of Controller for every set of devices, keys,      *)
(* versions, requests, faults and control operations.                      *)
(***************************************************************************)
EXTENDS Controller, TLAPS

-------------------------------------------------------------------------------
(* Records *)

\* The three facts about one record that the operations keep.
Sound(r) ==
    /\ r \in DeviceRecord
    /\ WellFormed(r)
    /\ IsSetparam(r.last) => r.base \in Version

\* A newly registered or adopted device is a sound record.
LEMMA NewDeviceSound ==
    ASSUME NEW k \in Key, NEW n \in Key0
    PROVE  Sound(NewDevice(k, n))
BY ConstantsAssumption
   DEF Sound, NewDevice, DeviceRecord, WellFormed, Reply, NoReply, IsSetparam,
       Key0, Version0, Family0, Absent

\* Loading a well-formed record yields a sound one.
LEMMA MigrateSound ==
    ASSUME NEW r \in DeviceRecord, WellFormed(r)
    PROVE  Sound(Migrate(r))
<1> DEFINE owned == r.desired \in Bindable /\ r.desired = r.last.ver
           new   == [r EXCEPT !.base = r.last.ver, !.typed = owned]
<1>1. CASE r.base = NoVersion /\ r.last.kind = "setparam"
  <2>1. owned \in BOOLEAN
    OBVIOUS
  <2>2. /\ r.last # NoReply
        /\ r.last.ver \in Version
        /\ r.key # NoKey
    BY <1>1 DEF WellFormed, NoReply, Absent, NewDevice
  <2>3. /\ new \in DeviceRecord
        /\ new.key = r.key /\ new.next = r.next /\ new.last = r.last
        /\ new.base = r.last.ver /\ new.desired = r.desired
        /\ new.typed = owned
    <3> HIDE DEF owned
    <3> QED  BY <2>1, <2>2 DEF DeviceRecord, Version0
  <2>4. WellFormed(new) /\ new.base \in Version
    BY <2>2, <2>3 DEF WellFormed
  <2> QED  BY <1>1, <2>3, <2>4 DEF Sound, Migrate
<1>2. CASE ~(r.base = NoVersion /\ r.last.kind = "setparam")
  BY <1>2 DEF Sound, Migrate, DeviceRecord, Version0, IsSetparam
<1> QED  BY <1>1, <1>2

\* A raw submission keeps a registered record sound.
LEMMA RawSubmittedSound ==
    ASSUME NEW r, Sound(r), r.key # NoKey,
           NEW k \in Key0, NEW v \in Version
    PROVE  Sound(RawSubmitted(r, Setparam(k, v)))
BY ConstantsAssumption
   DEF Sound, RawSubmitted, Setparam, DeviceRecord, WellFormed, Reply, NoReply,
       IsSetparam, Key0, Version0, Family0

\* Saving a sound record and loading it gives it back.
LEMMA SoundMigrated ==
    ASSUME NEW r, Sound(r)
    PROVE  Migrate(r) = r
BY ConstantsAssumption DEF Sound, Migrate, IsSetparam

\* Installing a key, describing a device and completing a key transition keep
\* a registered record sound.
LEMMA KeyedSound ==
    ASSUME NEW r, Sound(r), r.key # NoKey, NEW k \in Key
    PROVE  Sound([r EXCEPT !.key = k])
BY ConstantsAssumption DEF Sound, DeviceRecord, WellFormed, IsSetparam, Key0

LEMMA DescribedSound ==
    ASSUME NEW r, Sound(r), r.key # NoKey, NEW f \in Family0
    PROVE  /\ Sound([r EXCEPT !.family = f])
           /\ [r EXCEPT !.family = f].key = r.key
           /\ [r EXCEPT !.family = f].next = r.next
BY DEF Sound, DeviceRecord, WellFormed, IsSetparam

LEMMA AdoptedSound ==
    ASSUME NEW r, Sound(r), r.next # NoKey
    PROVE  Sound(Adopted(r))
BY ConstantsAssumption
   DEF Sound, Adopted, DeviceRecord, WellFormed, IsSetparam, Key0

\* A compiled configuration and an imported baseline keep a record sound once
\* its key transition is finished.
LEMMA CompiledSound ==
    ASSUME NEW r, Sound(r), r.key # NoKey, r.next = NoKey,
           NEW f \in Family, NEW v \in Version
    PROVE  Sound([r EXCEPT !.family = f, !.desired = v,
                           !.last = Setparam(r.key, v), !.base = v,
                           !.typed = TRUE])
BY ConstantsAssumption
   DEF Sound, Setparam, DeviceRecord, WellFormed, Reply, NoReply, IsSetparam,
       Key0, Version0, Family0

LEMMA ImportedSound ==
    ASSUME NEW r, Sound(r), r.key # NoKey, r.next = NoKey,
           NEW v \in Version, NEW typed \in BOOLEAN
    PROVE  Sound([r EXCEPT !.base = v, !.typed = typed, !.desired = v])
BY ConstantsAssumption
   DEF Sound, DeviceRecord, WellFormed, IsSetparam, Version0

-------------------------------------------------------------------------------
(* The durable state *)

MemSound  == mem \in [Device -> DeviceRecord] /\ \A d \in Device : Sound(mem[d])
DiskSound ==
    disk \in [Device -> DeviceRecord] /\ \A d \in Device : WellFormed(disk[d])

\* The file holds r where memory holds m.
Recovers(r, m) ==
    /\ Migrate(r).last = m.last
    /\ Migrate(r).base = m.base
    /\ Migrate(r).typed = m.typed
    /\ Migrate(r).desired = m.desired
    /\ \/ Migrate(r).key = m.key /\ Migrate(r).next = m.next
       \/ /\ m.key # NoKey /\ m.next = NoKey
          /\ Migrate(r).next = m.key

DurableInv ==
    MemSound /\ DiskSound /\ \A d \in Device : Recovers(disk[d], mem[d])

LEMMA SoundRecovers ==
    ASSUME NEW r, Sound(r)
    PROVE  Recovers(r, r)
BY SoundMigrated DEF Recovers

\* One record changes in memory and all of memory is saved, or nothing happens.
LEMMA CommitDurable ==
    ASSUME DurableInv, NEW d \in Device, NEW new, Sound(new), NEW saved,
           Commit(d, new, saved)
    PROVE  DurableInv'
<1>1. CASE saved
  <2>1. mem' = [mem EXCEPT ![d] = new] /\ disk' = mem'
    BY <1>1 DEF Commit
  <2>2. mem' \in [Device -> DeviceRecord] /\ \A e \in Device : Sound(mem'[e])
    BY <2>1 DEF DurableInv, MemSound, Sound
  <2>3. \A e \in Device : WellFormed(disk'[e]) /\ Recovers(disk'[e], mem'[e])
    BY <2>1, <2>2, SoundRecovers DEF Sound
  <2> QED  BY <2>1, <2>2, <2>3 DEF DurableInv, MemSound, DiskSound
<1>2. CASE ~saved
  BY <1>2 DEF Commit, DurableInv, MemSound, DiskSound
<1> QED  BY <1>1, <1>2

\* What an inform's description changes of a device: its family alone.
LEMMA DescribedRecord ==
    ASSUME MemSound, NEW d \in Device, Known(d), NEW m, m.family \in Family0
    PROVE  /\ Sound(Described(d, m))
           /\ Described(d, m).key = mem[d].key
           /\ Described(d, m).next = mem[d].next
           /\ Described(d, m).last = mem[d].last
           /\ Described(d, m).base = mem[d].base
           /\ Described(d, m).typed = mem[d].typed
           /\ Described(d, m).desired = mem[d].desired
<1> DEFINE f == Describe(m.family, mem[d].family)
<1>1. Sound(mem[d]) /\ mem[d].key # NoKey /\ mem[d] \in DeviceRecord
  BY DEF MemSound, Known
<1>2. f \in Family0
  BY <1>1 DEF Describe, DeviceRecord, Family0
<1>3. Described(d, m) = IF f = NoFamily THEN mem[d]
                                        ELSE [mem[d] EXCEPT !.family = f]
  BY DEF Described
<1> HIDE DEF f
<1> QED  BY <1>1, <1>2, <1>3, DescribedSound DEF DeviceRecord

LEMMA DecodesAssigned ==
    ASSUME MemSound, NEW d \in Device, NEW m, Decodes(d, m), Completes(d, m)
    PROVE  mem[d].next # NoKey /\ m.key = mem[d].next
BY DEF Decodes, Completes

\* The described device stays in memory when it cannot be saved.
LEMMA UnsavedDurable ==
    ASSUME DurableInv, NEW d \in Device, Known(d), NEW m, m.family \in Family0,
           mem' = [mem EXCEPT ![d] = Described(d, m)], disk' = disk
    PROVE  DurableInv'
<1>1. MemSound
  BY DEF DurableInv
<1>2. Recovers(disk[d], Described(d, m))
  BY <1>1, DescribedRecord DEF DurableInv, Recovers
<1>3. MemSound'
  BY <1>1, DescribedRecord DEF MemSound, Sound
<1>4. \A e \in Device : Recovers(disk'[e], mem'[e])
  BY <1>1, <1>2 DEF DurableInv, MemSound
<1> QED  BY <1>3, <1>4 DEF DurableInv, DiskSound

\* A completed key transition that cannot be saved: the file keeps both keys.
LEMMA UnadoptedDurable ==
    ASSUME DurableInv, NEW d \in Device, Known(d), NEW m, m.family \in Family0,
           Decodes(d, m), Completes(d, m),
           mem' = [mem EXCEPT ![d] = Adopted(Described(d, m))],
           disk' = IF Describes(d, m)
                   THEN [mem EXCEPT ![d] = Described(d, m)] ELSE disk
    PROVE  DurableInv'
<1> DEFINE r == Described(d, m)
<1>1. MemSound /\ DiskSound /\ \A e \in Device : Recovers(disk[e], mem[e])
  BY DEF DurableInv
<1>2. mem[d].next # NoKey
  BY <1>1, DecodesAssigned
<1>3. Sound(r) /\ r.key = mem[d].key /\ r.next = mem[d].next
  BY <1>1, DescribedRecord
<1>4. Sound(Adopted(r))
  BY <1>2, <1>3, AdoptedSound
<1>5. /\ Adopted(r).key = r.next /\ Adopted(r).next = NoKey
      /\ Adopted(r).last = r.last /\ Adopted(r).base = r.base
      /\ Adopted(r).typed = r.typed /\ Adopted(r).desired = r.desired
  <2> HIDE DEF r
  <2> QED  BY <1>3 DEF Adopted, Sound, DeviceRecord
<1>6. MemSound'
  BY <1>1, <1>4 DEF MemSound, Sound
<1>7. CASE Describes(d, m)
  <2>1. disk' = [mem EXCEPT ![d] = r]
    BY <1>7
  <2>2. Recovers(r, Adopted(r))
    <3> HIDE DEF r
    <3> QED  BY <1>2, <1>3, <1>5, SoundMigrated DEF Recovers
  <2>3. \A e \in Device : /\ Recovers(disk'[e], mem'[e])
                          /\ WellFormed(disk'[e])
    BY <1>1, <1>3, <2>1, <2>2, SoundRecovers DEF MemSound, Sound
  <2>4. disk' \in [Device -> DeviceRecord]
    BY <1>1, <1>3, <2>1 DEF MemSound, Sound
  <2> QED  BY <1>6, <2>3, <2>4 DEF DurableInv, DiskSound
<1>8. CASE ~Describes(d, m)
  <2>1. disk' = disk /\ r = mem[d]
    BY <1>8 DEF Describes, Described
  <2>2. Recovers(disk[d], Adopted(r))
    <3>1. Recovers(disk[d], r)
      BY <1>1, <2>1
    <3> HIDE DEF r
    <3> QED  BY <1>2, <1>3, <1>5, <3>1 DEF Recovers
  <2>3. \A e \in Device : Recovers(disk'[e], mem'[e])
    BY <1>1, <2>1, <2>2 DEF MemSound
  <2> QED  BY <1>1, <1>6, <2>1, <2>3 DEF DurableInv, DiskSound
<1> QED  BY <1>7, <1>8

\* The record an answered inform leaves in memory.
Informed(d, m) ==
    IF Completes(d, m) THEN Adopted(Described(d, m)) ELSE Described(d, m)

\* An inform that is answered saves whatever it changed but an unchanged
\* description.
LEMMA AnsweredDurable ==
    ASSUME DurableInv, NEW d \in Device, Known(d), NEW m, m.family \in Family0,
           Decodes(d, m),
           mem' = [mem EXCEPT ![d] = Informed(d, m)],
           disk' = IF Describes(d, m) \/ Completes(d, m) THEN mem' ELSE disk
    PROVE  DurableInv'
<1>1. MemSound /\ DiskSound /\ \A e \in Device : Recovers(disk[e], mem[e])
  BY DEF DurableInv
<1>2. Sound(Informed(d, m))
  BY <1>1, DecodesAssigned, DescribedRecord, AdoptedSound DEF Informed
<1>3. MemSound'
  BY <1>1, <1>2 DEF MemSound, Sound
<1>4. CASE Describes(d, m) \/ Completes(d, m)
  BY <1>3, <1>4, SoundRecovers DEF DurableInv, MemSound, DiskSound, Sound
<1>5. CASE ~(Describes(d, m) \/ Completes(d, m))
  <2>1. Informed(d, m) = mem[d] /\ disk' = disk
    BY <1>5 DEF Informed, Describes, Described
  <2>2. mem' = mem
    BY <1>1, <2>1 DEF MemSound
  <2> QED  BY <1>1, <2>1, <2>2 DEF DurableInv, MemSound, DiskSound
<1> QED  BY <1>4, <1>5

LEMMA RestartDurable ==
    ASSUME DurableInv, mem' = Open(disk), disk' = disk
    PROVE  DurableInv'
<1>1. DiskSound
  BY DEF DurableInv
<1>2. \A d \in Device : Sound(Migrate(disk[d]))
  BY <1>1, MigrateSound DEF DiskSound
<1>3. MemSound'
  BY <1>2 DEF MemSound, Open, Sound
<1>4. \A d \in Device : Recovers(disk'[d], mem'[d])
  BY DEF Recovers, Open
<1> QED  BY <1>1, <1>3, <1>4 DEF DurableInv, DiskSound

-------------------------------------------------------------------------------
(* Types, step by step *)

VolatileTypes ==
    /\ queue \in [Device -> Seq(Reply)]
    /\ awaiting \in [Device -> Version0]
    /\ report \in [Device -> Report]
    /\ previews \subseteq Preview

DeviceTypes ==
    /\ devKey \in [Device -> Key]
    /\ devVer \in [Device -> Version0]
    /\ inform \in [Device -> Inform]
    /\ late \in [Device -> Inform]
    /\ reply \in [Device -> Reply]
    /\ foreign \subseteq Device

RecordInv == DurableInv /\ VolatileTypes /\ DeviceTypes

LEMMA ReplyTypes ==
    /\ \A k \in Key0, v \in Version0 : Setparam(k, v) \in Reply
    /\ \A k \in Key0 : SetAdopt(k) \in Reply
    /\ Command \in Reply
    /\ NoReply \in Reply
BY DEF Setparam, SetAdopt, Command, NoReply, Reply, Key0, Version0

LEMMA RegisterKeeps ==
    ASSUME RecordInv, NEW d \in Device, NEW k \in Key, NEW saved \in BOOLEAN,
           Register(d, k, saved)
    PROVE  RecordInv'
<1> DEFINE new == IF Known(d) THEN [mem[d] EXCEPT !.key = k]
                              ELSE NewDevice(k, NoKey)
<1>1. Sound(new)
  BY KeyedSound, NewDeviceSound
     DEF RecordInv, DurableInv, MemSound, Known, Key0
<1>2. Commit(d, new, saved)
  BY DEF Register
<1>3. DurableInv'
  <2> HIDE DEF new
  <2> QED  BY <1>1, <1>2, CommitDurable DEF RecordInv
<1>4. VolatileTypes' /\ DeviceTypes'
  BY DEF Register, Claim, RecordInv, VolatileTypes, DeviceTypes, devVars
<1> QED  BY <1>3, <1>4 DEF RecordInv

LEMMA AdoptKeeps ==
    ASSUME RecordInv, NEW d \in Device, NEW n \in Key, NEW saved \in BOOLEAN,
           Adopt(d, n, saved)
    PROVE  RecordInv'
<1> DEFINE dev      == IF Known(d) THEN mem[d] ELSE NewDevice(DefaultKey, n)
           template == Setparam(TargetKey(dev), AdoptVersion)
<1>1. Sound(dev) /\ dev.key # NoKey /\ dev \in DeviceRecord
  BY NewDeviceSound, ConstantsAssumption
     DEF RecordInv, DurableInv, MemSound, Known, Key0, Sound, NewDevice
<1>2. TargetKey(dev) \in Key0
  <2> HIDE DEF dev
  <2> QED  BY <1>1 DEF TargetKey, DeviceRecord
<1>3. Sound(RawSubmitted(dev, template))
  <2> HIDE DEF dev
  <2> QED  BY <1>1, <1>2, RawSubmittedSound, ConstantsAssumption
<1>4. template \in Reply
  BY <1>2, ReplyTypes, ConstantsAssumption DEF Version0
<1>5. /\ Commit(d, RawSubmitted(dev, template), saved)
      /\ queue' = IF saved THEN [queue EXCEPT ![d] = <<template>>] ELSE queue
      /\ UNCHANGED <<awaiting, report, previews, devVars>>
      /\ foreign' \in {foreign, foreign \cup {d}}
  BY DEF Adopt, Claim
<1> HIDE DEF dev, template
<1>6. DurableInv'
  BY <1>3, <1>5, CommitDurable DEF RecordInv
<1>7. VolatileTypes' /\ DeviceTypes'
  BY <1>4, <1>5 DEF RecordInv, VolatileTypes, DeviceTypes, devVars
<1> QED  BY <1>6, <1>7 DEF RecordInv

LEMMA QueueSetparamKeeps ==
    ASSUME RecordInv, NEW d \in Device, NEW c \in RawReplies,
           NEW saved \in BOOLEAN, QueueSetparam(d, c, saved)
    PROVE  RecordInv'
<1>1. PICK k \in Key0, v \in Version : c = Setparam(k, v)
  BY DEF RawReplies
<1>2. Sound(RawSubmitted(mem[d], c))
  BY <1>1, RawSubmittedSound
     DEF RecordInv, DurableInv, MemSound, QueueSetparam, Known
<1>3. DurableInv'
  BY <1>2, CommitDurable DEF RecordInv, QueueSetparam
<1>4. c \in Reply
  BY <1>1, ReplyTypes DEF Version0
<1>5. VolatileTypes' /\ DeviceTypes'
  BY <1>4 DEF QueueSetparam, Claim, RecordInv, VolatileTypes, DeviceTypes,
              devVars, Version0
<1> QED  BY <1>3, <1>5 DEF RecordInv

LEMMA QueueCommandKeeps ==
    ASSUME RecordInv, NEW d \in Device, NEW c \in RawCommands,
           QueueCommand(d, c)
    PROVE  RecordInv'
<1>1. c \in Reply
  BY ReplyTypes DEF RawCommands, Key0
<1>2. VolatileTypes' /\ DeviceTypes'
  BY <1>1 DEF QueueCommand, Claim, RecordInv, VolatileTypes, DeviceTypes,
              devVars
<1>3. DurableInv'
  BY DEF QueueCommand, RecordInv, DurableInv, MemSound, DiskSound
<1> QED  BY <1>2, <1>3 DEF RecordInv

\* What the checks before a compilation give: a typed baseline to compile.
LEMMA CompilableBase ==
    ASSUME RecordInv, NEW d \in Device, NEW f \in Family, NEW r \in Request,
           Compilable(d, f)
    PROVE  /\ mem[d].key # NoKey
           /\ mem[d].next = NoKey
           /\ Compile(mem[d].base, r) \in Version
<1>1. WellFormed(mem[d]) /\ mem[d].typed
  BY DEF RecordInv, DurableInv, MemSound, Sound, Compilable
<1>2. mem[d].base \in Version
  BY <1>1 DEF WellFormed
<1> QED  BY <1>2, ConstantsAssumption DEF Compilable, Known

LEMMA CommitCompiledKeeps ==
    ASSUME RecordInv, NEW d \in Device, NEW f \in Family, NEW v \in Version,
           NEW saved \in BOOLEAN, mem[d].key # NoKey, mem[d].next = NoKey,
           CommitCompiled(d, f, v, saved), previews' \subseteq Preview
    PROVE  RecordInv'
<1> DEFINE new == [mem[d] EXCEPT !.family = f, !.desired = v,
                      !.last = Setparam(mem[d].key, v), !.base = v,
                      !.typed = TRUE]
<1>1. Sound(new)
  BY CompiledSound DEF RecordInv, DurableInv, MemSound
<1>2. Commit(d, new, saved)
  BY DEF CommitCompiled
<1>3. DurableInv'
  <2> HIDE DEF new
  <2> QED  BY <1>1, <1>2, CommitDurable DEF RecordInv
<1>4. Setparam(mem[d].key, v) \in Reply
  BY ReplyTypes DEF RecordInv, DurableInv, MemSound, DeviceRecord, Version0
<1>5. VolatileTypes' /\ DeviceTypes'
  BY <1>4 DEF CommitCompiled, RecordInv, VolatileTypes, DeviceTypes, devVars,
              Version0
<1> QED  BY <1>3, <1>5 DEF RecordInv

LEMMA ApplyKeeps ==
    ASSUME RecordInv, NEW d \in Device, NEW f \in Family, NEW r \in Request,
           NEW saved \in BOOLEAN, Apply(d, f, r, saved)
    PROVE  RecordInv'
<1>1. previews' \subseteq Preview
  BY DEF Apply, RecordInv, VolatileTypes
<1> QED  BY <1>1, CompilableBase, CommitCompiledKeeps DEF Apply

LEMMA MutateKeeps ==
    ASSUME RecordInv, NEW d \in Device, NEW f \in Family, NEW r \in Request,
           NEW saved \in BOOLEAN, Mutate(d, f, r, saved)
    PROVE  RecordInv'
<1>1. previews' \subseteq Preview
  BY DEF Mutate, RecordInv, VolatileTypes
<1> QED  BY <1>1, CompilableBase, CommitCompiledKeeps DEF Mutate, Mutable

LEMMA ApplyPreviewedKeeps ==
    ASSUME RecordInv, NEW d \in Device, NEW f \in Family, NEW r \in Request,
           NEW p, NEW saved \in BOOLEAN, ApplyPreviewed(d, f, r, p, saved)
    PROVE  RecordInv'
<1>1. previews' \subseteq Preview
  BY DEF ApplyPreviewed, RecordInv, VolatileTypes
<1> QED  BY <1>1, CompilableBase, CommitCompiledKeeps DEF ApplyPreviewed

LEMMA ImportBaselineKeeps ==
    ASSUME RecordInv, NEW d \in Device, NEW v \in Version,
           NEW typed \in BOOLEAN, NEW saved \in BOOLEAN,
           ImportBaseline(d, v, typed, saved)
    PROVE  RecordInv'
<1>1. Sound([mem[d] EXCEPT !.base = v, !.typed = typed, !.desired = v])
  BY ImportedSound DEF ImportBaseline, RecordInv, DurableInv, MemSound, Known
<1>2. DurableInv'
  BY <1>1, CommitDurable DEF ImportBaseline, RecordInv
<1>3. VolatileTypes' /\ DeviceTypes'
  BY DEF ImportBaseline, RecordInv, VolatileTypes, DeviceTypes, devVars
<1> QED  BY <1>2, <1>3 DEF RecordInv

LEMMA TakePreviewKeeps ==
    ASSUME RecordInv, NEW d \in Device, NEW f \in Family, NEW r \in Request,
           NEW t \in Token, TakePreview(d, f, r, t)
    PROVE  RecordInv'
<1> DEFINE p == [token |-> t, mac |-> d, dev |-> mem[d], family |-> f,
                 req |-> r, ver |-> Compile(mem[d].base, r), expired |-> FALSE]
<1>1. Compile(mem[d].base, r) \in Version
  BY CompilableBase DEF TakePreview
<1>2. p \in Preview
  BY <1>1 DEF Preview, RecordInv, DurableInv, MemSound
<1>3. previews' = {q \in previews : ~q.expired} \cup {p}
  BY DEF TakePreview
<1>4. VolatileTypes' /\ DeviceTypes'
  <2> HIDE DEF p
  <2> QED  BY <1>2, <1>3 DEF TakePreview, RecordInv, VolatileTypes,
                             DeviceTypes, devVars
<1>5. DurableInv'
  BY DEF TakePreview, RecordInv, DurableInv, MemSound, DiskSound
<1> QED  BY <1>4, <1>5 DEF RecordInv

LEMMA ExpirePreviewKeeps ==
    ASSUME RecordInv, NEW p, ExpirePreview(p)
    PROVE  RecordInv'
<1>1. p \in Preview
  BY DEF ExpirePreview, RecordInv, VolatileTypes
<1>2. [p EXCEPT !.expired = TRUE] \in Preview
  BY <1>1 DEF Preview
<1>3. VolatileTypes' /\ DeviceTypes'
  BY <1>2 DEF ExpirePreview, RecordInv, VolatileTypes, DeviceTypes, devVars
<1>4. DurableInv'
  BY DEF ExpirePreview, RecordInv, DurableInv, MemSound, DiskSound
<1> QED  BY <1>3, <1>4 DEF RecordInv

\* Every control operation keeps the invariant.
LEMMA OperateKeeps ==
    ASSUME RecordInv, NEW d \in Device, NEW saved \in BOOLEAN,
           Operate(d, saved)
    PROVE  RecordInv'
BY RegisterKeeps, AdoptKeeps, QueueSetparamKeeps, QueueCommandKeeps,
   ApplyKeeps, MutateKeeps, ApplyPreviewedKeeps, ImportBaselineKeeps,
   TakePreviewKeeps
   DEF Operate

\* Taking an inform from its connection.
LEMMA TakenTypes ==
    ASSUME RecordInv, NEW d \in Device, NEW live \in BOOLEAN, Taken(d, live)
    PROVE  /\ Arrived(d, live) \in Inform
           /\ inform' \in [Device -> Inform]
           /\ late' \in [Device -> Inform]
<1>1. NoInform \in Inform
  BY DEF NoInform, Inform, Key0, Version0, Family0
<1> QED  BY <1>1 DEF Taken, Arrived, RecordInv, DeviceTypes

LEMMA ReportTypes ==
    ASSUME RecordInv, NEW d \in Device, NEW m \in Inform,
           RecordReport(d, m)
    PROVE  report' \in [Device -> Report]
<1>1. [got |-> TRUE, ver |-> m.ver, family |-> m.family] \in Report
  BY DEF Report, Inform
<1> QED  BY <1>1 DEF RecordReport, RecordInv, VolatileTypes

LEMMA AcknowledgeTypes ==
    ASSUME RecordInv, NEW d \in Device, NEW m, Acknowledge(d, m)
    PROVE  awaiting' \in [Device -> Version0]
BY DEF Acknowledge, RecordInv, VolatileTypes, Version0

LEMMA AnswerType ==
    ASSUME RecordInv, NEW d \in Device, NEW m
    PROVE  Answer(d, m) \in Reply
<1>1. mem[d].next \in Key0
  BY DEF RecordInv, DurableInv, MemSound, DeviceRecord
<1>2. queue[d] \in Seq(Reply)
  BY DEF RecordInv, VolatileTypes
<1> QED  BY <1>1, <1>2, ReplyTypes DEF Answer

LEMMA InformRefusedKeeps ==
    ASSUME RecordInv, NEW d \in Device, NEW live \in BOOLEAN,
           InformRefused(d, live)
    PROVE  RecordInv'
BY TakenTypes
   DEF InformRefused, RecordInv, DurableInv, MemSound, DiskSound,
       VolatileTypes, DeviceTypes, ctlVars

LEMMA InformUnsavedKeeps ==
    ASSUME RecordInv, NEW d \in Device, NEW live \in BOOLEAN,
           InformUnsaved(d, live)
    PROVE  RecordInv'
<1> DEFINE m == Arrived(d, live)
<1>1. m \in Inform /\ inform' \in [Device -> Inform]
                   /\ late' \in [Device -> Inform]
  BY TakenTypes DEF InformUnsaved
<1>2. /\ Known(d) /\ RecordReport(d, m)
      /\ mem' = [mem EXCEPT ![d] = Described(d, m)] /\ disk' = disk
      /\ UNCHANGED <<queue, awaiting, previews, devKey, devVer, reply, foreign>>
  BY DEF InformUnsaved
<1> HIDE DEF m
<1>3. m.family \in Family0
  BY <1>1 DEF Inform
<1>4. DurableInv'
  BY <1>2, <1>3, UnsavedDurable DEF RecordInv
<1>5. report' \in [Device -> Report]
  BY <1>1, <1>2, ReportTypes
<1> QED
  BY <1>1, <1>2, <1>4, <1>5 DEF RecordInv, VolatileTypes, DeviceTypes

LEMMA InformUnadoptedKeeps ==
    ASSUME RecordInv, NEW d \in Device, NEW live \in BOOLEAN,
           InformUnadopted(d, live)
    PROVE  RecordInv'
<1> DEFINE m == Arrived(d, live)
<1>1. m \in Inform /\ inform' \in [Device -> Inform]
                   /\ late' \in [Device -> Inform]
  BY TakenTypes DEF InformUnadopted
<1>2. /\ Known(d) /\ Decodes(d, m) /\ Completes(d, m)
      /\ RecordReport(d, m) /\ Acknowledge(d, m)
      /\ mem' = [mem EXCEPT ![d] = Adopted(Described(d, m))]
      /\ disk' = IF Describes(d, m)
                 THEN [mem EXCEPT ![d] = Described(d, m)] ELSE disk
      /\ UNCHANGED <<queue, previews, devKey, devVer, reply, foreign>>
  BY DEF InformUnadopted
<1> HIDE DEF m
<1>3. m.family \in Family0
  BY <1>1 DEF Inform
<1>4. DurableInv'
  BY <1>2, <1>3, UnadoptedDurable DEF RecordInv
<1>5. report' \in [Device -> Report] /\ awaiting' \in [Device -> Version0]
  BY <1>1, <1>2, ReportTypes, AcknowledgeTypes
<1> QED
  BY <1>1, <1>2, <1>4, <1>5 DEF RecordInv, VolatileTypes, DeviceTypes

LEMMA InformAnsweredKeeps ==
    ASSUME RecordInv, NEW d \in Device, NEW live \in BOOLEAN,
           NEW wrote \in BOOLEAN, InformAnswered(d, live, wrote)
    PROVE  RecordInv'
<1> DEFINE m == Arrived(d, live)
<1>1. m \in Inform /\ inform' \in [Device -> Inform]
                   /\ late' \in [Device -> Inform]
  BY TakenTypes DEF InformAnswered
<1>2. /\ Known(d) /\ Decodes(d, m)
      /\ RecordReport(d, m) /\ Acknowledge(d, m)
      /\ mem' = [mem EXCEPT ![d] = Informed(d, m)]
      /\ disk' = IF Describes(d, m) \/ Completes(d, m) THEN mem' ELSE disk
      /\ queue' = IF wrote /\ ~Transitioning(d, m) /\ queue[d] # <<>>
                  THEN [queue EXCEPT ![d] = Tail(@)] ELSE queue
      /\ reply' = IF wrote /\ live THEN [reply EXCEPT ![d] = Answer(d, m)]
                                   ELSE reply
      /\ UNCHANGED <<previews, devKey, devVer, foreign>>
  BY DEF InformAnswered, Informed
<1> HIDE DEF m
<1>3. m.family \in Family0
  BY <1>1 DEF Inform
<1>4. DurableInv'
  BY <1>2, <1>3, AnsweredDurable DEF RecordInv
<1>5. report' \in [Device -> Report] /\ awaiting' \in [Device -> Version0]
  BY <1>1, <1>2, ReportTypes, AcknowledgeTypes
<1>6. queue' \in [Device -> Seq(Reply)]
  BY <1>2 DEF RecordInv, VolatileTypes
<1>7. reply' \in [Device -> Reply]
  BY <1>2, AnswerType DEF RecordInv, DeviceTypes
<1> QED
  BY <1>1, <1>2, <1>4, <1>5, <1>6, <1>7
     DEF RecordInv, VolatileTypes, DeviceTypes

\* Every outcome of the inform handler keeps the invariant.
LEMMA ServeKeeps ==
    ASSUME RecordInv, NEW d \in Device, NEW live \in BOOLEAN, Serve(d, live)
    PROVE  RecordInv'
BY InformRefusedKeeps, InformUnsavedKeeps, InformUnadoptedKeeps,
   InformAnsweredKeeps
   DEF Serve

\* Devices and the network keep the invariant.
LEMMA EnvironmentKeeps ==
    ASSUME RecordInv, NEW d \in Device, Environment(d)
    PROVE  RecordInv'
<1> USE DEF RecordInv, DurableInv, MemSound, DiskSound, VolatileTypes,
            DeviceTypes, ctlVars
<1>1. ASSUME NEW f \in Evidence, SendInform(d, f) PROVE RecordInv'
  <2>1. [sent |-> TRUE, key |-> devKey[d], ver |-> devVer[d], family |-> f]
           \in Inform
    BY ConstantsAssumption DEF Inform, Key0, Family0
  <2> QED  BY <1>1, <2>1 DEF SendInform
<1>2. ASSUME ReceiveReply(d) PROVE RecordInv'
  BY <1>2, ReplyTypes DEF ReceiveReply, Reply, Key0
<1>3. ASSUME GiveUpInform(d) PROVE RecordInv'
  <2>1. NoInform \in Inform
    BY DEF NoInform, Inform, Key0, Version0, Family0
  <2> QED  BY <1>3, <2>1 DEF GiveUpInform
<1>4. ASSUME LoseReply(d) PROVE RecordInv'
  BY <1>4, ReplyTypes DEF LoseReply
<1>5. ASSUME NEW v \in Version, Drift(d, v) PROVE RecordInv'
  BY <1>5 DEF Drift, Version0
<1> QED  BY <1>1, <1>2, <1>3, <1>4, <1>5 DEF Environment

LEMMA RestartKeeps ==
    ASSUME RecordInv, Restart
    PROVE  RecordInv'
<1>1. DurableInv'
  BY RestartDurable DEF Restart, RecordInv
<1>2. NoReport \in Report /\ NoInform \in Inform
  BY DEF NoReport, Report, NoInform, Inform, Key0, Version0, Family0
<1>3. VolatileTypes' /\ DeviceTypes'
  BY <1>2 DEF Restart, RecordInv, VolatileTypes, DeviceTypes, Version0
<1> QED  BY <1>1, <1>3 DEF RecordInv

LEMMA RecordInvInit ==
    ASSUME Init
    PROVE  RecordInv
<1>1. DiskSound
  BY StoredAssumption DEF Init, DiskSound
<1>2. \A d \in Device : Sound(Migrate(disk[d]))
  BY <1>1, MigrateSound DEF DiskSound
<1>3. MemSound
  BY <1>2 DEF Init, MemSound, Open, Sound
<1>4. \A d \in Device : Recovers(disk[d], mem[d])
  BY DEF Init, Recovers, Open
<1>5. NoReport \in Report /\ NoInform \in Inform
  BY DEF NoReport, Report, NoInform, Inform, Key0, Version0, Family0
<1>6. VolatileTypes /\ DeviceTypes
  BY <1>5, ReplyTypes DEF Init, VolatileTypes, DeviceTypes, Version0
<1> QED  BY <1>1, <1>3, <1>4, <1>6 DEF RecordInv, DurableInv

LEMMA RecordInvStep ==
    ASSUME RecordInv, [Next]_vars
    PROVE  RecordInv'
<1>1. CASE Next
  <2>1. SaveOutcome \subseteq BOOLEAN
    BY DEF SaveOutcome
  <2> QED
    BY <1>1, <2>1, OperateKeeps, ServeKeeps, EnvironmentKeeps,
       ExpirePreviewKeeps, RestartKeeps
       DEF Next
<1>2. CASE UNCHANGED vars
  BY <1>2 DEF vars, ctlVars, devVars, RecordInv, DurableInv, MemSound,
              DiskSound, VolatileTypes, DeviceTypes
<1> QED  BY <1>1, <1>2

LEMMA RecordInvariant == Spec => []RecordInv
BY RecordInvInit, RecordInvStep, PTL DEF Spec

-------------------------------------------------------------------------------
(* The first theorems *)

\* Every reachable state is well typed: no handler or control operation stores
\* a record, queues a reply or remembers a report or preview out of shape.
THEOREM TypeCorrect == Spec => []TypeOK
<1>1. RecordInv => TypeOK
  BY DEF RecordInv, DurableInv, MemSound, DiskSound, VolatileTypes,
         DeviceTypes, TypeOK
<1> QED  BY <1>1, RecordInvariant, PTL

\* In memory and in the file, desired state exists only after the key
\* transition, and typed ownership is always of the desired version.
THEOREM RecordsStayWellFormed == Spec => []RecordsWellFormed
<1>1. RecordInv => RecordsWellFormed
  BY DEF RecordInv, DurableInv, MemSound, DiskSound, Sound, RecordsWellFormed
<1> QED  BY <1>1, RecordInvariant, PTL

\* Whatever saves fail and whenever the process ends, what Open reads back is
\* the configuration state that was in memory.
THEOREM CrashRecovers == Spec => []RestartRecovers
<1>1. RecordInv => RestartRecovers
  BY DEF RecordInv, DurableInv, Recovers, RestartRecovers, Known
<1> QED  BY <1>1, RecordInvariant, PTL

-------------------------------------------------------------------------------
(* Keys *)

\* Of one device: what memory (m) and the file (s) hold, its queue (q), the key
\* it has (k), its informs (i, l) and the reply on its way (r).  Whatever could
\* change the device's key carries the key the transition leads to, and an
\* inform sent before the device changed its key is told by the key it has now.
KeyOK(m, s, q, k, i, l, r) ==
    /\ m.key # NoKey => k \in {m.key, m.next}
    /\ s.key # NoKey => k \in {s.key, s.next}
    /\ \A j \in 1..Len(q) : q[j].key \in {NoKey, TargetKey(m)}
    /\ r.key \in {NoKey, TargetKey(m)}
    /\ i.sent => i.key = k \/ k = TargetKey(m)
    /\ l.sent => l.key = k \/ k = TargetKey(m)

KeyInv ==
    \A d \in Device \ foreign :
       KeyOK(mem[d], disk[d], queue[d], devKey[d], inform[d], late[d], reply[d])

\* Memory and the file agree on the key the transition leads to.
LEMMA SameTarget ==
    ASSUME DurableInv, NEW d \in Device
    PROVE  /\ TargetKey(Migrate(disk[d])) = TargetKey(mem[d])
           /\ TargetKey(disk[d]) = TargetKey(mem[d])
           /\ Migrate(disk[d]).key = disk[d].key
           /\ Migrate(disk[d]).next = disk[d].next
           /\ Migrate(disk[d]).last = disk[d].last
<1>1. disk[d] \in DeviceRecord /\ Recovers(disk[d], mem[d])
  BY DEF DurableInv, DiskSound
<1>2. /\ Migrate(disk[d]).key = disk[d].key
      /\ Migrate(disk[d]).next = disk[d].next
      /\ Migrate(disk[d]).last = disk[d].last
  BY <1>1 DEF Migrate, DeviceRecord
<1> QED  BY <1>1, <1>2 DEF Recovers, TargetKey

\* A device has a target key exactly when it is registered.
LEMMA TargetKnown ==
    ASSUME NEW r, Sound(r)
    PROVE  /\ r.key = NoKey => TargetKey(r) = NoKey
           /\ r.key # NoKey => TargetKey(r) # NoKey
BY DEF Sound, WellFormed, TargetKey, Absent, NewDevice

\* A control operation that gives device d a record whose keys are in order
\* keeps the keys of all devices in order, for it saves all of memory.
LEMMA CommitKeys ==
    ASSUME DurableInv, KeyInv, NEW d \in Device, NEW new, NEW q,
           NEW saved \in BOOLEAN, Commit(d, new, saved),
           queue \in [Device -> Seq(Reply)],
           queue' = IF saved THEN [queue EXCEPT ![d] = q] ELSE queue,
           UNCHANGED <<devKey, inform, late, reply>>, foreign \subseteq foreign',
           saved /\ d \notin foreign' =>
              KeyOK(new, new, q, devKey[d], inform[d], late[d], reply[d])
    PROVE  KeyInv'
<1>1. CASE ~saved
  BY <1>1 DEF Commit, KeyInv
<1>2. CASE saved
  <2>1. mem' = [mem EXCEPT ![d] = new] /\ disk' = mem'
    BY <1>2 DEF Commit
  <2>2. SUFFICES ASSUME NEW e \in Device \ foreign'
                 PROVE  KeyOK(mem'[e], disk'[e], queue'[e], devKey[e],
                              inform[e], late[e], reply[e])
    BY DEF KeyInv
  <2>3. CASE e = d
    BY <1>2, <2>1, <2>3 DEF DurableInv, MemSound
  <2>4. CASE e # d
    <3>1. mem'[e] = mem[e] /\ disk'[e] = mem[e] /\ queue'[e] = queue[e]
      BY <1>2, <2>1, <2>4 DEF DurableInv, MemSound
    <3>2. KeyOK(mem[e], disk[e], queue[e], devKey[e], inform[e], late[e],
                reply[e])
      BY DEF KeyInv
    <3> QED  BY <3>1, <3>2 DEF KeyOK
  <2> QED  BY <2>3, <2>4
<1> QED  BY <1>1, <1>2

\* The same when only d's commands change.
LEMMA AppendKeys ==
    ASSUME NEW q \in Seq(Reply), NEW c \in Reply, NEW k,
           \A j \in 1..Len(q) : q[j].key \in {NoKey, k},
           c.key \in {NoKey, k}
    PROVE  \A j \in 1..Len(Append(q, c)) : Append(q, c)[j].key \in {NoKey, k}
OBVIOUS

LEMMA RegisterKeys ==
    ASSUME RecordInv, KeyInv, NEW d \in Device, NEW k \in Key,
           NEW saved \in BOOLEAN, Register(d, k, saved)
    PROVE  KeyInv'
<1> DEFINE new == IF Known(d) THEN [mem[d] EXCEPT !.key = k]
                              ELSE NewDevice(k, NoKey)
<1>1. /\ Commit(d, new, saved)
      /\ queue' = IF saved THEN [queue EXCEPT ![d] = queue[d]] ELSE queue
      /\ UNCHANGED <<devKey, inform, late, reply>>
      /\ foreign \subseteq foreign'
  BY DEF Register, Claim, devVars, RecordInv, VolatileTypes
<1>2. ASSUME saved, d \notin foreign'
      PROVE  KeyOK(new, new, queue[d], devKey[d], inform[d], late[d], reply[d])
  <2>1. KeyOK(mem[d], disk[d], queue[d], devKey[d], inform[d], late[d],
              reply[d])
    BY <1>1, <1>2 DEF KeyInv
  <2>2. Sound(mem[d]) /\ mem[d] \in DeviceRecord /\ devKey[d] \in Key
    BY DEF RecordInv, DurableInv, MemSound, DeviceTypes
  <2>3. CASE Known(d)
    <3>1. k = mem[d].key
      BY <1>2, <2>3 DEF Register, Claim
    <3>2. new.key = mem[d].key /\ new.next = mem[d].next
      BY <2>2, <2>3, <3>1 DEF DeviceRecord
    <3> HIDE DEF new
    <3> QED  BY <2>1, <2>3, <3>2 DEF KeyOK, TargetKey, Known
  <2>4. CASE ~Known(d)
    <3>1. k = devKey[d]
      BY <1>2, <2>4 DEF Register, Claim
    <3>2. new.key = k /\ new.next = NoKey
      BY <2>4 DEF NewDevice
    <3>3. TargetKey(mem[d]) = NoKey
      BY <2>2, <2>4, TargetKnown DEF Known
    <3> HIDE DEF new
    <3> QED  BY <2>1, <2>2, <3>1, <3>2, <3>3, ConstantsAssumption
                DEF KeyOK, TargetKey
  <2> QED  BY <2>3, <2>4
<1> HIDE DEF new
<1> QED  BY <1>1, <1>2, CommitKeys DEF RecordInv, VolatileTypes

LEMMA AdoptKeys ==
    ASSUME RecordInv, KeyInv, NEW d \in Device, NEW n \in Key,
           NEW saved \in BOOLEAN, Adopt(d, n, saved)
    PROVE  KeyInv'
<1> DEFINE dev      == IF Known(d) THEN mem[d] ELSE NewDevice(DefaultKey, n)
           template == Setparam(TargetKey(dev), AdoptVersion)
           new      == RawSubmitted(dev, template)
<1>1. /\ Commit(d, new, saved)
      /\ queue' = IF saved THEN [queue EXCEPT ![d] = <<template>>] ELSE queue
      /\ UNCHANGED <<devKey, inform, late, reply>>
      /\ foreign \subseteq foreign'
  BY DEF Adopt, Claim, devVars
<1>2. dev \in DeviceRecord /\ dev.key # NoKey
  BY NewDeviceSound, ConstantsAssumption
     DEF RecordInv, DurableInv, MemSound, Known, Key0, Sound, NewDevice
<1>3. /\ new.key = dev.key /\ new.next = dev.next
      /\ \A j \in 1..Len(<<template>>) : <<template>>[j].key = TargetKey(dev)
  <2> HIDE DEF dev
  <2> QED  BY <1>2 DEF RawSubmitted, Setparam, DeviceRecord
<1>4. ASSUME saved, d \notin foreign'
      PROVE  KeyOK(new, new, <<template>>, devKey[d], inform[d], late[d],
                   reply[d])
  <2>1. KeyOK(mem[d], disk[d], queue[d], devKey[d], inform[d], late[d],
              reply[d])
    BY <1>1, <1>4 DEF KeyInv
  <2>2. Sound(mem[d]) /\ devKey[d] \in Key
    BY DEF RecordInv, DurableInv, MemSound, DeviceTypes
  <2>3. TargetKey(new) = TargetKey(dev)
    <3> HIDE DEF dev, new
    <3> QED  BY <1>3 DEF TargetKey
  <2>4. CASE Known(d)
    <3>1. dev = mem[d]
      BY <2>4
    <3> HIDE DEF dev, template, new
    <3> QED  BY <1>3, <2>1, <2>3, <2>4, <3>1 DEF KeyOK, Known
  <2>5. CASE ~Known(d)
    <3>1. devKey[d] = DefaultKey
      BY <1>4, <2>5 DEF Adopt, Claim
    <3>2. dev.key = DefaultKey
      BY <2>5 DEF NewDevice
    <3>3. TargetKey(mem[d]) = NoKey
      BY <2>2, <2>5, TargetKnown DEF Known
    <3> HIDE DEF dev, template, new
    <3> QED  BY <1>3, <2>1, <2>2, <2>3, <3>1, <3>2, <3>3, ConstantsAssumption
                DEF KeyOK
  <2> QED  BY <2>4, <2>5
<1> HIDE DEF dev, template, new
<1> QED  BY <1>1, <1>4, CommitKeys DEF RecordInv, VolatileTypes

\* A record with the keys of the one in memory.
LEMMA SameKeysOK ==
    ASSUME NEW m, NEW s, NEW q, NEW k, NEW i, NEW l, NEW r, NEW new, NEW q2,
           KeyOK(m, s, q, k, i, l, r), new.key = m.key, new.next = m.next,
           \A j \in 1..Len(q2) : q2[j].key \in {NoKey, TargetKey(m)}
    PROVE  KeyOK(new, new, q2, k, i, l, r)
BY DEF KeyOK, TargetKey

LEMMA QueueSetparamKeys ==
    ASSUME RecordInv, KeyInv, NEW d \in Device, NEW c \in RawReplies,
           NEW saved \in BOOLEAN, QueueSetparam(d, c, saved)
    PROVE  KeyInv'
<1> DEFINE new == RawSubmitted(mem[d], c)
           q   == Append(queue[d], c)
<1>1. /\ Commit(d, new, saved)
      /\ queue' = IF saved THEN [queue EXCEPT ![d] = q] ELSE queue
      /\ UNCHANGED <<devKey, inform, late, reply>>
      /\ foreign \subseteq foreign'
  BY DEF QueueSetparam, Claim, devVars, RecordInv, VolatileTypes
<1>2. c \in Reply /\ queue[d] \in Seq(Reply)
  BY ReplyTypes DEF RawReplies, RecordInv, VolatileTypes, Version0
<1>3. new.key = mem[d].key /\ new.next = mem[d].next
  BY DEF RecordInv, DurableInv, MemSound, RawSubmitted, DeviceRecord
<1>4. ASSUME saved, d \notin foreign'
      PROVE  KeyOK(new, new, q, devKey[d], inform[d], late[d], reply[d])
  <2>1. KeyOK(mem[d], disk[d], queue[d], devKey[d], inform[d], late[d],
              reply[d])
    BY <1>1, <1>4 DEF KeyInv
  <2>2. c.key \in {NoKey, TargetKey(mem[d])}
    BY <1>4 DEF QueueSetparam, Claim
  <2>3. \A j \in 1..Len(q) : q[j].key \in {NoKey, TargetKey(mem[d])}
    BY <1>2, <2>1, <2>2, AppendKeys DEF KeyOK
  <2> HIDE DEF new, q
  <2> QED  BY <1>3, <2>1, <2>3, SameKeysOK
<1> HIDE DEF new, q
<1> QED  BY <1>1, <1>4, CommitKeys DEF RecordInv, VolatileTypes

LEMMA QueueCommandKeys ==
    ASSUME RecordInv, KeyInv, NEW d \in Device, NEW c \in RawCommands,
           QueueCommand(d, c)
    PROVE  KeyInv'
<1>1. c \in Reply /\ queue[d] \in Seq(Reply)
  BY ReplyTypes DEF RawCommands, Key0, RecordInv, VolatileTypes
<1>2. SUFFICES ASSUME NEW e \in Device \ foreign'
               PROVE  KeyOK(mem[e], disk[e], queue'[e], devKey[e], inform[e],
                            late[e], reply[e])
  BY DEF QueueCommand, KeyInv, devVars
<1>3. KeyOK(mem[e], disk[e], queue[e], devKey[e], inform[e], late[e], reply[e])
  BY DEF QueueCommand, Claim, KeyInv
<1>4. CASE e = d
  <2>1. queue'[d] = Append(queue[d], c)
    BY DEF QueueCommand, RecordInv, VolatileTypes
  <2>2. c.key \in {NoKey, TargetKey(mem[d])}
    BY <1>4 DEF QueueCommand, Claim
  <2> QED  BY <1>1, <1>3, <1>4, <2>1, <2>2, AppendKeys DEF KeyOK
<1>5. CASE e # d
  <2>1. queue'[e] = queue[e]
    BY <1>5 DEF QueueCommand, RecordInv, VolatileTypes
  <2> QED  BY <1>3, <2>1
<1> QED  BY <1>4, <1>5

LEMMA CommitCompiledKeys ==
    ASSUME RecordInv, KeyInv, NEW d \in Device, NEW f \in Family,
           NEW v \in Version, NEW saved \in BOOLEAN, mem[d].next = NoKey,
           CommitCompiled(d, f, v, saved)
    PROVE  KeyInv'
<1> DEFINE command == Setparam(mem[d].key, v)
           new == [mem[d] EXCEPT !.family = f, !.desired = v,
                      !.last = command, !.base = v, !.typed = TRUE]
           q == IF report[d].ver # v THEN Append(queue[d], command)
                                     ELSE queue[d]
<1>1. /\ Commit(d, new, saved)
      /\ queue' = IF saved THEN [queue EXCEPT ![d] = q] ELSE queue
      /\ UNCHANGED <<devKey, inform, late, reply>>
      /\ foreign \subseteq foreign'
  BY DEF CommitCompiled, devVars, RecordInv, VolatileTypes
<1>2. command \in Reply /\ queue[d] \in Seq(Reply)
  BY ReplyTypes
     DEF RecordInv, VolatileTypes, DurableInv, MemSound, DeviceRecord, Version0
<1>3. new.key = mem[d].key /\ new.next = mem[d].next
  BY DEF RecordInv, DurableInv, MemSound, DeviceRecord
<1>4. command.key = TargetKey(mem[d])
  BY DEF Setparam, TargetKey
<1>5. ASSUME saved, d \notin foreign'
      PROVE  KeyOK(new, new, q, devKey[d], inform[d], late[d], reply[d])
  <2>1. KeyOK(mem[d], disk[d], queue[d], devKey[d], inform[d], late[d],
              reply[d])
    BY <1>1, <1>5 DEF KeyInv
  <2>2. \A j \in 1..Len(q) : q[j].key \in {NoKey, TargetKey(mem[d])}
    <3> HIDE DEF command
    <3> QED  BY <1>2, <1>4, <2>1, AppendKeys DEF KeyOK
  <2> HIDE DEF command, new, q
  <2> QED  BY <1>3, <2>1, <2>2, SameKeysOK
<1> HIDE DEF command, new, q
<1> QED  BY <1>1, <1>5, CommitKeys DEF RecordInv, VolatileTypes

LEMMA ImportBaselineKeys ==
    ASSUME RecordInv, KeyInv, NEW d \in Device, NEW v \in Version,
           NEW typed \in BOOLEAN, NEW saved \in BOOLEAN,
           ImportBaseline(d, v, typed, saved)
    PROVE  KeyInv'
<1> DEFINE new == [mem[d] EXCEPT !.base = v, !.typed = typed, !.desired = v]
<1>1. /\ Commit(d, new, saved)
      /\ queue' = IF saved THEN [queue EXCEPT ![d] = queue[d]] ELSE queue
      /\ UNCHANGED <<devKey, inform, late, reply>>
      /\ foreign' = foreign
  BY DEF ImportBaseline, devVars, RecordInv, VolatileTypes
<1>2. new.key = mem[d].key /\ new.next = mem[d].next
  BY DEF RecordInv, DurableInv, MemSound, DeviceRecord
<1>3. ASSUME d \notin foreign'
      PROVE  KeyOK(new, new, queue[d], devKey[d], inform[d], late[d], reply[d])
  <2>1. KeyOK(mem[d], disk[d], queue[d], devKey[d], inform[d], late[d],
              reply[d])
    BY <1>1, <1>3 DEF KeyInv
  <2>2. \A j \in 1..Len(queue[d]) :
           queue[d][j].key \in {NoKey, TargetKey(mem[d])}
    BY <2>1 DEF KeyOK
  <2> HIDE DEF new
  <2> QED  BY <1>2, <2>1, <2>2, SameKeysOK
<1> HIDE DEF new
<1> QED  BY <1>1, <1>3, CommitKeys DEF RecordInv, VolatileTypes

LEMMA OperateKeys ==
    ASSUME RecordInv, KeyInv, NEW d \in Device, NEW saved \in BOOLEAN,
           Operate(d, saved)
    PROVE  KeyInv'
<1>1. ASSUME NEW f \in Family, NEW r \in Request,
             \/ Apply(d, f, r, saved)
             \/ Mutate(d, f, r, saved)
             \/ \E p \in previews : ApplyPreviewed(d, f, r, p, saved)
      PROVE  KeyInv'
  <2>1. Compilable(d, f) /\ CommitCompiled(d, f, Compile(mem[d].base, r), saved)
    BY <1>1 DEF Apply, Mutate, Mutable, ApplyPreviewed
  <2> QED  BY <2>1, CompilableBase, CommitCompiledKeys
<1>2. ASSUME NEW f \in Family, NEW r \in Request, NEW t \in Token,
             TakePreview(d, f, r, t)
      PROVE  KeyInv'
  BY <1>2 DEF TakePreview, KeyInv, devVars
<1> QED
  BY <1>1, <1>2, RegisterKeys, AdoptKeys, QueueSetparamKeys, QueueCommandKeys,
     ImportBaselineKeys
     DEF Operate

\* An inform that arrives was sent under the device's present key, or under
\* the one before it when the device has already taken the assigned key.
LEMMA ArrivedKey ==
    ASSUME KeyInv, NEW d \in Device \ foreign, NEW live \in BOOLEAN,
           Taken(d, live)
    PROVE  \/ Arrived(d, live).key = devKey[d]
           \/ devKey[d] = TargetKey(mem[d])
BY DEF KeyInv, KeyOK, Taken, Arrived

\* What an inform leaves of the device in memory and in the file, and of its
\* queue and reply, keeps the keys in order.
LEMMA InformKeys ==
    ASSUME RecordInv, KeyInv, NEW d \in Device, NEW live \in BOOLEAN,
           Taken(d, live), NEW new, NEW q, NEW a,
           mem' = [mem EXCEPT ![d] = new],
           \A e \in Device : \/ disk'[e] = disk[e] \/ disk'[e] = mem'[e]
                             \/ disk'[e].key = mem[e].key
                                   /\ disk'[e].next = mem[e].next,
           queue' = [queue EXCEPT ![d] = q],
           reply' = [reply EXCEPT ![d] = a],
           UNCHANGED <<devKey, foreign>>,
           TargetKey(new) = TargetKey(mem[d]),
           new.key # NoKey => mem[d].key # NoKey,
           d \notin foreign /\ new.key # NoKey => devKey[d] \in {new.key, new.next},
           d \notin foreign => a.key \in {NoKey, TargetKey(mem[d])},
           d \notin foreign =>
              \A j \in 1..Len(q) : q[j].key \in {NoKey, TargetKey(mem[d])}
    PROVE  KeyInv'
<1>1. SUFFICES ASSUME NEW e \in Device \ foreign
               PROVE  KeyOK(mem'[e], disk'[e], queue'[e], devKey[e],
                            inform'[e], late'[e], reply'[e])
  BY DEF KeyInv
<1>2. KeyOK(mem[e], disk[e], queue[e], devKey[e], inform[e], late[e], reply[e])
  BY DEF KeyInv
<1>3. /\ inform'[e].sent => inform'[e] = inform[e]
      /\ late'[e].sent => late'[e] = late[e]
  BY DEF Taken, RecordInv, DeviceTypes, NoInform
<1>4. CASE e = d
  <2>1. mem'[e] = new /\ queue'[e] = q /\ reply'[e] = a
    BY <1>4 DEF RecordInv, DurableInv, MemSound, VolatileTypes, DeviceTypes
  <2>2. \/ disk'[e] = disk[e] \/ disk'[e] = new
        \/ disk'[e].key = mem[e].key /\ disk'[e].next = mem[e].next
    BY <2>1
  <2> QED  BY <1>2, <1>3, <1>4, <2>1, <2>2 DEF KeyOK
<1>5. CASE e # d
  <2>1. mem'[e] = mem[e] /\ queue'[e] = queue[e] /\ reply'[e] = reply[e]
    BY <1>5 DEF RecordInv, DurableInv, MemSound, VolatileTypes, DeviceTypes
  <2>2. \/ disk'[e] = disk[e] \/ disk'[e] = mem[e]
        \/ disk'[e].key = mem[e].key /\ disk'[e].next = mem[e].next
    BY <2>1
  <2> QED  BY <1>2, <1>3, <2>1, <2>2 DEF KeyOK
<1> QED  BY <1>4, <1>5

\* The record an inform leaves in memory: the same target key, and the
\* device's key among its keys.
LEMMA InformedRecordKeys ==
    ASSUME RecordInv, KeyInv, NEW d \in Device, NEW live \in BOOLEAN,
           Taken(d, live), Known(d), Decodes(d, Arrived(d, live))
    PROVE  LET m   == Arrived(d, live)
               new == Informed(d, m)
           IN  /\ TargetKey(new) = TargetKey(mem[d])
               /\ d \notin foreign => devKey[d] \in {new.key, new.next}
               /\ Described(d, m).key = mem[d].key
               /\ Described(d, m).next = mem[d].next
<1> DEFINE m   == Arrived(d, live)
           r   == Described(d, m)
           new == Informed(d, m)
<1>1. m.family \in Family0
  BY TakenTypes DEF Inform
<1>2. Sound(r) /\ r.key = mem[d].key /\ r.next = mem[d].next
  BY <1>1, DescribedRecord DEF RecordInv, DurableInv
<1>3. d \notin foreign => /\ devKey[d] \in {mem[d].key, mem[d].next}
                          /\ m.key = devKey[d] \/ devKey[d] = TargetKey(mem[d])
  BY ArrivedKey DEF KeyInv, KeyOK, Known
<1>4. CASE Completes(d, m)
  <2>1. mem[d].next # NoKey /\ m.key = mem[d].next
    BY <1>4, DecodesAssigned DEF RecordInv, DurableInv
  <2>2. new = Adopted(r)
    BY <1>4 DEF Informed
  <2>3. new.key = mem[d].next /\ new.next = NoKey
    <3> HIDE DEF r
    <3> QED  BY <1>2, <2>2 DEF Adopted, Sound, DeviceRecord
  <2> HIDE DEF m, r, new
  <2> QED  BY <1>2, <1>3, <2>1, <2>3 DEF TargetKey, m, r, new
<1>5. CASE ~Completes(d, m)
  <2>1. new = r
    BY <1>5 DEF Informed
  <2> HIDE DEF m, r, new
  <2> QED  BY <1>2, <1>3, <2>1 DEF TargetKey, m, r, new
<1> QED  BY <1>4, <1>5

LEMMA InformUnsavedKeys ==
    ASSUME RecordInv, KeyInv, NEW d \in Device, NEW live \in BOOLEAN,
           InformUnsaved(d, live)
    PROVE  KeyInv'
<1> DEFINE m == Arrived(d, live)
           r == Described(d, m)
<1>1. Taken(d, live) /\ Known(d) /\ Decodes(d, m)
  BY DEF InformUnsaved
<1>2. r.key = mem[d].key /\ r.next = mem[d].next
  BY <1>1, InformedRecordKeys
<1>3. /\ mem' = [mem EXCEPT ![d] = r] /\ disk' = disk
      /\ queue' = [queue EXCEPT ![d] = queue[d]]
      /\ reply' = [reply EXCEPT ![d] = reply[d]]
      /\ UNCHANGED <<devKey, foreign>>
  BY DEF InformUnsaved, RecordInv, VolatileTypes, DeviceTypes
<1>4. d \notin foreign =>
         /\ devKey[d] \in {mem[d].key, mem[d].next}
         /\ reply[d].key \in {NoKey, TargetKey(mem[d])}
         /\ \A j \in 1..Len(queue[d]) :
               queue[d][j].key \in {NoKey, TargetKey(mem[d])}
  BY <1>1 DEF KeyInv, KeyOK, Known
<1>5. TargetKey(r) = TargetKey(mem[d])
  <2> HIDE DEF r
  <2> QED  BY <1>2 DEF TargetKey
<1> HIDE DEF m, r
<1> QED  BY <1>1, <1>2, <1>3, <1>4, <1>5, InformKeys

LEMMA InformUnadoptedKeys ==
    ASSUME RecordInv, KeyInv, NEW d \in Device, NEW live \in BOOLEAN,
           InformUnadopted(d, live)
    PROVE  KeyInv'
<1> DEFINE m   == Arrived(d, live)
           new == Informed(d, m)
<1>1. Taken(d, live) /\ Known(d) /\ Decodes(d, m) /\ Completes(d, m)
  BY DEF InformUnadopted
<1>2. /\ TargetKey(new) = TargetKey(mem[d])
      /\ d \notin foreign => devKey[d] \in {new.key, new.next}
      /\ Described(d, m).key = mem[d].key
      /\ Described(d, m).next = mem[d].next
  BY <1>1, InformedRecordKeys
<1>3. /\ mem' = [mem EXCEPT ![d] = new]
      /\ queue' = [queue EXCEPT ![d] = queue[d]]
      /\ reply' = [reply EXCEPT ![d] = reply[d]]
      /\ UNCHANGED <<devKey, foreign>>
  BY <1>1 DEF InformUnadopted, Informed, RecordInv, VolatileTypes, DeviceTypes
<1>4. disk' = IF Describes(d, m) THEN [mem EXCEPT ![d] = Described(d, m)]
                                 ELSE disk
  BY DEF InformUnadopted
<1>5. \A e \in Device : \/ disk'[e] = disk[e] \/ disk'[e] = mem'[e]
                        \/ disk'[e].key = mem[e].key
                              /\ disk'[e].next = mem[e].next
  <2> HIDE DEF m, new
  <2> QED  BY <1>2, <1>4 DEF RecordInv, DurableInv, MemSound
<1>6. d \notin foreign =>
         /\ reply[d].key \in {NoKey, TargetKey(mem[d])}
         /\ \A j \in 1..Len(queue[d]) :
               queue[d][j].key \in {NoKey, TargetKey(mem[d])}
  BY DEF KeyInv, KeyOK
<1>7. mem[d].key # NoKey
  BY <1>1 DEF Known
<1> HIDE DEF m, new
<1> QED  BY <1>1, <1>2, <1>3, <1>5, <1>6, <1>7, InformKeys

LEMMA InformAnsweredKeys ==
    ASSUME RecordInv, KeyInv, NEW d \in Device, NEW live \in BOOLEAN,
           NEW wrote \in BOOLEAN, InformAnswered(d, live, wrote)
    PROVE  KeyInv'
<1> DEFINE m   == Arrived(d, live)
           new == Informed(d, m)
           q   == IF wrote /\ ~Transitioning(d, m) /\ queue[d] # <<>>
                  THEN Tail(queue[d]) ELSE queue[d]
           a   == IF wrote /\ live THEN Answer(d, m) ELSE reply[d]
<1>1. Taken(d, live) /\ Known(d) /\ Decodes(d, m) /\ queue[d] \in Seq(Reply)
  BY DEF InformAnswered, RecordInv, VolatileTypes
<1>2. /\ TargetKey(new) = TargetKey(mem[d])
      /\ d \notin foreign => devKey[d] \in {new.key, new.next}
  BY <1>1, InformedRecordKeys
<1>3. /\ mem' = [mem EXCEPT ![d] = new]
      /\ queue' = [queue EXCEPT ![d] = q]
      /\ reply' = [reply EXCEPT ![d] = a]
      /\ UNCHANGED <<devKey, foreign>>
  BY DEF InformAnswered, Informed, RecordInv, VolatileTypes, DeviceTypes
<1>4. disk' = IF Describes(d, m) \/ Completes(d, m) THEN mem' ELSE disk
  BY DEF InformAnswered
<1>5. ASSUME d \notin foreign
      PROVE  /\ a.key \in {NoKey, TargetKey(mem[d])}
             /\ \A j \in 1..Len(q) : q[j].key \in {NoKey, TargetKey(mem[d])}
  <2>1. /\ reply[d].key \in {NoKey, TargetKey(mem[d])}
        /\ \A j \in 1..Len(queue[d]) :
              queue[d][j].key \in {NoKey, TargetKey(mem[d])}
    BY <1>5 DEF KeyInv, KeyOK
  <2>2. Answer(d, m).key \in {NoKey, TargetKey(mem[d])}
    <3>1. CASE Transitioning(d, m)
      BY <3>1 DEF Answer, Transitioning, SetAdopt, TargetKey
    <3>2. CASE ~Transitioning(d, m) /\ queue[d] # <<>>
      BY <1>1, <2>1, <3>2 DEF Answer
    <3>3. CASE ~Transitioning(d, m) /\ queue[d] = <<>>
      BY <3>3 DEF Answer, NoReply
    <3> QED  BY <3>1, <3>2, <3>3
  <2>3. \A j \in 1..Len(q) : q[j].key \in {NoKey, TargetKey(mem[d])}
    BY <1>1, <2>1
  <2> QED  BY <2>1, <2>2, <2>3
<1>6. mem[d].key # NoKey
  BY <1>1 DEF Known
<1> HIDE DEF m, new, q, a
<1> QED  BY <1>1, <1>2, <1>3, <1>4, <1>5, <1>6, InformKeys

LEMMA ServeKeys ==
    ASSUME RecordInv, KeyInv, NEW d \in Device, NEW live \in BOOLEAN,
           Serve(d, live)
    PROVE  KeyInv'
<1>1. ASSUME InformRefused(d, live) PROVE KeyInv'
  <2>1. \A e \in Device : /\ inform'[e].sent => inform'[e] = inform[e]
                          /\ late'[e].sent => late'[e] = late[e]
    BY <1>1 DEF InformRefused, Taken, RecordInv, DeviceTypes, NoInform
  <2> QED  BY <1>1, <2>1 DEF InformRefused, ctlVars, KeyInv, KeyOK
<1> QED
  BY <1>1, InformUnsavedKeys, InformUnadoptedKeys, InformAnsweredKeys DEF Serve

LEMMA ReceiveReplyKeys ==
    ASSUME RecordInv, KeyInv, NEW d \in Device, ReceiveReply(d)
    PROVE  KeyInv'
<1>1. SUFFICES ASSUME NEW e \in Device \ foreign
               PROVE  KeyOK(mem[e], disk[e], queue[e], devKey'[e], inform[e],
                            late[e], reply'[e])
  BY DEF ReceiveReply, ctlVars, KeyInv
<1>2. KeyOK(mem[e], disk[e], queue[e], devKey[e], inform[e], late[e], reply[e])
  BY DEF KeyInv
<1>3. TargetKey(disk[e]) = TargetKey(mem[e])
  BY SameTarget DEF RecordInv
<1>4. \/ devKey'[e] = devKey[e]
      \/ devKey'[e] = TargetKey(mem[e])
  BY <1>2 DEF ReceiveReply, RecordInv, DeviceTypes, KeyOK
<1>5. reply'[e].key \in {NoKey, TargetKey(mem[e])}
  BY <1>2 DEF ReceiveReply, RecordInv, DeviceTypes, KeyOK, NoReply
<1> QED  BY <1>2, <1>3, <1>4, <1>5 DEF KeyOK, TargetKey

LEMMA EnvironmentKeys ==
    ASSUME RecordInv, KeyInv, NEW d \in Device, Environment(d)
    PROVE  KeyInv'
<1> USE DEF RecordInv, DeviceTypes, ctlVars, KeyInv, KeyOK
<1>1. ASSUME NEW f \in Evidence, SendInform(d, f) PROVE KeyInv'
  BY <1>1 DEF SendInform
<1>2. ASSUME GiveUpInform(d) PROVE KeyInv'
  BY <1>2 DEF GiveUpInform, NoInform
<1>3. ASSUME LoseReply(d) PROVE KeyInv'
  BY <1>3 DEF LoseReply, NoReply
<1>4. ASSUME NEW v \in Version, Drift(d, v) PROVE KeyInv'
  BY <1>4 DEF Drift
<1> QED  BY <1>1, <1>2, <1>3, <1>4, ReceiveReplyKeys DEF Environment

LEMMA RestartKeys ==
    ASSUME RecordInv, KeyInv, Restart
    PROVE  KeyInv'
<1>1. SUFFICES ASSUME NEW d \in Device \ foreign
               PROVE  KeyOK(mem'[d], disk[d], <<>>, devKey[d], NoInform,
                            NoInform, reply[d])
  BY DEF Restart, KeyInv
<1>2. KeyOK(mem[d], disk[d], queue[d], devKey[d], inform[d], late[d], reply[d])
  BY DEF KeyInv
<1>3. /\ mem'[d] = Migrate(disk[d])
      /\ TargetKey(mem'[d]) = TargetKey(mem[d])
      /\ mem'[d].key = disk[d].key /\ mem'[d].next = disk[d].next
  BY SameTarget DEF Restart, Open, RecordInv
<1> QED  BY <1>2, <1>3 DEF KeyOK, NoInform

LEMMA KeyInvInit ==
    ASSUME Init
    PROVE  KeyInv
<1>1. DurableInv
  BY RecordInvInit DEF RecordInv
<1>2. \A d \in Device : mem[d].key = disk[d].key /\ mem[d].next = disk[d].next
  BY <1>1, SameTarget DEF Init, Open
<1> QED  BY <1>2 DEF Init, KeyInv, KeyOK, NoInform, NoReply

LEMMA KeyInvStep ==
    ASSUME RecordInv, KeyInv, [Next]_vars
    PROVE  KeyInv'
<1>1. CASE Next
  <2>1. SaveOutcome \subseteq BOOLEAN
    BY DEF SaveOutcome
  <2>2. ASSUME NEW p, ExpirePreview(p) PROVE KeyInv'
    BY <2>2 DEF ExpirePreview, devVars, KeyInv
  <2> QED
    BY <1>1, <2>1, <2>2, OperateKeys, ServeKeys, EnvironmentKeys, RestartKeys
       DEF Next
<1>2. CASE UNCHANGED vars
  BY <1>2 DEF vars, ctlVars, devVars, KeyInv
<1> QED  BY <1>1, <1>2

\* However adoption, replies, late informs, failed saves and restarts
\* interleave, no device whose keys this controller manages is stranded with a
\* key that neither memory nor the state file has.
THEOREM KeysStayReachable == Spec => []KeyReachable
<1>1. KeyInv => KeyReachable
  BY DEF KeyInv, KeyOK, KeyReachable, Known
<1>2. Spec => []KeyInv
  BY KeyInvInit, KeyInvStep, RecordInvariant, PTL DEF Spec
<1> QED  BY <1>1, <1>2, PTL

-------------------------------------------------------------------------------
(* Queues *)

\* Only a registered device has commands, and the newest configuration among
\* them is the last submitted one.
QueueOK(m, q) ==
    /\ m.key = NoKey => q = <<>>
    /\ \A i \in 1..Len(q) : Newest(q, i) => q[i] = m.last

QueueInv == \A d \in Device : QueueOK(mem[d], queue[d])

LEMMA AppendNewest ==
    ASSUME NEW q \in Seq(Reply), NEW c \in Reply, IsSetparam(c),
           NEW m, m.key # NoKey, m.last = c
    PROVE  QueueOK(m, Append(q, c))
<1> DEFINE s == Append(q, c)
<1>1. Len(s) = Len(q) + 1 /\ s[Len(s)] = c /\ Len(q) \in Nat
  OBVIOUS
<1>2. \A i \in 1..Len(s) : Newest(s, i) => i = Len(s)
  <2> HIDE DEF s
  <2> QED  BY <1>1 DEF Newest
<1> HIDE DEF s
<1> QED  BY <1>1, <1>2 DEF QueueOK, s

LEMMA AppendOther ==
    ASSUME NEW q \in Seq(Reply), NEW c \in Reply, ~IsSetparam(c),
           NEW m, m.key # NoKey, QueueOK(m, q)
    PROVE  QueueOK(m, Append(q, c))
<1> DEFINE s == Append(q, c)
<1>1. /\ Len(s) = Len(q) + 1 /\ s[Len(s)] = c /\ Len(q) \in Nat
      /\ \A i \in 1..Len(q) : s[i] = q[i]
  OBVIOUS
<1>2. ASSUME NEW i \in 1..Len(s), Newest(s, i)
      PROVE  i \in 1..Len(q) /\ Newest(q, i)
  <2> HIDE DEF s
  <2> QED  BY <1>1, <1>2 DEF Newest
<1> HIDE DEF s
<1> QED  BY <1>1, <1>2 DEF QueueOK, s

LEMMA TailKeeps ==
    ASSUME NEW q \in Seq(Reply), q # <<>>, NEW m, QueueOK(m, q)
    PROVE  QueueOK(m, Tail(q))
<1> DEFINE s == Tail(q)
<1>1. /\ Len(q) = Len(s) + 1 /\ Len(s) \in Nat
      /\ \A i \in 1..Len(s) : s[i] = q[i + 1]
  OBVIOUS
<1>2. ASSUME NEW i \in 1..Len(s), Newest(s, i)
      PROVE  i + 1 \in 1..Len(q) /\ Newest(q, i + 1)
  <2>1. \A j \in 1..Len(q) : j > i + 1 => j - 1 \in 1..Len(s) /\ j - 1 > i
                                          /\ q[j] = s[j - 1]
    <3> HIDE DEF s
    <3> QED  BY <1>1, <1>2
  <2> HIDE DEF s
  <2> QED  BY <1>1, <1>2, <2>1 DEF Newest
<1> HIDE DEF s
<1> QED  BY <1>1, <1>2 DEF QueueOK, s

\* One device's record and queue change together, or nothing changes.
LEMMA CommitQueues ==
    ASSUME RecordInv, QueueInv, NEW d \in Device, NEW new, NEW q,
           NEW saved \in BOOLEAN, Commit(d, new, saved),
           queue' = IF saved THEN [queue EXCEPT ![d] = q] ELSE queue,
           saved => QueueOK(new, q)
    PROVE  QueueInv'
<1>1. CASE saved
  <2>1. mem' = [mem EXCEPT ![d] = new] /\ queue' = [queue EXCEPT ![d] = q]
    BY <1>1 DEF Commit
  <2> QED
    BY <1>1, <2>1 DEF QueueInv, RecordInv, DurableInv, MemSound, VolatileTypes
<1>2. CASE ~saved
  BY <1>2 DEF Commit, QueueInv
<1> QED  BY <1>1, <1>2

LEMMA RegisterQueues ==
    ASSUME RecordInv, QueueInv, NEW d \in Device, NEW k \in Key,
           NEW saved \in BOOLEAN, Register(d, k, saved)
    PROVE  QueueInv'
<1> DEFINE new == IF Known(d) THEN [mem[d] EXCEPT !.key = k]
                              ELSE NewDevice(k, NoKey)
<1>1. /\ Commit(d, new, saved)
      /\ queue' = IF saved THEN [queue EXCEPT ![d] = queue[d]] ELSE queue
  BY DEF Register, RecordInv, VolatileTypes
<1>2. QueueOK(mem[d], queue[d]) /\ mem[d] \in DeviceRecord
  BY DEF QueueInv, RecordInv, DurableInv, MemSound
<1>3. QueueOK(new, queue[d])
  <2>1. CASE Known(d)
    <3>1. new.last = mem[d].last /\ new.key = k
      BY <1>2, <2>1 DEF DeviceRecord
    <3> HIDE DEF new
    <3> QED  BY <1>2, <2>1, <3>1, ConstantsAssumption DEF QueueOK, Known
  <2>2. CASE ~Known(d)
    BY <1>2, <2>2 DEF QueueOK, Known
  <2> QED  BY <2>1, <2>2
<1> HIDE DEF new
<1> QED  BY <1>1, <1>3, CommitQueues

LEMMA AdoptQueues ==
    ASSUME RecordInv, QueueInv, NEW d \in Device, NEW n \in Key,
           NEW saved \in BOOLEAN, Adopt(d, n, saved)
    PROVE  QueueInv'
<1> DEFINE dev      == IF Known(d) THEN mem[d] ELSE NewDevice(DefaultKey, n)
           template == Setparam(TargetKey(dev), AdoptVersion)
           new      == RawSubmitted(dev, template)
<1>1. /\ Commit(d, new, saved)
      /\ queue' = IF saved THEN [queue EXCEPT ![d] = <<template>>] ELSE queue
  BY DEF Adopt
<1>2. dev \in DeviceRecord /\ dev.key # NoKey
  BY NewDeviceSound, ConstantsAssumption
     DEF RecordInv, DurableInv, MemSound, Known, Key0, Sound, NewDevice
<1>3. new.key = dev.key /\ new.last = template
  <2> HIDE DEF dev, template
  <2> QED  BY <1>2 DEF RawSubmitted, DeviceRecord
<1>4. QueueOK(new, <<template>>)
  <2> HIDE DEF dev, template, new
  <2> QED  BY <1>2, <1>3 DEF QueueOK
<1> HIDE DEF dev, template, new
<1> QED  BY <1>1, <1>4, CommitQueues

LEMMA QueueSetparamQueues ==
    ASSUME RecordInv, QueueInv, NEW d \in Device, NEW c \in RawReplies,
           NEW saved \in BOOLEAN, QueueSetparam(d, c, saved)
    PROVE  QueueInv'
<1> DEFINE new == RawSubmitted(mem[d], c)
           q   == Append(queue[d], c)
<1>1. /\ Commit(d, new, saved)
      /\ queue' = IF saved THEN [queue EXCEPT ![d] = q] ELSE queue
  BY DEF QueueSetparam, RecordInv, VolatileTypes
<1>2. c \in Reply /\ queue[d] \in Seq(Reply)
  BY ReplyTypes DEF RawReplies, RecordInv, VolatileTypes, Version0
<1>3. IsSetparam(c)
  BY DEF RawReplies, Setparam, IsSetparam
<1>4. new.key # NoKey /\ new.last = c
  BY DEF QueueSetparam, Known, RecordInv, DurableInv, MemSound, RawSubmitted,
         DeviceRecord
<1>5. QueueOK(new, q)
  <2> HIDE DEF new
  <2> QED  BY <1>2, <1>3, <1>4, AppendNewest
<1> HIDE DEF new, q
<1> QED  BY <1>1, <1>5, CommitQueues

LEMMA QueueCommandQueues ==
    ASSUME RecordInv, QueueInv, NEW d \in Device, NEW c \in RawCommands,
           QueueCommand(d, c)
    PROVE  QueueInv'
<1>1. c \in Reply /\ queue[d] \in Seq(Reply)
  BY ReplyTypes DEF RawCommands, Key0, RecordInv, VolatileTypes
<1>2. ~IsSetparam(c)
  BY DEF RawCommands, Command, SetAdopt, IsSetparam
<1>3. QueueOK(mem[d], Append(queue[d], c))
  BY <1>1, <1>2, AppendOther DEF QueueCommand, Known, QueueInv
<1> QED  BY <1>3 DEF QueueCommand, QueueInv, RecordInv, VolatileTypes

LEMMA CommitCompiledQueues ==
    ASSUME RecordInv, QueueInv, NEW d \in Device, NEW f \in Family,
           NEW v \in Version, NEW saved \in BOOLEAN, Compilable(d, f),
           CommitCompiled(d, f, v, saved)
    PROVE  QueueInv'
<1> DEFINE command == Setparam(mem[d].key, v)
           new == [mem[d] EXCEPT !.family = f, !.desired = v,
                      !.last = command, !.base = v, !.typed = TRUE]
           q == IF report[d].ver # v THEN Append(queue[d], command)
                                     ELSE queue[d]
<1>1. /\ Commit(d, new, saved)
      /\ queue' = IF saved THEN [queue EXCEPT ![d] = q] ELSE queue
  BY DEF CommitCompiled, RecordInv, VolatileTypes
<1>2. command \in Reply /\ queue[d] = <<>> /\ queue[d] \in Seq(Reply)
  BY ReplyTypes
     DEF RecordInv, VolatileTypes, DurableInv, MemSound, DeviceRecord, Version0,
         Compilable, Pending
<1>3. IsSetparam(command)
  BY DEF Setparam, IsSetparam
<1>4. new.key # NoKey /\ new.last = command
  <2> HIDE DEF command
  <2> QED  BY DEF Compilable, Known, RecordInv, DurableInv, MemSound,
                  DeviceRecord
<1>5. QueueOK(new, q)
  <2>1. CASE report[d].ver # v
    <3> HIDE DEF new, command
    <3> QED  BY <1>2, <1>3, <1>4, <2>1, AppendNewest
  <2>2. CASE report[d].ver = v
    <3> HIDE DEF new, command
    <3> QED  BY <1>2, <2>2 DEF QueueOK
  <2> QED  BY <2>1, <2>2
<1> HIDE DEF new, q, command
<1> QED  BY <1>1, <1>5, CommitQueues

LEMMA ImportBaselineQueues ==
    ASSUME RecordInv, QueueInv, NEW d \in Device, NEW v \in Version,
           NEW typed \in BOOLEAN, NEW saved \in BOOLEAN,
           ImportBaseline(d, v, typed, saved)
    PROVE  QueueInv'
<1> DEFINE new == [mem[d] EXCEPT !.base = v, !.typed = typed, !.desired = v]
<1>1. /\ Commit(d, new, saved)
      /\ queue' = IF saved THEN [queue EXCEPT ![d] = queue[d]] ELSE queue
  BY DEF ImportBaseline, RecordInv, VolatileTypes
<1>2. new.key = mem[d].key /\ new.last = mem[d].last
  BY DEF RecordInv, DurableInv, MemSound, DeviceRecord
<1>3. QueueOK(new, queue[d])
  <2> HIDE DEF new
  <2> QED  BY <1>2 DEF QueueInv, QueueOK
<1> HIDE DEF new
<1> QED  BY <1>1, <1>3, CommitQueues

LEMMA OperateQueues ==
    ASSUME RecordInv, QueueInv, NEW d \in Device, NEW saved \in BOOLEAN,
           Operate(d, saved)
    PROVE  QueueInv'
<1>1. ASSUME NEW f \in Family, NEW r \in Request,
             \/ Apply(d, f, r, saved)
             \/ Mutate(d, f, r, saved)
             \/ \E p \in previews : ApplyPreviewed(d, f, r, p, saved)
      PROVE  QueueInv'
  <2>1. Compilable(d, f) /\ CommitCompiled(d, f, Compile(mem[d].base, r), saved)
    BY <1>1 DEF Apply, Mutate, Mutable, ApplyPreviewed
  <2> QED  BY <2>1, CompilableBase, CommitCompiledQueues
<1>2. ASSUME NEW f \in Family, NEW r \in Request, NEW t \in Token,
             TakePreview(d, f, r, t)
      PROVE  QueueInv'
  BY <1>2 DEF TakePreview, QueueInv
<1> QED
  BY <1>1, <1>2, RegisterQueues, AdoptQueues, QueueSetparamQueues,
     QueueCommandQueues, ImportBaselineQueues
     DEF Operate

\* An inform changes neither what was last submitted nor whether the device is
\* registered, and takes at most the head of the queue.
LEMMA InformedLast ==
    ASSUME RecordInv, NEW d \in Device, NEW live \in BOOLEAN,
           Taken(d, live), Known(d), Decodes(d, Arrived(d, live)),
           NEW q, QueueOK(mem[d], q)
    PROVE  /\ QueueOK(Described(d, Arrived(d, live)), q)
           /\ QueueOK(Informed(d, Arrived(d, live)), q)
<1> DEFINE m == Arrived(d, live)
           r == Described(d, m)
<1>1. m.family \in Family0
  BY TakenTypes DEF Inform
<1>2. Sound(r) /\ r.key = mem[d].key /\ r.next = mem[d].next
               /\ r.last = mem[d].last
  BY <1>1, DescribedRecord DEF RecordInv, DurableInv
<1>3. QueueOK(r, q)
  <2> HIDE DEF r
  <2> QED  BY <1>2 DEF QueueOK
<1>4. CASE Completes(d, m)
  <2>1. mem[d].next # NoKey
    BY <1>4, DecodesAssigned DEF RecordInv, DurableInv
  <2>2. Adopted(r).key = mem[d].next /\ Adopted(r).last = mem[d].last
    <3> HIDE DEF r
    <3> QED  BY <1>2 DEF Adopted, Sound, DeviceRecord
  <2>3. QueueOK(Adopted(r), q)
    <3> HIDE DEF r
    <3> QED  BY <2>1, <2>2 DEF QueueOK
  <2> QED  BY <1>3, <1>4, <2>3 DEF Informed
<1>5. CASE ~Completes(d, m)
  BY <1>3, <1>5 DEF Informed
<1> QED  BY <1>4, <1>5

LEMMA ServeQueues ==
    ASSUME RecordInv, QueueInv, NEW d \in Device, NEW live \in BOOLEAN,
           Serve(d, live)
    PROVE  QueueInv'
<1> DEFINE m == Arrived(d, live)
<1>1. ASSUME InformRefused(d, live) PROVE QueueInv'
  BY <1>1 DEF InformRefused, ctlVars, QueueInv
<1>2. ASSUME NEW new, NEW q, mem' = [mem EXCEPT ![d] = new],
             queue' = [queue EXCEPT ![d] = q], QueueOK(new, q)
      PROVE  QueueInv'
  BY <1>2 DEF QueueInv, RecordInv, DurableInv, MemSound, VolatileTypes
<1>3. QueueOK(mem[d], queue[d]) /\ queue[d] \in Seq(Reply)
      /\ queue = [queue EXCEPT ![d] = queue[d]]
  BY DEF QueueInv, RecordInv, VolatileTypes
<1>4. ASSUME InformUnsaved(d, live) PROVE QueueInv'
  BY <1>2, <1>3, <1>4, InformedLast DEF InformUnsaved
<1>5. ASSUME InformUnadopted(d, live) PROVE QueueInv'
  BY <1>2, <1>3, <1>5, InformedLast DEF InformUnadopted, Informed
<1>6. ASSUME NEW wrote \in BOOLEAN, InformAnswered(d, live, wrote)
      PROVE  QueueInv'
  <2> DEFINE q == IF wrote /\ ~Transitioning(d, m) /\ queue[d] # <<>>
                  THEN Tail(queue[d]) ELSE queue[d]
  <2>1. /\ Taken(d, live) /\ Known(d) /\ Decodes(d, m)
        /\ mem' = [mem EXCEPT ![d] = Informed(d, m)]
        /\ queue' = [queue EXCEPT ![d] = q]
    BY <1>3, <1>6 DEF InformAnswered, Informed
  <2>2. QueueOK(mem[d], q)
    BY <1>3, TailKeeps
  <2> HIDE DEF q
  <2> QED  BY <1>2, <2>1, <2>2, InformedLast
<1> QED  BY <1>1, <1>4, <1>5, <1>6 DEF Serve

LEMMA QueueInvStep ==
    ASSUME RecordInv, QueueInv, [Next]_vars
    PROVE  QueueInv'
<1>1. CASE Next
  <2>1. SaveOutcome \subseteq BOOLEAN
    BY DEF SaveOutcome
  <2>2. ASSUME NEW p, ExpirePreview(p) PROVE QueueInv'
    BY <2>2 DEF ExpirePreview, QueueInv
  <2>3. ASSUME NEW d \in Device, Environment(d) PROVE QueueInv'
    BY <2>3 DEF Environment, SendInform, ReceiveReply, GiveUpInform, LoseReply,
                Drift, ctlVars, QueueInv
  <2>4. ASSUME Restart PROVE QueueInv'
    BY <2>4 DEF Restart, QueueInv, QueueOK
  <2> QED
    BY <1>1, <2>1, <2>2, <2>3, <2>4, OperateQueues, ServeQueues DEF Next
<1>2. CASE UNCHANGED vars
  BY <1>2 DEF vars, ctlVars, QueueInv
<1> QED  BY <1>1, <1>2

\* The newest configuration that waits for a device is always the one on record
\* in memory and in the file, so no older one is delivered after it and a crash
\* before delivery loses nothing that was not recorded.
THEOREM NewestIsPersisted == Spec => []NewestQueuedIsPersisted
<1>1. Init => QueueInv
  BY DEF Init, QueueInv, QueueOK
<1>2. RecordInv /\ QueueInv => NewestQueuedIsPersisted
  <2>1. ASSUME DurableInv PROVE \A d \in Device : disk[d].last = mem[d].last
    BY <2>1, SameTarget DEF DurableInv, Recovers
  <2> QED  BY <2>1 DEF RecordInv, QueueInv, QueueOK, NewestQueuedIsPersisted
<1> QED  BY <1>1, <1>2, QueueInvStep, RecordInvariant, PTL DEF Spec

-------------------------------------------------------------------------------
(* The controller implements KeyCustody: every operation, inform, reply,     *)
(* failed save and restart is a step of the abstract specification, or leaves *)
(* the keys alone.  The proof rests on RecordInv and KeyInv.                  *)

(* Abstract steps, told by what happens to the keys of each device *)

MemKeys(d)  == KeysOf(mem[d])
FileKeys(d) == KeysOf(disk[d])

\* The keys are left alone.
SameKeys ==
    /\ \A d \in Device : MemKeys(d)' = MemKeys(d) /\ FileKeys(d)' = FileKeys(d)
    /\ UNCHANGED <<devKey, foreign>>

\* What a step of Controller has to be.
CustodyStep == [Custody!Next]_(Custody!keyVars)

LEMMA SameIsCustody ==
    ASSUME SameKeys
    PROVE  CustodyStep
BY DEF SameKeys, MemKeys, FileKeys, CustodyStep, Custody!keyVars

\* All of memory is saved.
LEMMA SaveIsCustody ==
    ASSUME \A d \in Device : MemKeys(d)' = MemKeys(d) /\ FileKeys(d)' = MemKeys(d),
           UNCHANGED <<devKey, foreign>>
    PROVE  CustodyStep
<1>1. Custody!Save
  BY DEF MemKeys, FileKeys, Custody!Save
<1> QED  BY <1>1 DEF CustodyStep, Custody!Next

\* The keys in memory become those on file.
LEMMA RecoverIsCustody ==
    ASSUME \A d \in Device : MemKeys(d)' = FileKeys(d) /\ FileKeys(d)' = FileKeys(d),
           UNCHANGED <<devKey, foreign>>
    PROVE  CustodyStep
<1>1. Custody!Recover
  BY DEF MemKeys, FileKeys, Custody!Recover
<1> QED  BY <1>1 DEF CustodyStep, Custody!Next

\* The keys of a record are keys.
LEMMA KeysAreKeys ==
    ASSUME NEW r \in DeviceRecord
    PROVE  KeysOf(r) \in SUBSET Key
BY DEF DeviceRecord, Key0, KeysOf

\* An unknown device is registered or adopted with a key that it has.
LEMMA EnrolIsCustody ==
    ASSUME RecordInv', NEW d \in Device, MemKeys(d) = {}, devKey[d] \in MemKeys(d)',
           \A e \in Device \ {d} : MemKeys(e)' = MemKeys(e),
           \A e \in Device : FileKeys(e)' = MemKeys(e)',
           UNCHANGED <<devKey, foreign>>
    PROVE  CustodyStep
<1> DEFINE keys == MemKeys(d)'
<1>1. keys \in SUBSET Key
  BY KeysAreKeys DEF RecordInv, DurableInv, MemSound, MemKeys
<1>2. Custody!Enrol(d, keys)
  BY DEF Custody!Enrol, MemKeys, FileKeys
<1> QED  BY <1>1, <1>2 DEF CustodyStep, Custody!Next

\* A device that was seen with its next key keeps that key only.
LEMMA CompleteIsCustody ==
    ASSUME NEW d \in Device, devKey[d] \in MemKeys(d), MemKeys(d)' = {devKey[d]},
           \A e \in Device \ {d} : MemKeys(e)' = MemKeys(e),
           \/ \A e \in Device : FileKeys(e)' = FileKeys(e)
           \/ \A e \in Device : FileKeys(e)' = MemKeys(e)
           \/ \A e \in Device : FileKeys(e)' = MemKeys(e)',
           UNCHANGED <<devKey, foreign>>
    PROVE  CustodyStep
<1>1. Custody!Complete(d)
  BY DEF Custody!Complete, MemKeys, FileKeys
<1> QED  BY <1>1 DEF CustodyStep, Custody!Next

\* A device takes over a key that memory and the file have.
LEMMA TakeIsCustody ==
    ASSUME NEW d \in Device, NEW k \in Key, k \in MemKeys(d) \cap FileKeys(d),
           devKey' = [devKey EXCEPT ![d] = k],
           UNCHANGED <<mem, disk, foreign>>
    PROVE  CustodyStep
<1>1. Custody!Take(d, k)
  BY DEF Custody!Take, MemKeys, FileKeys
<1> QED  BY <1>1 DEF CustodyStep, Custody!Next

\* Someone else chose a key of the device, now or earlier.
LEMMA GiveUpIsCustody ==
    ASSUME RecordInv, RecordInv', NEW d \in Device, foreign' = foreign \cup {d},
           \A e \in Device \ {d} : MemKeys(e)' = MemKeys(e) /\ devKey'[e] = devKey[e],
           \/ \A e \in Device \ {d} : FileKeys(e)' = FileKeys(e)
           \/ \A e \in Device \ {d} : FileKeys(e)' = MemKeys(e)
    PROVE  CustodyStep
<1>1. /\ [e \in Device |-> KeysOf(mem'[e])] \in [Device -> SUBSET Key]
      /\ [e \in Device |-> KeysOf(disk'[e])] \in [Device -> SUBSET Key]
  BY KeysAreKeys DEF RecordInv, DurableInv, MemSound, DiskSound
<1>2. devKey' \in [Device -> Key]
  BY DEF RecordInv, DeviceTypes
<1>3. Device \ foreign' = (Device \ foreign) \ {d}
  OBVIOUS
<1>4. Custody!GiveUp(d)
  BY <1>1, <1>2, <1>3 DEF Custody!GiveUp, MemKeys, FileKeys
<1> QED  BY <1>4 DEF CustodyStep, Custody!Next

-------------------------------------------------------------------------------
(* Control operations *)

\* A saved operation: every other device keeps its keys and has them on file.
LEMMA CommitOthers ==
    ASSUME RecordInv, NEW d \in Device, NEW new, Commit(d, new, TRUE)
    PROVE  /\ MemKeys(d)' = KeysOf(new)
           /\ \A e \in Device \ {d} : MemKeys(e)' = MemKeys(e)
           /\ \A e \in Device : FileKeys(e)' = MemKeys(e)'
BY DEF Commit, RecordInv, DurableInv, MemSound, MemKeys, FileKeys

\* An operation that keeps the keys of its device: all of memory is saved.
LEMMA CommitSame ==
    ASSUME RecordInv, NEW d \in Device, NEW new, NEW saved \in BOOLEAN,
           Commit(d, new, saved), saved => KeysOf(new) = MemKeys(d),
           UNCHANGED <<devKey, foreign>>
    PROVE  CustodyStep
<1>1. CASE saved
  <2>1. \A e \in Device : MemKeys(e)' = MemKeys(e) /\ FileKeys(e)' = MemKeys(e)
    BY <1>1, CommitOthers
  <2> QED  BY <2>1, SaveIsCustody
<1>2. CASE ~saved
  BY <1>2, SameIsCustody DEF Commit, SameKeys, MemKeys, FileKeys
<1> QED  BY <1>1, <1>2

\* An operation that chooses a key of its device.
LEMMA CommitChosen ==
    ASSUME RecordInv, RecordInv', NEW d \in Device, NEW new, Commit(d, new, TRUE),
           UNCHANGED devKey, foreign' = foreign \cup {d}
    PROVE  CustodyStep
<1>1. \A e \in Device \ {d} : MemKeys(e)' = MemKeys(e) /\ FileKeys(e)' = MemKeys(e)
  BY CommitOthers
<1> QED  BY <1>1, GiveUpIsCustody

\* An unregistered device has no keys.
LEMMA UnknownKeys ==
    ASSUME RecordInv, NEW d \in Device, ~Known(d)
    PROVE  MemKeys(d) = {}
BY DEF RecordInv, DurableInv, MemSound, Sound, WellFormed, Known, Absent, NewDevice, MemKeys,
       KeysOf

LEMMA RegisterCustody ==
    ASSUME RecordInv, RecordInv', NEW d \in Device, NEW k \in Key, NEW saved \in BOOLEAN,
           Register(d, k, saved)
    PROVE  CustodyStep
<1> DEFINE new == IF Known(d) THEN [mem[d] EXCEPT !.key = k] ELSE NewDevice(k, NoKey)
           chosen == k # (IF Known(d) THEN mem[d].key ELSE devKey[d])
<1>1. /\ Commit(d, new, saved) /\ UNCHANGED devKey
      /\ foreign' = IF saved /\ chosen THEN foreign \cup {d} ELSE foreign
  BY DEF Register, Claim, devVars
<1>2. CASE ~saved
  BY <1>1, <1>2, CommitSame
<1>3. CASE saved /\ chosen
  BY <1>1, <1>3, CommitChosen
<1>4. CASE saved /\ ~chosen /\ Known(d)
  <2>1. KeysOf(new) = MemKeys(d)
    BY <1>4 DEF RecordInv, DurableInv, MemSound, DeviceRecord, MemKeys, KeysOf
  <2> HIDE DEF new, chosen
  <2> QED  BY <1>1, <1>4, <2>1, CommitSame
<1>5. CASE saved /\ ~chosen /\ ~Known(d)
  <2>1. MemKeys(d) = {} /\ devKey[d] \in KeysOf(new)
    BY <1>5, UnknownKeys, ConstantsAssumption DEF NewDevice, KeysOf
  <2> HIDE DEF new, chosen
  <2> QED  BY <1>1, <1>5, <2>1, CommitOthers, EnrolIsCustody
<1> QED  BY <1>2, <1>3, <1>4, <1>5

LEMMA AdoptCustody ==
    ASSUME RecordInv, RecordInv', NEW d \in Device, NEW n \in Key, NEW saved \in BOOLEAN,
           Adopt(d, n, saved)
    PROVE  CustodyStep
<1> DEFINE dev == IF Known(d) THEN mem[d] ELSE NewDevice(DefaultKey, n)
           template == Setparam(TargetKey(dev), AdoptVersion)
           new == RawSubmitted(dev, template)
           chosen == ~Known(d) /\ devKey[d] # DefaultKey
<1>1. /\ Commit(d, new, saved) /\ UNCHANGED devKey
      /\ foreign' = IF saved /\ chosen THEN foreign \cup {d} ELSE foreign
  BY DEF Adopt, Claim, devVars
<1>2. KeysOf(new) = KeysOf(dev)
  BY DEF RecordInv, DurableInv, MemSound, DeviceRecord, RawSubmitted, NewDevice, KeysOf
<1>3. CASE ~saved
  BY <1>1, <1>3, CommitSame
<1>4. CASE saved /\ chosen
  BY <1>1, <1>4, CommitChosen
<1>5. CASE saved /\ Known(d)
  <2>1. KeysOf(new) = MemKeys(d)
    BY <1>2, <1>5 DEF MemKeys
  <2>2. ~chosen
    BY <1>5
  <2> HIDE DEF new, chosen
  <2> QED  BY <1>1, <1>5, <2>1, <2>2, CommitSame
<1>6. CASE saved /\ ~chosen /\ ~Known(d)
  <2>1. MemKeys(d) = {} /\ devKey[d] \in KeysOf(new)
    BY <1>2, <1>6, UnknownKeys, ConstantsAssumption DEF NewDevice, KeysOf
  <2> HIDE DEF new, chosen
  <2> QED  BY <1>1, <1>6, <2>1, CommitOthers, EnrolIsCustody
<1> QED  BY <1>3, <1>4, <1>5, <1>6

LEMMA QueueSetparamCustody ==
    ASSUME RecordInv, RecordInv', NEW d \in Device, NEW c, NEW saved \in BOOLEAN,
           QueueSetparam(d, c, saved)
    PROVE  CustodyStep
<1> DEFINE new == RawSubmitted(mem[d], c)
           chosen == c.key \notin {NoKey, TargetKey(mem[d])}
<1>1. /\ Commit(d, new, saved) /\ UNCHANGED devKey
      /\ foreign' = IF saved /\ chosen THEN foreign \cup {d} ELSE foreign
  BY DEF QueueSetparam, Claim, devVars
<1>2. KeysOf(new) = MemKeys(d)
  BY DEF RecordInv, DurableInv, MemSound, DeviceRecord, RawSubmitted, KeysOf, MemKeys
<1> HIDE DEF new, chosen
<1> QED  BY <1>1, <1>2, CommitSame, CommitChosen

LEMMA QueueCommandCustody ==
    ASSUME RecordInv, RecordInv', NEW d \in Device, NEW c, QueueCommand(d, c)
    PROVE  CustodyStep
<1>1. UNCHANGED <<mem, disk, devKey>> /\ foreign' \in {foreign, foreign \cup {d}}
  BY DEF QueueCommand, Claim, devVars
<1>2. CASE foreign' = foreign
  BY <1>1, <1>2, SameIsCustody DEF SameKeys, MemKeys, FileKeys
<1>3. CASE foreign' = foreign \cup {d}
  BY <1>1, <1>3, GiveUpIsCustody DEF MemKeys, FileKeys
<1> QED  BY <1>1, <1>2, <1>3

LEMMA CommitCompiledCustody ==
    ASSUME RecordInv, NEW d \in Device, NEW f, NEW v, NEW saved \in BOOLEAN,
           CommitCompiled(d, f, v, saved)
    PROVE  CustodyStep
<1> DEFINE new == [mem[d] EXCEPT !.family = f, !.desired = v,
                      !.last = Setparam(mem[d].key, v), !.base = v, !.typed = TRUE]
<1>1. Commit(d, new, saved) /\ UNCHANGED <<devKey, foreign>>
  BY DEF CommitCompiled, devVars
<1>2. KeysOf(new) = MemKeys(d)
  BY DEF RecordInv, DurableInv, MemSound, DeviceRecord, KeysOf, MemKeys
<1> HIDE DEF new
<1> QED  BY <1>1, <1>2, CommitSame

LEMMA ImportBaselineCustody ==
    ASSUME RecordInv, NEW d \in Device, NEW v, NEW typed, NEW saved \in BOOLEAN,
           ImportBaseline(d, v, typed, saved)
    PROVE  CustodyStep
<1> DEFINE new == [mem[d] EXCEPT !.base = v, !.typed = typed, !.desired = v]
<1>1. Commit(d, new, saved) /\ UNCHANGED <<devKey, foreign>>
  BY DEF ImportBaseline, devVars
<1>2. KeysOf(new) = MemKeys(d)
  BY DEF RecordInv, DurableInv, MemSound, DeviceRecord, KeysOf, MemKeys
<1> HIDE DEF new
<1> QED  BY <1>1, <1>2, CommitSame

LEMMA OperateCustody ==
    ASSUME RecordInv, RecordInv', NEW d \in Device, NEW saved \in BOOLEAN, Operate(d, saved)
    PROVE  CustodyStep
<1>1. ASSUME NEW f, NEW r, NEW t, TakePreview(d, f, r, t)
      PROVE  CustodyStep
  BY <1>1, SameIsCustody DEF TakePreview, devVars, SameKeys, MemKeys, FileKeys
<1>2. ASSUME NEW f, NEW v, CommitCompiled(d, f, v, saved)
      PROVE  CustodyStep
  BY <1>2, CommitCompiledCustody
<1> QED
  BY <1>1, <1>2, RegisterCustody, AdoptCustody, QueueSetparamCustody, QueueCommandCustody,
     ImportBaselineCustody
     DEF Operate, Apply, Mutate, ApplyPreviewed

-------------------------------------------------------------------------------
(* The inform endpoint *)

\* What an inform makes of the keys of its device: they stay, or the device,
\* seen with its next key, keeps that one.
LEMMA InformedKeys ==
    ASSUME RecordInv, KeyInv, NEW d \in Device, NEW live \in BOOLEAN,
           Taken(d, live), Known(d), Decodes(d, Arrived(d, live))
    PROVE  LET m == Arrived(d, live)
           IN  /\ KeysOf(Described(d, m)) = MemKeys(d)
               /\ Completes(d, m) =>
                     /\ KeysOf(Adopted(Described(d, m))) = {mem[d].next}
                     /\ mem[d].next \in MemKeys(d)
                     /\ d \notin foreign => devKey[d] = mem[d].next
<1> DEFINE m == Arrived(d, live)
           r == Described(d, m)
<1>1. m.family \in Family0
  BY TakenTypes DEF Inform
<1>2. Sound(r) /\ r.key = mem[d].key /\ r.next = mem[d].next
  BY <1>1, DescribedRecord DEF RecordInv, DurableInv
<1>3. KeysOf(r) = MemKeys(d)
  BY <1>2 DEF KeysOf, MemKeys
<1>4. ASSUME Completes(d, m)
      PROVE  /\ KeysOf(Adopted(r)) = {mem[d].next}
             /\ mem[d].next \in MemKeys(d)
             /\ d \notin foreign => devKey[d] = mem[d].next
  <2>1. mem[d].next # NoKey /\ m.key = mem[d].next
    BY <1>4, DecodesAssigned DEF RecordInv, DurableInv
  <2>2. Adopted(r).key = mem[d].next /\ Adopted(r).next = NoKey
    <3> HIDE DEF r
    <3> QED  BY <1>2 DEF Adopted, Sound, DeviceRecord
  <2>3. d \notin foreign => devKey[d] = m.key \/ devKey[d] = TargetKey(mem[d])
    BY ArrivedKey
  <2> QED  BY <2>1, <2>2, <2>3 DEF KeysOf, MemKeys, TargetKey
<1> QED  BY <1>3, <1>4

\* A key transition is completed in memory, and saved in full, up to the
\* description, or not at all.
LEMMA CompletingCustody ==
    ASSUME RecordInv, RecordInv', KeyInv, NEW d \in Device, NEW live \in BOOLEAN,
           Taken(d, live), Known(d), Decodes(d, Arrived(d, live)),
           Completes(d, Arrived(d, live)),
           mem' = [mem EXCEPT ![d] = Adopted(Described(d, Arrived(d, live)))],
           \/ disk' = disk
           \/ disk' = [mem EXCEPT ![d] = Described(d, Arrived(d, live))]
           \/ disk' = mem',
           UNCHANGED <<devKey, foreign>>
    PROVE  CustodyStep
<1>1. /\ MemKeys(d)' = {mem[d].next} /\ mem[d].next \in MemKeys(d)
      /\ \A e \in Device \ {d} : MemKeys(e)' = MemKeys(e)
  BY InformedKeys DEF RecordInv, DurableInv, MemSound, MemKeys
<1>2. \/ \A e \in Device : FileKeys(e)' = FileKeys(e)
      \/ \A e \in Device : FileKeys(e)' = MemKeys(e)
      \/ \A e \in Device : FileKeys(e)' = MemKeys(e)'
  <2>1. CASE disk' = disk
    BY <2>1 DEF FileKeys
  <2>2. CASE disk' = [mem EXCEPT ![d] = Described(d, Arrived(d, live))]
    BY <2>2, InformedKeys DEF RecordInv, DurableInv, MemSound, MemKeys, FileKeys
  <2>3. CASE disk' = mem'
    BY <2>3 DEF MemKeys, FileKeys
  <2> QED  BY <2>1, <2>2, <2>3
<1>3. CASE d \notin foreign
  <2>1. devKey[d] = mem[d].next
    BY <1>3, InformedKeys
  <2> QED  BY <1>1, <1>2, <2>1, CompleteIsCustody
<1>4. CASE d \in foreign
  <2>1. foreign' = foreign \cup {d}
    BY <1>4
  <2>2. \/ \A e \in Device \ {d} : FileKeys(e)' = FileKeys(e)
        \/ \A e \in Device \ {d} : FileKeys(e)' = MemKeys(e)
    BY <1>1, <1>2
  <2> QED  BY <1>1, <2>1, <2>2, GiveUpIsCustody
<1> QED  BY <1>3, <1>4

\* An inform that completes nothing: the file is left, or catches up.
LEMMA DescribingCustody ==
    ASSUME RecordInv, KeyInv, NEW d \in Device, NEW live \in BOOLEAN,
           Taken(d, live), Known(d), Decodes(d, Arrived(d, live)),
           mem' = [mem EXCEPT ![d] = Described(d, Arrived(d, live))],
           disk' \in {disk, mem'},
           UNCHANGED <<devKey, foreign>>
    PROVE  CustodyStep
<1>1. \A e \in Device : MemKeys(e)' = MemKeys(e)
  BY InformedKeys DEF RecordInv, DurableInv, MemSound, MemKeys
<1>2. CASE disk' = disk
  BY <1>1, <1>2, SameIsCustody DEF SameKeys, FileKeys
<1>3. CASE disk' = mem'
  BY <1>1, <1>3, SaveIsCustody DEF MemKeys, FileKeys
<1> QED  BY <1>2, <1>3

LEMMA ServeCustody ==
    ASSUME RecordInv, RecordInv', KeyInv, NEW d \in Device, NEW live \in BOOLEAN,
           Serve(d, live)
    PROVE  CustodyStep
<1>1. CASE InformRefused(d, live)
  BY <1>1, SameIsCustody DEF InformRefused, ctlVars, SameKeys, MemKeys, FileKeys
<1>2. CASE InformUnsaved(d, live)
  BY <1>2, DescribingCustody DEF InformUnsaved
<1>3. CASE InformUnadopted(d, live)
  BY <1>3, CompletingCustody DEF InformUnadopted
<1>4. ASSUME NEW wrote \in BOOLEAN, InformAnswered(d, live, wrote)
      PROVE  CustodyStep
  <2>1. CASE Completes(d, Arrived(d, live))
    BY <1>4, <2>1, CompletingCustody DEF InformAnswered
  <2>2. CASE ~Completes(d, Arrived(d, live))
    BY <1>4, <2>2, DescribingCustody DEF InformAnswered
  <2> QED  BY <2>1, <2>2
<1> QED  BY <1>1, <1>2, <1>3, <1>4 DEF Serve

-------------------------------------------------------------------------------
(* Devices, and the process *)

LEMMA ReceiveReplyCustody ==
    ASSUME RecordInv, RecordInv', KeyInv, NEW d \in Device, ReceiveReply(d)
    PROVE  CustodyStep
<1>1. UNCHANGED <<mem, disk, foreign>>
  BY DEF ReceiveReply, ctlVars
<1>2. CASE reply[d].key = NoKey
  BY <1>1, <1>2, SameIsCustody DEF ReceiveReply, SameKeys, MemKeys, FileKeys
<1>3. CASE reply[d].key # NoKey /\ d \in foreign
  <2>1. \A e \in Device \ {d} : devKey'[e] = devKey[e]
    BY <1>3 DEF ReceiveReply, RecordInv, DeviceTypes
  <2>2. foreign' = foreign \cup {d}
    BY <1>1, <1>3
  <2> QED  BY <1>1, <2>1, <2>2, GiveUpIsCustody DEF MemKeys, FileKeys
<1>4. CASE reply[d].key # NoKey /\ d \notin foreign
  <2>1. reply[d].key = TargetKey(mem[d]) /\ TargetKey(disk[d]) = TargetKey(mem[d])
    BY <1>4, SameTarget DEF KeyInv, KeyOK, RecordInv
  <2>2. reply[d].key \in MemKeys(d) \cap FileKeys(d)
    BY <1>4, <2>1 DEF TargetKey, MemKeys, FileKeys, KeysOf
  <2>3. reply[d].key \in Key
    BY <1>4 DEF RecordInv, DeviceTypes, Reply, Key0
  <2> QED  BY <1>1, <1>4, <2>2, <2>3, TakeIsCustody DEF ReceiveReply
<1> QED  BY <1>2, <1>3, <1>4

LEMMA EnvironmentCustody ==
    ASSUME RecordInv, RecordInv', KeyInv, NEW d \in Device, Environment(d)
    PROVE  CustodyStep
<1>1. CASE ReceiveReply(d)
  BY <1>1, ReceiveReplyCustody
<1>2. CASE UNCHANGED <<mem, disk, devKey, foreign>>
  BY <1>2, SameIsCustody DEF SameKeys, MemKeys, FileKeys
<1> QED
  BY <1>1, <1>2
     DEF Environment, SendInform, GiveUpInform, LoseReply, Drift, ctlVars

LEMMA RestartCustody ==
    ASSUME RecordInv, Restart
    PROVE  CustodyStep
<1>1. \A d \in Device : mem'[d].key = disk[d].key /\ mem'[d].next = disk[d].next
  BY SameTarget DEF Restart, Open, RecordInv
<1> QED  BY <1>1, RecoverIsCustody DEF Restart, MemKeys, FileKeys, KeysOf

LEMMA NextCustody ==
    ASSUME RecordInv, RecordInv', KeyInv, [Next]_vars
    PROVE  CustodyStep
<1>1. CASE UNCHANGED <<mem, disk, devKey, foreign>>
  BY <1>1, SameIsCustody DEF SameKeys, MemKeys, FileKeys
<1>2. SaveOutcome \subseteq BOOLEAN
  BY DEF SaveOutcome
<1> QED
  BY <1>1, <1>2, OperateCustody, ServeCustody, EnvironmentCustody, RestartCustody
     DEF Next, ExpirePreview, vars, ctlVars, devVars

LEMMA InitCustody ==
    ASSUME Init
    PROVE  Custody!Init
<1>1. RecordInv /\ KeyInv
  BY RecordInvInit, KeyInvInit
<1>2. \A d \in Device : MemKeys(d) = FileKeys(d) /\ MemKeys(d) \in SUBSET Key
  BY <1>1, SameTarget, KeysAreKeys
     DEF Init, Open, RecordInv, DurableInv, DiskSound, MemKeys, FileKeys, KeysOf
<1>3. \A d \in Device : MemKeys(d) = {} \/ devKey[d] \in MemKeys(d)
  <2> TAKE d \in Device
  <2>1. CASE Known(d)
    BY <1>1, <2>1, ConstantsAssumption DEF Init, KeyInv, KeyOK, Known, RecordInv, DeviceTypes, MemKeys, KeysOf
  <2>2. CASE ~Known(d)
    BY <1>1, <2>2, UnknownKeys
  <2> QED  BY <2>1, <2>2
<1>4. foreign = {} /\ devKey \in [Device -> Key]
  BY DEF Init
<1> QED
  BY <1>2, <1>3, <1>4 DEF Custody!Init, Custody!Reachable, MemKeys, FileKeys

\* Whatever operators do, whichever saves fail, replies are lost and informs are
\* late, and whenever the process restarts: the controller only stops accepting a
\* key of a device in its custody when the device was seen with the other one, and
\* only hands out a key that is accepted and on file already.
THEOREM CustodyIsKept == Spec => KeysInCustody
<1>1. Spec => []KeyInv
  BY KeyInvInit, KeyInvStep, RecordInvariant, PTL DEF Spec
<1>2. RecordInv /\ RecordInv' /\ KeyInv /\ [Next]_vars => [Custody!Next]_(Custody!keyVars)
  BY NextCustody DEF CustodyStep
<1> QED
  BY <1>1, <1>2, InitCustody, RecordInvariant, PTL DEF Spec, KeysInCustody, Custody!Spec

===============================================================================
