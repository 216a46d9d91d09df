------------------------------ MODULE RecordSync ------------------------------
(***************************************************************************)
(* `unifi-go sync pull|push`: records of a UniFi Network Application and   *)
(* their stored copies (cmd/unifi-go/sync.go, internal/syncplan,           *)
(* internal/syncstore, internal/unifiapi).                                 *)
(*                                                                         *)
(* One sync reads both sides of every selected collection, compares them,  *)
(* and then changes the destination one record at a time.  Any request or  *)
(* file operation may fail, the process may be killed between two of them  *)
(* or inside a file write, and other people keep editing the controller.   *)
(* The Network Application itself is external: it is modelled from the     *)
(* requests the client sends.                                              *)
(***************************************************************************)
EXTENDS Naturals

CONSTANTS
    Collection,     \* selected collections; numbers, in their sorted order
    Identity,       \* names of records; numbers, in their sorted order
    ID,             \* identifiers the controller assigns
    Field,          \* members of a record other than its identity
    Managed,        \* the fields Collection.Comparable accepts
    Value,          \* values of a field
    NoValue,        \* the field is missing
    NoID,           \* the empty identifier
    Creatable, Writable, Deletable,   \* what each collection accepts
    Direction,      \* directions explored
    Edited          \* collections that others edit during a sync too

Value0 == Value \cup {NoValue}
Conf   == [Field -> Value0]

\* A record as either side holds it; id = NoID in the store, and there = FALSE
\* is no record at all.
Record   == [there : BOOLEAN, id : ID \cup {NoID}, conf : Conf]
NoConf   == [f \in Field |-> NoValue]
NoRecord == [there |-> FALSE, id |-> NoID, conf |-> NoConf]

ASSUME SyncAssumption ==
    /\ Collection \subseteq Nat
    /\ Identity \subseteq Nat /\ Identity # {}
    /\ Managed \subseteq Field
    /\ NoValue \notin Value
    /\ NoID \notin ID
    /\ Creatable \cup Writable \cup Deletable \subseteq Collection
    /\ Direction \subseteq {"pull", "push"}
    /\ Edited \subseteq Collection

VARIABLES
    remote,       \* the controller: per collection and id, a name and fields
    store,        \* the record files: per collection and identity
    torn,         \* the files whose write was cut short
    phase,        \* "idle", "plan", "push", "pull" or "report"
    direction,    \* of the sync in progress
    prune,        \* --prune
    unread,       \* collections still to read
    source,       \* collectionSides.source
    destination,  \* collectionSides.destination
    plan,         \* changes not applied yet
    written,      \* identities of the current collection already stored
    edited        \* history: collections someone edited since the sync began

jobVars == <<direction, prune, unread, source, destination, plan, written>>
vars    == <<remote, store, torn, phase, jobVars, edited>>

Remote   == [there : BOOLEAN, name : Identity, conf : Conf]
NoRemote == [there |-> FALSE, name |-> CHOOSE i \in Identity : TRUE,
             conf |-> NoConf]
Sides    == [Collection -> [Identity -> Record]]
NoSides  == [c \in Collection |-> [n \in Identity |-> NoRecord]]
Change   == [coll : Collection, name : Identity,
             action : {"create", "update", "delete"},
             id : ID \cup {NoID}, conf : Conf]

\* Every variable has its type: the application's and the stored records keep the
\* fields of their collection, also when a sync stopped half way.
TypeOK ==
    /\ remote \in [Collection -> [ID -> Remote]]
    /\ store \in Sides
    /\ torn \subseteq Collection \X Identity
    /\ phase \in {"idle", "plan", "push", "pull", "report"}
    /\ direction \in {"none", "pull", "push"}
    /\ prune \in BOOLEAN
    /\ unread \subseteq Collection
    /\ source \in Sides
    /\ destination \in Sides
    /\ plan \subseteq Change
    /\ written \subseteq Identity
    /\ edited \subseteq Collection

-------------------------------------------------------------------------------
(* Comparing two sides *)

\* index: a collection that holds two records of one name stops the sync.  So does a
\* record without a name, which the application does not make and is left out.
Indexable(c) ==
    \A i, j \in ID : /\ remote[c][i].there /\ remote[c][j].there
                     /\ remote[c][i].name = remote[c][j].name
                     => i = j

\* The controller's records by identity.
Listed(c) ==
    [n \in Identity |->
       IF \E i \in ID : remote[c][i].there /\ remote[c][i].name = n
       THEN LET i == CHOOSE i \in ID :
                        remote[c][i].there /\ remote[c][i].name = n
            IN  [there |-> TRUE, id |-> i, conf |-> remote[c][i].conf]
       ELSE NoRecord]

Readable(c) == \A n \in Identity : <<c, n>> \notin torn

\* Collection.Project: the fields that carry intent.
Project(conf) == [f \in Field |-> IF f \in Managed THEN conf[f] ELSE NoValue]

\* Mutant: the source's record replaces the destination's.
OverlayReplaces(from, onto) == Project(from)

\* updateChange: the destination's record with the source's fields over it.
Overlay(from, onto) ==
    [f \in Field |-> IF f \in Managed /\ from[f] # NoValue
                     THEN from[f] ELSE onto[f]]

\* Mutant: a record is created whether or not the destination has it.
CreatesAgain(c, s, t) ==
    {[coll |-> c, name |-> n, action |-> "create", id |-> NoID,
      conf |-> Project(s[n].conf)] : n \in {n \in Identity : s[n].there}}

Creates(c, s, t) ==
    {[coll |-> c, name |-> n, action |-> "create", id |-> NoID,
      conf |-> Project(s[n].conf)] :
        n \in {n \in Identity : s[n].there /\ ~t[n].there}}

Updates(c, s, t) ==
    {[coll |-> c, name |-> n, action |-> "update", id |-> t[n].id,
      conf |-> Overlay(s[n].conf, t[n].conf)] :
        n \in {n \in Identity :
                 /\ s[n].there /\ t[n].there
                 /\ Overlay(s[n].conf, t[n].conf) # t[n].conf}}

Deletes(c, s, t) ==
    {[coll |-> c, name |-> n, action |-> "delete", id |-> t[n].id,
      conf |-> NoConf] :
        n \in {n \in Identity : ~s[n].there /\ t[n].there}}

\* Compare.
Compare(c, s, t, pruned) ==
    Creates(c, s, t) \cup Updates(c, s, t)
       \cup (IF pruned THEN Deletes(c, s, t) ELSE {})

\* The order changes are applied in: by collection, removals last, by name.
Before(a, b) ==
    \/ a.coll < b.coll
    \/ /\ a.coll = b.coll
       /\ \/ a.action # "delete" /\ b.action = "delete"
          \/ /\ a.action = "delete" <=> b.action = "delete"
             /\ a.name < b.name

IsNext(ch) == ch \in plan /\ \A other \in plan \ {ch} : Before(ch, other)

-------------------------------------------------------------------------------
(* Reading both sides *)

\* The command ends, having finished or failed; what it wrote stays written.
Stop ==
    /\ phase' = "idle"
    /\ direction' = "none"
    /\ prune' = FALSE
    /\ unread' = {}
    /\ source' = NoSides
    /\ destination' = NoSides
    /\ plan' = {}
    /\ written' = {}
    /\ edited' = {}
    /\ UNCHANGED remote

\* runSync: a sync begins.
Start(dir, pruned) ==
    /\ phase = "idle"
    /\ phase' = "plan"
    /\ direction' = dir
    /\ prune' = pruned
    /\ unread' = Collection
    /\ UNCHANGED <<remote, store, torn, source, destination, plan, written,
                   edited>>

Unplanned(c) == c \in unread /\ \A other \in unread : c <= other

\* planSync: both sides of the next collection are read and compared.
PlanCollection(c) ==
    /\ phase = "plan"
    /\ Unplanned(c)
    /\ Indexable(c) /\ Readable(c)
    /\ LET listed == Listed(c)
           s == IF direction = "pull" THEN listed ELSE store[c]
           t == IF direction = "pull" THEN store[c] ELSE listed
       IN  /\ source' = [source EXCEPT ![c] = s]
           /\ destination' = [destination EXCEPT ![c] = t]
           /\ plan' = plan \cup Compare(c, s, t, prune)
    /\ unread' = unread \ {c}
    /\ UNCHANGED <<remote, store, torn, phase, direction, prune, written, edited>>

\* An ambiguous collection or an unreadable file stops the sync.
PlanRefused(c) ==
    /\ phase = "plan"
    /\ Unplanned(c)
    /\ ~(Indexable(c) /\ Readable(c))
    /\ Stop
    /\ UNCHANGED <<store, torn>>

\* Mutant: a collection's changes are applied as soon as it is compared.
PlanDoneEarly ==
    /\ phase = "plan"
    /\ \/ /\ plan # {}
          /\ phase' = direction
          /\ UNCHANGED <<remote, jobVars, edited>>
       \/ unread = {} /\ plan = {} /\ Stop
    /\ UNCHANGED <<store, torn>>

\* syncCollections: with every collection compared, the plan is applied; there
\* may be nothing to do.  A dry run stops here, like any failed request: Fail.
PlanDone ==
    /\ phase = "plan"
    /\ unread = {}
    /\ \/ /\ plan # {}
          /\ phase' = direction
          /\ UNCHANGED <<remote, jobVars, edited>>
       \/ plan = {} /\ Stop
    /\ UNCHANGED <<store, torn>>

-------------------------------------------------------------------------------
(* Push: syncplan.Apply *)

\* The request is accepted by the client for this collection.
Sendable(ch) ==
    ch.coll \in CASE ch.action = "create" -> Creatable
                  [] ch.action = "update" -> Writable
                  [] ch.action = "delete" -> Deletable

\* What the controller does with a request (external): it stores a new record
\* under a free id with fields of its own, replaces or removes an existing one.
Stored(ch, id, own) ==
    CASE ch.action = "create" ->
           /\ ~remote[ch.coll][id].there
           /\ remote' = [remote EXCEPT ![ch.coll][id] =
                 [there |-> TRUE, name |-> ch.name,
                  conf |-> [f \in Field |-> IF f \in Managed THEN ch.conf[f]
                                                             ELSE own[f]]]]
      [] ch.action = "update" ->
           /\ id = ch.id /\ remote[ch.coll][id].there
           /\ remote' = [remote EXCEPT ![ch.coll][id].conf = ch.conf]
      [] ch.action = "delete" ->
           /\ id = ch.id /\ remote[ch.coll][id].there
           /\ remote' = [remote EXCEPT ![ch.coll][id] = NoRemote]

\* applyChange: the next change is sent and accepted.
PushChange(ch, id, own) ==
    /\ phase = "push"
    /\ IsNext(ch)
    /\ Sendable(ch)
    /\ Stored(ch, id, own)
    /\ plan' = plan \ {ch}
    /\ UNCHANGED <<store, torn, phase, direction, prune, unread, source,
                   destination, written, edited>>

\* Mutant: the push ends although changes are left.
PushDoneEarly ==
    /\ phase = "push"
    /\ phase' = "report"
    /\ UNCHANGED <<remote, store, torn, jobVars, edited>>

PushDone ==
    /\ phase = "push"
    /\ plan = {}
    /\ phase' = "report"
    /\ UNCHANGED <<remote, store, torn, jobVars, edited>>

-------------------------------------------------------------------------------
(* Pull: Store.Write *)

\* applySync: the collection being stored, the first one with a change.
Current(c) ==
    /\ phase = "pull"
    /\ \E ch \in plan : ch.coll = c
    /\ \A ch \in plan : c <= ch.coll

\* writeRecord: the projection of a source record replaces its file.
PullWrite(c, n) ==
    /\ Current(c)
    /\ source[c][n].there /\ n \notin written
    /\ store' = [store EXCEPT ![c][n] =
                    [there |-> TRUE, id |-> NoID,
                     conf |-> Project(source[c][n].conf)]]
    /\ written' = written \cup {n}
    /\ UNCHANGED <<remote, torn, phase, direction, prune, unread, source, destination,
                   plan, edited>>

AllWritten(c) == \A n \in Identity : source[c][n].there => n \in written

\* removeStale: a file of no source record is removed.
PullRemove(c, n) ==
    /\ Current(c)
    /\ AllWritten(c)
    /\ store[c][n].there /\ n \notin written
    /\ store' = [store EXCEPT ![c][n] = NoRecord]
    /\ UNCHANGED <<remote, torn, phase, jobVars, edited>>

\* The collection is stored.
PullCollectionDone(c) ==
    /\ Current(c)
    /\ AllWritten(c)
    /\ \A n \in Identity : store[c][n].there => n \in written
    /\ plan' = {ch \in plan : ch.coll # c}
    /\ written' = {}
    /\ phase' = IF plan' = {} THEN "report" ELSE phase
    /\ UNCHANGED <<remote, store, torn, direction, prune, unread, source,
                   destination, edited>>

-------------------------------------------------------------------------------
(* Ends, failures and the world *)

\* reportApplied reads the destination again and prints; the command ends.
Report ==
    /\ phase = "report"
    /\ Stop
    /\ UNCHANGED <<store, torn>>

\* A request or a file operation fails, a record is refused, or the process is
\* killed between two of them.
Fail ==
    /\ phase # "idle"
    /\ Stop
    /\ UNCHANGED <<store, torn>>

\* os.WriteFile truncates and then writes: a kill or a full disk in between
\* leaves a file that does not decode.
Tear(c, n) ==
    /\ Current(c)
    /\ source[c][n].there /\ n \notin written
    /\ torn' = torn \cup {<<c, n>>}
    /\ store' = [store EXCEPT ![c][n] =
                    [there |-> TRUE, id |-> NoID, conf |-> NoConf]]
    /\ Stop

\* Someone edits the controller (external): adds a record, also of a name that
\* exists, changes or clears a field, or removes a record.
EditController(c, i) ==
    /\ phase = "idle" \/ c \in Edited
    /\ \/ \E n \in Identity, conf \in Conf :
             /\ ~remote[c][i].there
             /\ remote' = [remote EXCEPT ![c][i] =
                              [there |-> TRUE, name |-> n, conf |-> conf]]
       \/ \E f \in Field, v \in Value0 :
             /\ remote[c][i].there
             /\ remote' = [remote EXCEPT ![c][i].conf[f] = v]
       \/ /\ remote[c][i].there
          /\ remote' = [remote EXCEPT ![c][i] = NoRemote]
    /\ edited' = IF phase = "idle" THEN {} ELSE edited \cup {c}
    /\ UNCHANGED <<store, torn, phase, jobVars>>

\* The operator edits or removes a stored file between two syncs.
EditStore(c, n) ==
    /\ phase = "idle"
    /\ store[c][n].there
    /\ \/ \E f \in Managed, v \in Value :
             /\ <<c, n>> \notin torn
             /\ store' = [store EXCEPT ![c][n].conf[f] = v]
             /\ torn' = torn
       \/ /\ store' = [store EXCEPT ![c][n] = NoRecord]
          /\ torn' = torn \ {<<c, n>>}
    /\ UNCHANGED <<remote, phase, jobVars, edited>>

Init ==
    /\ remote = [c \in Collection |-> [i \in ID |-> NoRemote]]
    /\ store = NoSides
    /\ torn = {}
    /\ phase = "idle"
    /\ direction = "none"
    /\ prune = FALSE
    /\ unread = {}
    /\ source = NoSides
    /\ destination = NoSides
    /\ plan = {}
    /\ written = {}
    /\ edited = {}

Sync(c) ==
    \/ PlanCollection(c)
    \/ PlanRefused(c)
    \/ \E n \in Identity : PullWrite(c, n) \/ PullRemove(c, n) \/ Tear(c, n)
    \/ PullCollectionDone(c)

Next ==
    \/ \E dir \in Direction, pruned \in BOOLEAN : Start(dir, pruned)
    \/ \E c \in Collection : Sync(c)
    \/ PlanDone
    \/ \E ch \in plan, id \in ID, own \in Conf : PushChange(ch, id, own)
    \/ PushDone
    \/ Report
    \/ Fail
    \/ \E c \in Collection, i \in ID : EditController(c, i)
    \/ \E c \in Collection, n \in Identity : EditStore(c, n)

Spec == Init /\ [][Next]_vars

-------------------------------------------------------------------------------
(* Properties *)

\* A side as it is now, when the sync would read it again.
DestinationNow(c) == IF direction = "pull" THEN store[c] ELSE Listed(c)

\* The sync writes, or has written: planning is over.
Applying == phase \in {"push", "pull", "report"}

\* Neither direction removes a destination record by default: every record the
\* destination held when it was read is still there unless --prune was given.
RemovalIsOptIn ==
    Applying /\ ~prune =>
       \A c \in Collection \ edited, n \in Identity :
          destination[c][n].there => DestinationNow(c)[n].there

\* A push overlays: however far it got, a record that it does not have to remove
\* keeps its id and every field that the source does not set, managed or not.
PushOverlays ==
    Applying /\ direction = "push" =>
       \A c \in Collection \ edited, n \in Identity :
          destination[c][n].there /\ (source[c][n].there \/ ~prune) =>
             LET now == Listed(c)[n]
             IN  /\ now.there /\ now.id = destination[c][n].id
                 /\ \A f \in Field :
                       \/ now.conf[f] = destination[c][n].conf[f]
                       \/ /\ f \in Managed
                          /\ source[c][n].conf[f] \in Value
                          /\ now.conf[f] = source[c][n].conf[f]

\* A sync that ran to its end leaves nothing to do: comparing the same source
\* with the destination as it is now gives an empty plan.
SyncConverges ==
    phase = "report" =>
       \A c \in Collection \ edited :
          Compare(c, source[c], DestinationNow(c), prune) = {}

\* Nothing is written to either side before every selected collection has been
\* read and compared, so a sync that has to refuse a collection that someone
\* made ambiguous, or that an earlier crash left unreadable, changes none.
PlansBeforeWriting ==
    [][phase # "idle" /\ (store' # store \/ (remote' # remote /\ plan' # plan)) =>
          /\ unread = {}
          /\ \A c \in Collection \ edited : Indexable(c) /\ Readable(c)]_vars

\* Records on both sides stay whole, and a sync never makes a collection ambiguous,
\* not even one that repeats the creations of an earlier sync that failed half way.
SyncKeepsIdentity ==
    TypeOK /\ (Applying => \A c \in Collection \ edited : Indexable(c))

===============================================================================
