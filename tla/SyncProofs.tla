------------------------------ MODULE SyncProofs ------------------------------
(***************************************************************************)
(* Proofs about RecordSync, for any collections, names, fields and values: *)
(* a sync writes nothing before every collection is compared, it never     *)
(* makes a collection ambiguous, a push overlays, and a sync that ran to   *)
(* its end leaves nothing to do.                                           *)
(*                                                                         *)
(* The argument follows a change from the comparison that plans it to the  *)
(* request that sends it.  Until it is sent, the controller holds what was *)
(* read (PushedTo); afterwards it holds what the comparison wanted         *)
(* (Settled); so at the end nothing is left to compare.                    *)
(***************************************************************************)
EXTENDS RecordSync, TLAPS

-------------------------------------------------------------------------------
(* What a collection lists *)

\* No two records of the controller's collection r share a name.
Unique(r) ==
    \A i, j \in ID : r[i].there /\ r[j].there /\ r[i].name = r[j].name => i = j

\* Listed, as a function of what the controller holds.
By(r) ==
    [n \in Identity |->
       IF \E i \in ID : r[i].there /\ r[i].name = n
       THEN LET i == CHOOSE i \in ID : r[i].there /\ r[i].name = n
            IN  [there |-> TRUE, id |-> i, conf |-> r[i].conf]
       ELSE NoRecord]

\* index reads the collection and nothing else, now and after a step.
LEMMA ListedIsBy ==
    ASSUME NEW c
    PROVE  /\ Listed(c) = By(remote[c])
           /\ Listed(c)' = By(remote'[c])
           /\ Indexable(c) <=> Unique(remote[c])
           /\ Indexable(c)' <=> Unique(remote'[c])
BY DEF Listed, By, Indexable, Unique

\* A name that some record has is listed with that record.
LEMMA ByFound ==
    ASSUME NEW r \in [ID -> Remote], Unique(r),
           NEW i \in ID, r[i].there
    PROVE  /\ r[i].name \in Identity
           /\ By(r)[r[i].name] = [there |-> TRUE, id |-> i, conf |-> r[i].conf]
<1> DEFINE n == r[i].name
<1>1. n \in Identity
  BY DEF Remote
<1> DEFINE j == CHOOSE j \in ID : r[j].there /\ r[j].name = n
<1>2. j \in ID /\ r[j].there /\ r[j].name = n
  OBVIOUS
<1>3. j = i
  BY <1>2 DEF Unique
<1>4. By(r)[n] = [there |-> TRUE, id |-> j, conf |-> r[j].conf]
  BY <1>1 DEF By
<1> QED
  BY <1>1, <1>3, <1>4

\* A name that no record has is not listed.
LEMMA ByMissing ==
    ASSUME NEW r, NEW n \in Identity,
           \A i \in ID : ~(r[i].there /\ r[i].name = n)
    PROVE  By(r)[n] = NoRecord
BY DEF By

\* Every listed record is one the controller holds.
LEMMA ByHeld ==
    ASSUME NEW r \in [ID -> Remote], NEW n \in Identity, By(r)[n].there
    PROVE  /\ By(r)[n].id \in ID
           /\ r[By(r)[n].id].there /\ r[By(r)[n].id].name = n
           /\ By(r)[n].conf = r[By(r)[n].id].conf
<1>1. \E i \in ID : r[i].there /\ r[i].name = n
  BY ByMissing DEF NoRecord
<1> DEFINE j == CHOOSE j \in ID : r[j].there /\ r[j].name = n
<1>2. j \in ID /\ r[j].there /\ r[j].name = n
  BY <1>1
<1>3. By(r)[n] = [there |-> TRUE, id |-> j, conf |-> r[j].conf]
  BY <1>1 DEF By
<1> QED
  BY <1>2, <1>3

\* A name whose records two collections share is listed alike in both.
LEMMA BySame ==
    ASSUME NEW r \in [ID -> Remote], NEW q \in [ID -> Remote],
           Unique(r), Unique(q), NEW n \in Identity,
           \A i \in ID : /\ r[i].there /\ r[i].name = n
                               => q[i] = r[i]
                         /\ q[i].there /\ q[i].name = n
                               => q[i] = r[i]
    PROVE  By(q)[n] = By(r)[n]
<1>1. CASE \E i \in ID : r[i].there /\ r[i].name = n
  <2>1. PICK i \in ID : r[i].there /\ r[i].name = n
    BY <1>1
  <2>2. q[i] = r[i]
    BY <2>1
  <2>3. By(r)[n] = [there |-> TRUE, id |-> i, conf |-> r[i].conf]
    BY <2>1, ByFound
  <2>4. By(q)[n] = [there |-> TRUE, id |-> i, conf |-> q[i].conf]
    BY <2>1, <2>2, ByFound
  <2> QED
    BY <2>2, <2>3, <2>4
<1>2. CASE \A i \in ID : ~(r[i].there /\ r[i].name = n)
  BY <1>2, ByMissing
<1> QED
  BY <1>1, <1>2

LEMMA RecordType ==
    /\ NoConf \in Conf
    /\ NoRecord \in Record
    /\ NoRemote \in Remote
BY SyncAssumption DEF NoConf, Conf, Value0, NoRecord, Record, NoRemote, Remote

LEMMA UpdatedRemote ==
    ASSUME NEW x \in Remote, NEW conf \in Conf
    PROVE  [x EXCEPT !.conf = conf] = [there |-> x.there, name |-> x.name, conf |-> conf]
BY DEF Remote

LEMMA ByType ==
    ASSUME NEW r \in [ID -> Remote]
    PROVE  By(r) \in [Identity -> Record]
<1>1. ASSUME NEW n \in Identity PROVE By(r)[n] \in Record
  <2>1. CASE By(r)[n].there
    <3> DEFINE i == CHOOSE i \in ID : r[i].there /\ r[i].name = n
    <3>1. \E k \in ID : r[k].there /\ r[k].name = n
      BY <2>1, ByMissing DEF NoRecord
    <3>2. By(r)[n] = [there |-> TRUE, id |-> i, conf |-> r[i].conf]
      BY <3>1 DEF By
    <3>3. i \in ID
      BY <3>1
    <3>4. r[i].conf \in Conf
      BY <3>3 DEF Remote
    <3> QED
      BY <3>2, <3>3, <3>4 DEF Record
  <2>2. CASE ~By(r)[n].there
    <3>1. ~\E k \in ID : r[k].there /\ r[k].name = n
      BY <2>2 DEF By
    <3> QED
      BY <3>1, ByMissing, RecordType
  <2> QED
    BY <2>1, <2>2
<1> QED
  BY <1>1 DEF By

-------------------------------------------------------------------------------
(* What a comparison plans *)

LEMMA OverlayType ==
    ASSUME NEW from \in Conf, NEW onto \in Conf
    PROVE  /\ Overlay(from, onto) \in Conf
           /\ Project(from) \in Conf
BY DEF Overlay, Project, Conf, Value0

\* Compare's change for one name says what the two sides hold under it.
LEMMA Planned ==
    ASSUME NEW c \in Collection, NEW s \in [Identity -> Record],
           NEW t \in [Identity -> Record], NEW pruned \in BOOLEAN,
           NEW ch \in Compare(c, s, t, pruned)
    PROVE  /\ ch \in Change /\ ch.coll = c
           /\ ch.action = "create" =>
                 s[ch.name].there /\ ~t[ch.name].there /\ ch.id = NoID
                 /\ ch.conf = Project(s[ch.name].conf)
           /\ ch.action = "update" =>
                 s[ch.name].there /\ t[ch.name].there /\ ch.id = t[ch.name].id
                 /\ ch.conf = Overlay(s[ch.name].conf, t[ch.name].conf)
           /\ ch.action = "delete" =>
                 pruned /\ ~s[ch.name].there /\ t[ch.name].there
                 /\ ch.id = t[ch.name].id /\ ch.conf = NoConf
<1> USE DEF Change
<1>1. CASE ch \in Creates(c, s, t)
  <2>1. PICK n \in Identity :
           /\ s[n].there /\ ~t[n].there
           /\ ch = [coll |-> c, name |-> n, action |-> "create", id |-> NoID,
                    conf |-> Project(s[n].conf)]
    BY <1>1 DEF Creates
  <2>2. Project(s[n].conf) \in Conf
    BY OverlayType DEF Record
  <2> QED
    BY <2>1, <2>2
<1>2. CASE ch \in Updates(c, s, t)
  <2>1. PICK n \in Identity :
           /\ s[n].there /\ t[n].there
           /\ ch = [coll |-> c, name |-> n, action |-> "update", id |-> t[n].id,
                    conf |-> Overlay(s[n].conf, t[n].conf)]
    BY <1>2 DEF Updates
  <2>2. Overlay(s[n].conf, t[n].conf) \in Conf /\ t[n].id \in ID \cup {NoID}
    BY OverlayType DEF Record
  <2> QED
    BY <2>1, <2>2
<1>3. CASE pruned /\ ch \in Deletes(c, s, t)
  <2>1. PICK n \in Identity :
           /\ ~s[n].there /\ t[n].there
           /\ ch = [coll |-> c, name |-> n, action |-> "delete", id |-> t[n].id,
                    conf |-> NoConf]
    BY <1>3 DEF Deletes
  <2>2. t[n].id \in ID \cup {NoID}
    BY DEF Record
  <2> QED
    BY <1>3, <2>1, <2>2, RecordType
<1> QED
  BY <1>1, <1>2, <1>3 DEF Compare

\* At most one change is planned for a name.
LEMMA PlannedOnce ==
    ASSUME NEW c \in Collection, NEW s \in [Identity -> Record],
           NEW t \in [Identity -> Record], NEW pruned \in BOOLEAN,
           NEW a \in Compare(c, s, t, pruned), NEW b \in Compare(c, s, t, pruned),
           a.name = b.name
    PROVE  a = b
<1>1. /\ a.coll = b.coll /\ a.id = b.id /\ a.conf = b.conf /\ a.action = b.action
      /\ a \in Change /\ b \in Change
  BY Planned DEF Change
<1> QED
  BY <1>1 DEF Change

\* The name needs no change from d to now, and now is what an overlay of s on d,
\* or a removal, makes of d.
Settled(s, d, now, pruned) ==
    /\ s.there => /\ now.there
                  /\ Overlay(s.conf, now.conf) = now.conf
                  /\ d.there => /\ now.id = d.id
                                /\ now.conf = Overlay(s.conf, d.conf)
    /\ ~s.there => IF pruned THEN ~now.there ELSE now = d

\* A name that Compare plans nothing for is settled as it is.
LEMMA UnplannedIsSettled ==
    ASSUME NEW c \in Collection, NEW s \in [Identity -> Record],
           NEW t \in [Identity -> Record], NEW pruned \in BOOLEAN, NEW n \in Identity,
           \A ch \in Compare(c, s, t, pruned) : ch.name # n
    PROVE  Settled(s[n], t[n], t[n], pruned)
<1>1. s[n].there => t[n].there
  <2> SUFFICES ASSUME s[n].there, ~t[n].there PROVE FALSE
    OBVIOUS
  <2> DEFINE ch == [coll |-> c, name |-> n, action |-> "create", id |-> NoID,
                    conf |-> Project(s[n].conf)]
  <2>1. ch \in Creates(c, s, t)
    BY DEF Creates
  <2> QED
    BY <2>1 DEF Compare
<1>2. s[n].there => Overlay(s[n].conf, t[n].conf) = t[n].conf
  <2> SUFFICES ASSUME s[n].there, Overlay(s[n].conf, t[n].conf) # t[n].conf
               PROVE  FALSE
    OBVIOUS
  <2> DEFINE ch == [coll |-> c, name |-> n, action |-> "update", id |-> t[n].id,
                    conf |-> Overlay(s[n].conf, t[n].conf)]
  <2>1. ch \in Updates(c, s, t)
    BY <1>1 DEF Updates
  <2> QED
    BY <2>1 DEF Compare
<1>3. ~s[n].there /\ pruned => ~t[n].there
  <2> SUFFICES ASSUME ~s[n].there, pruned, t[n].there PROVE FALSE
    OBVIOUS
  <2> DEFINE ch == [coll |-> c, name |-> n, action |-> "delete", id |-> t[n].id,
                    conf |-> NoConf]
  <2>1. ch \in Deletes(c, s, t)
    BY DEF Deletes
  <2> QED
    BY <2>1 DEF Compare
<1> QED
  BY <1>1, <1>2, <1>3 DEF Settled

\* Where every name has what the source wants, Compare plans nothing.
LEMMA SettledNeedsNothing ==
    ASSUME NEW c \in Collection, NEW s \in [Identity -> Record],
           NEW t \in [Identity -> Record], NEW pruned \in BOOLEAN,
           \A n \in Identity :
              /\ s[n].there => t[n].there /\ Overlay(s[n].conf, t[n].conf) = t[n].conf
              /\ ~s[n].there /\ pruned => ~t[n].there
    PROVE  Compare(c, s, t, pruned) = {}
BY DEF Compare, Creates, Updates, Deletes

\* A projection of the source's fields is what an overlay of them leaves.
LEMMA ProjectSettles ==
    ASSUME NEW conf \in Conf
    PROVE  Overlay(conf, Project(conf)) = Project(conf)
BY DEF Overlay, Project, Conf

-------------------------------------------------------------------------------
(* The inductive invariant *)

Pending(c, n) == \E ch \in plan : ch.coll = c /\ ch.name = n

\* What has been planned follows from what has been read.
PlanInv ==
    /\ phase = "idle" => plan = {}
    /\ phase # "idle" => direction \in {"pull", "push"}
    /\ phase \in {"pull", "push"} => direction = phase
    /\ Applying => unread = {}
    /\ phase = "report" => plan = {}
    /\ \A ch \in plan : ch.coll \in Collection \ unread

\* A collection that was read, and that nobody edited since, is as sound as it was.
SoundInv ==
    phase # "idle" =>
       \A c \in Collection \ unread :
          /\ Readable(c)
          /\ c \notin edited => Indexable(c)

\* A pull has stored the current collection's written records as the source has
\* them, and a collection that no change is left for needs none.
PullInv ==
    /\ phase # "pull" => written = {}
    /\ \A c \in Collection : Current(c) =>
          \A n \in written :
             /\ source[c][n].there
             /\ store[c][n].there
             /\ store[c][n].conf = Project(source[c][n].conf)
    /\ phase # "idle" /\ direction = "pull" =>
          \A c \in Collection \ unread :
             (\A ch \in plan : ch.coll # c)
                => Compare(c, source[c], store[c], prune) = {}

\* The controller holds what a push read while the change is pending, and what
\* the comparison wanted afterwards.
PushedTo(c) ==
    /\ \A ch \in plan : ch.coll = c =>
          ch \in Compare(c, source[c], destination[c], prune)
    /\ \A n \in Identity :
          IF Pending(c, n)
          THEN By(remote[c])[n] = destination[c][n]
          ELSE Settled(source[c][n], destination[c][n], By(remote[c])[n], prune)

PushInv ==
    phase # "idle" /\ direction = "push" =>
       \A c \in Collection \ (unread \cup edited) : PushedTo(c)

SyncInv == TypeOK /\ PlanInv /\ SoundInv /\ PullInv /\ PushInv

-------------------------------------------------------------------------------
(* Every step keeps it *)

LEMMA InitSync == Init => SyncInv
<1> SUFFICES ASSUME Init PROVE SyncInv
  OBVIOUS
<1>1. TypeOK
  BY RecordType DEF Init, TypeOK, NoSides, Sides
<1>2. PlanInv /\ SoundInv /\ PullInv /\ PushInv
  BY DEF Init, PlanInv, SoundInv, PullInv, PushInv, Applying, Current
<1> QED
  BY <1>1, <1>2 DEF SyncInv

\* A command that ends leaves no job behind.
LEMMA StopSync ==
    ASSUME SyncInv, Stop, store' \in Sides, torn' \subseteq Collection \X Identity
    PROVE  SyncInv'
<1>1. TypeOK'
  BY RecordType DEF SyncInv, Stop, TypeOK, NoSides, Sides
<1>2. PlanInv' /\ SoundInv' /\ PullInv' /\ PushInv'
  BY DEF Stop, PlanInv, SoundInv, PullInv, PushInv, Applying, Current
<1> QED
  BY <1>1, <1>2 DEF SyncInv

LEMMA StartSync ==
    ASSUME SyncInv, NEW dir \in Direction, NEW pruned \in BOOLEAN, Start(dir, pruned)
    PROVE  SyncInv'
<1> USE DEF SyncInv, Start
<1>1. TypeOK'
  BY SyncAssumption DEF TypeOK
<1>2. PlanInv'
  BY SyncAssumption DEF PlanInv, Applying
<1>3. SoundInv' /\ PullInv' /\ PushInv'
  BY DEF SoundInv, PullInv, PushInv, Current
<1> QED
  BY <1>1, <1>2, <1>3

LEMMA RefusedSync ==
    ASSUME SyncInv, NEW c \in Collection, PlanRefused(c)
    PROVE  SyncInv'
BY StopSync DEF SyncInv, TypeOK, PlanRefused

LEMMA ReportSync ==
    ASSUME SyncInv, Report \/ Fail
    PROVE  SyncInv'
BY StopSync DEF SyncInv, TypeOK, Report, Fail

LEMMA TearSync ==
    ASSUME SyncInv, NEW c \in Collection, NEW n \in Identity, Tear(c, n)
    PROVE  SyncInv'
<1> DEFINE cut == [there |-> TRUE, id |-> NoID, conf |-> NoConf]
<1>1. cut \in Record
  BY RecordType DEF Record
<1>2. store' \in Sides
  BY <1>1 DEF SyncInv, TypeOK, Tear, Sides
<1>3. torn' \subseteq Collection \X Identity
  BY DEF SyncInv, TypeOK, Tear
<1> QED
  BY <1>2, <1>3, StopSync DEF Tear

\* Nothing that the parts of the invariant look at changes, except the phase.
LEMMA PlanDoneSync ==
    ASSUME SyncInv, PlanDone
    PROVE  SyncInv'
<1>1. CASE plan = {} /\ Stop
  BY <1>1, StopSync DEF SyncInv, TypeOK, PlanDone
<1>2. CASE phase' = direction /\ UNCHANGED <<remote, jobVars, edited>>
  <2> USE <1>2 DEF SyncInv, PlanDone, jobVars
  <2>1. TypeOK'
    BY DEF TypeOK, PlanInv
  <2>2. PlanInv'
    BY DEF PlanInv, Applying
  <2>3. SoundInv'
    BY DEF SoundInv, Readable, Indexable
  <2>4. PullInv'
    BY DEF PullInv, PlanInv, Current, Compare, Creates, Updates, Deletes
  <2>5. PushInv'
    BY DEF PushInv, PushedTo, Pending
  <2> QED
    BY <2>1, <2>2, <2>3, <2>4, <2>5
<1> QED
  BY <1>1, <1>2 DEF PlanDone

LEMMA PushDoneSync ==
    ASSUME SyncInv, PushDone
    PROVE  SyncInv'
<1> USE DEF SyncInv, PushDone, jobVars
<1>1. TypeOK'
  BY DEF TypeOK
<1>2. PlanInv'
  BY DEF PlanInv, Applying
<1>3. SoundInv'
  BY DEF SoundInv, Readable, Indexable
<1>4. PullInv'
  BY DEF PullInv, PlanInv, Current
<1>5. PushInv'
  BY DEF PushInv, PushedTo, Pending
<1> QED
  BY <1>1, <1>2, <1>3, <1>4, <1>5


\* A collection is read and compared: what is pending is as it was read, and what
\* is not needs nothing.
LEMMA PlanCollectionSync ==
    ASSUME SyncInv, NEW c \in Collection, PlanCollection(c)
    PROVE  SyncInv'
<1> DEFINE listed == By(remote[c])
           s == IF direction = "pull" THEN listed ELSE store[c]
           t == IF direction = "pull" THEN store[c] ELSE listed
<1>1. /\ remote[c] \in [ID -> Remote] /\ store[c] \in [Identity -> Record]
      /\ prune \in BOOLEAN
  BY DEF SyncInv, TypeOK, Sides
<1>2. listed \in [Identity -> Record]
  BY <1>1, ByType
<1>3. /\ phase = "plan" /\ c \in unread /\ Readable(c) /\ Unique(remote[c])
      /\ source' = [source EXCEPT ![c] = s]
      /\ destination' = [destination EXCEPT ![c] = t]
      /\ plan' = plan \cup Compare(c, s, t, prune)
      /\ unread' = unread \ {c}
      /\ UNCHANGED <<remote, store, torn, phase, direction, prune, written, edited>>
  BY ListedIsBy DEF PlanCollection, Unplanned
<1>4. s \in [Identity -> Record] /\ t \in [Identity -> Record]
  BY <1>1, <1>2
<1> HIDE DEF listed, s, t
<1>5. \A ch \in Compare(c, s, t, prune) : ch \in Change /\ ch.coll = c
  BY <1>1, <1>4, Planned
<1>6. TypeOK'
  BY <1>3, <1>4, <1>5 DEF SyncInv, TypeOK, Sides
<1>7. PlanInv'
  BY <1>3, <1>5 DEF SyncInv, PlanInv, Applying
<1>8. SoundInv'
  BY <1>3, ListedIsBy DEF SyncInv, SoundInv, Readable, Indexable
<1>9. \A ch \in plan : ch.coll # c
  BY <1>3 DEF SyncInv, PlanInv
<1>10. source'[c] = s /\ destination'[c] = t
  BY <1>3 DEF SyncInv, TypeOK, Sides
<1>11. \A d \in Collection \ {c} :
          source'[d] = source[d] /\ destination'[d] = destination[d]
  BY <1>3 DEF SyncInv, TypeOK, Sides
<1>12. PullInv'
  <2>1. phase' # "pull" /\ written' = {}
    BY <1>3 DEF SyncInv, PullInv
  <2>2. ASSUME direction' = "pull", NEW d \in Collection \ unread',
               \A ch \in plan' : ch.coll # d
        PROVE  Compare(d, source'[d], store'[d], prune') = {}
    <3>1. CASE d = c
      <4>1. Compare(c, s, t, prune) = {}
        BY <2>2, <3>1, <1>3, <1>5
      <4>2. t = store[c]
        BY <2>2, <1>3 DEF t
      <4> QED
        BY <3>1, <4>1, <4>2, <1>3, <1>10
    <3>2. CASE d # c
      <4>1. Compare(d, source[d], store[d], prune) = {}
        BY <2>2, <3>2, <1>3 DEF SyncInv, PullInv
      <4> QED
        BY <3>2, <4>1, <1>3, <1>11
    <3> QED
      BY <3>1, <3>2
  <2> QED
    BY <2>1, <2>2 DEF PullInv, Current
<1>13. PushInv'
  <2> SUFFICES ASSUME direction' = "push", NEW d \in Collection \ (unread' \cup edited')
               PROVE  PushedTo(d)'
    BY DEF PushInv
  <2>1. CASE d = c
    <3>1. t = By(remote[c])
      BY <1>3 DEF t, listed
    <3>2. ASSUME NEW ch \in plan', ch.coll = c
          PROVE  ch \in Compare(c, s, t, prune)
      BY <3>2, <1>3, <1>9
    <3>3. ASSUME NEW n \in Identity, ~Pending(c, n)'
          PROVE  Settled(s[n], t[n], t[n], prune)
      <4>1. \A ch \in Compare(c, s, t, prune) : ch.name # n
        BY <3>3, <1>3, <1>5 DEF Pending
      <4> QED
        BY <4>1, <1>1, <1>4, UnplannedIsSettled
    <3> QED
      BY <2>1, <3>1, <3>2, <3>3, <1>3, <1>10 DEF PushedTo
  <2>2. CASE d # c
    <3>1. PushedTo(d)
      BY <2>2, <1>3 DEF SyncInv, PushInv
    <3>2. \A n \in Identity : Pending(d, n)' <=> Pending(d, n)
      BY <2>2, <1>3, <1>5 DEF Pending
    <3>3. \A ch \in plan' : ch.coll = d => ch \in plan
      BY <2>2, <1>3, <1>5
    <3> QED
      BY <2>2, <3>1, <3>2, <3>3, <1>3, <1>11 DEF PushedTo
  <2> QED
    BY <2>1, <2>2
<1> QED
  BY <1>6, <1>7, <1>8, <1>12, <1>13 DEF SyncInv

\* An edit of the controller is of a collection that the invariant then leaves
\* alone.
LEMMA EditControllerSync ==
    ASSUME SyncInv, NEW c \in Collection, NEW i \in ID, EditController(c, i)
    PROVE  SyncInv'
<1> USE DEF SyncInv
<1>1. PICK q \in [ID -> Remote] : remote' = [remote EXCEPT ![c] = q]
  <2>0. remote[c] \in [ID -> Remote] /\ remote \in [Collection -> [ID -> Remote]]
    BY DEF TypeOK
  <2>1. ASSUME NEW r \in Remote, remote' = [remote EXCEPT ![c][i] = r]
        PROVE  /\ [remote[c] EXCEPT ![i] = r] \in [ID -> Remote]
               /\ remote' = [remote EXCEPT ![c] = [remote[c] EXCEPT ![i] = r]]
    BY <2>0, <2>1
  <2>2. CASE \E n \in Identity, conf \in Conf :
                remote' = [remote EXCEPT ![c][i] =
                              [there |-> TRUE, name |-> n, conf |-> conf]]
    <3>1. PICK n \in Identity, conf \in Conf :
                remote' = [remote EXCEPT ![c][i] =
                              [there |-> TRUE, name |-> n, conf |-> conf]]
      BY <2>2
    <3>2. [there |-> TRUE, name |-> n, conf |-> conf] \in Remote
      BY DEF Remote
    <3> QED
      BY <3>1, <3>2, <2>1
  <2>3. CASE \E f \in Field, v \in Value0 :
                remote' = [remote EXCEPT ![c][i].conf[f] = v]
    <3>1. PICK f \in Field, v \in Value0 : remote' = [remote EXCEPT ![c][i].conf[f] = v]
      BY <2>3
    <3> DEFINE r == [remote[c][i] EXCEPT !.conf[f] = v]
    <3>2. remote[c][i] \in Remote
      BY <2>0
    <3>3. r \in Remote
      BY <3>2 DEF Remote, Conf
    <3>4. remote' = [remote EXCEPT ![c][i] = r]
      BY <3>1, <2>0
    <3> HIDE DEF r
    <3> QED
      BY <3>3, <3>4, <2>1
  <2>4. CASE remote' = [remote EXCEPT ![c][i] = NoRemote]
    BY <2>4, <2>1, RecordType
  <2> QED
    BY <2>2, <2>3, <2>4 DEF EditController
<1>2. \A d \in Collection \ {c} : remote'[d] = remote[d]
  BY <1>1 DEF TypeOK
<1>3. /\ edited' = IF phase = "idle" THEN {} ELSE edited \cup {c}
      /\ UNCHANGED <<store, torn, phase, direction, prune, unread, source,
                     destination, plan, written>>
  BY DEF EditController, jobVars
<1>4. TypeOK'
  BY <1>1, <1>3 DEF TypeOK
<1>5. PlanInv'
  BY <1>3 DEF PlanInv, Applying
<1>6. SoundInv'
  BY <1>2, <1>3 DEF SoundInv, Readable, Indexable
<1>7. PullInv'
  BY <1>3 DEF PullInv, Current
<1>8. PushInv'
  <2> SUFFICES ASSUME phase # "idle", direction = "push",
                      NEW d \in Collection \ (unread \cup edited'), d # c
               PROVE  PushedTo(d)'
    BY <1>3 DEF PushInv
  <2>1. PushedTo(d)
    BY <1>3 DEF PushInv
  <2> QED
    BY <2>1, <1>2, <1>3 DEF PushedTo, Pending
<1> QED
  BY <1>4, <1>5, <1>6, <1>7, <1>8

LEMMA EditStoreSync ==
    ASSUME SyncInv, NEW c \in Collection, NEW n \in Identity, EditStore(c, n)
    PROVE  SyncInv'
<1> USE DEF SyncInv
<1>1. store' \in Sides
  <2>0. store[c][n] \in Record /\ store \in [Collection -> [Identity -> Record]]
    BY DEF TypeOK, Sides
  <2>1. CASE \E f \in Managed, v \in Value : store' = [store EXCEPT ![c][n].conf[f] = v]
    <3>1. PICK f \in Managed, v \in Value : store' = [store EXCEPT ![c][n].conf[f] = v]
      BY <2>1
    <3> DEFINE r == [store[c][n] EXCEPT !.conf[f] = v]
    <3>2. r \in Record
      BY <2>0, SyncAssumption DEF Record, Conf, Value0
    <3>3. store' = [store EXCEPT ![c][n] = r]
      BY <3>1, <2>0
    <3> HIDE DEF r
    <3> QED
      BY <3>2, <3>3, <2>0 DEF Sides
  <2>2. CASE store' = [store EXCEPT ![c][n] = NoRecord]
    BY <2>0, <2>2, RecordType DEF Sides
  <2> QED
    BY <2>1, <2>2 DEF EditStore
<1>2. /\ phase = "idle" /\ torn' \subseteq torn
      /\ UNCHANGED <<remote, phase, direction, prune, unread, source,
                     destination, plan, written, edited>>
  BY DEF EditStore, jobVars
<1>3. TypeOK'
  BY <1>1, <1>2 DEF TypeOK
<1>4. PlanInv' /\ SoundInv' /\ PullInv' /\ PushInv'
  BY <1>2 DEF PlanInv, SoundInv, PullInv, PushInv, Applying, Current
<1> QED
  BY <1>3, <1>4


\* Only one collection is being stored.
LEMMA CurrentIsOne ==
    ASSUME NEW c \in Collection, NEW d \in Collection, Current(c), Current(d)
    PROVE  c = d
BY SyncAssumption DEF Current

LEMMA PullWriteSync ==
    ASSUME SyncInv, NEW c \in Collection, NEW n \in Identity, PullWrite(c, n)
    PROVE  SyncInv'
<1> USE DEF SyncInv
<1> DEFINE r == [there |-> TRUE, id |-> NoID, conf |-> Project(source[c][n].conf)]
<1>1. r \in Record
  <2>1. source[c][n].conf \in Conf
    BY DEF TypeOK, Sides, Record
  <2> QED
    BY <2>1, OverlayType DEF Record
<1>2. /\ store' = [store EXCEPT ![c][n] = r] /\ written' = written \cup {n}
      /\ Current(c) /\ source[c][n].there
      /\ UNCHANGED <<remote, torn, phase, direction, prune, unread, source,
                     destination, plan, edited>>
  BY DEF PullWrite
<1>3. r.there /\ r.conf = Project(source[c][n].conf)
  OBVIOUS
<1> HIDE DEF r
<1>4. /\ store'[c][n] = r
      /\ \A m \in Identity \ {n} : store'[c][m] = store[c][m]
      /\ \A d \in Collection \ {c} : store'[d] = store[d]
  BY <1>2 DEF TypeOK, Sides
<1>5. TypeOK'
  BY <1>1, <1>2 DEF TypeOK, Sides
<1>6. PlanInv'
  BY <1>2 DEF PlanInv, Applying
<1>7. SoundInv'
  BY <1>2 DEF SoundInv, Readable, Indexable
<1>8. PullInv'
  <2>1. phase = "pull" /\ \E ch \in plan : ch.coll = c
    BY <1>2 DEF Current
  <2>2. ASSUME NEW d \in Collection, Current(d)', NEW m \in written'
        PROVE  /\ source'[d][m].there /\ store'[d][m].there
               /\ store'[d][m].conf = Project(source'[d][m].conf)
    <3>1. d = c
      BY <2>2, <1>2, CurrentIsOne DEF Current
    <3>2. m \in written => /\ source[c][m].there /\ store[c][m].there
                           /\ store[c][m].conf = Project(source[c][m].conf)
      BY <1>2 DEF PullInv
    <3>3. m \in Identity
      BY <1>5 DEF TypeOK
    <3> QED
      BY <3>1, <3>2, <3>3, <1>2, <1>3, <1>4
  <2>3. ASSUME NEW d \in Collection \ unread', \A ch \in plan' : ch.coll # d
        PROVE  Compare(d, source'[d], store'[d], prune') = {}
    <3>1. d # c
      BY <2>1, <2>3, <1>2
    <3>2. Compare(d, source[d], store[d], prune) = {}
      BY <2>1, <2>3, <1>2 DEF PullInv, PlanInv
    <3> QED
      BY <3>1, <3>2, <1>2, <1>4
  <2> QED
    BY <2>1, <2>2, <2>3, <1>2 DEF PullInv
<1>9. PushInv'
  BY <1>2 DEF PushInv, PlanInv, Current
<1> QED
  BY <1>5, <1>6, <1>7, <1>8, <1>9

LEMMA PullRemoveSync ==
    ASSUME SyncInv, NEW c \in Collection, NEW n \in Identity, PullRemove(c, n)
    PROVE  SyncInv'
<1> USE DEF SyncInv
<1>1. /\ store' = [store EXCEPT ![c][n] = NoRecord] /\ n \notin written
      /\ Current(c)
      /\ UNCHANGED <<remote, torn, phase, direction, prune, unread, source,
                     destination, plan, written, edited>>
  BY DEF PullRemove, jobVars
<1>2. /\ \A m \in Identity \ {n} : store'[c][m] = store[c][m]
      /\ \A d \in Collection \ {c} : store'[d] = store[d]
  BY <1>1 DEF TypeOK, Sides
<1>3. TypeOK'
  BY <1>1, RecordType DEF TypeOK, Sides
<1>4. PlanInv'
  BY <1>1 DEF PlanInv, Applying
<1>5. SoundInv'
  BY <1>1 DEF SoundInv, Readable, Indexable
<1>6. PullInv'
  <2>1. phase = "pull" /\ \E ch \in plan : ch.coll = c
    BY <1>1 DEF Current
  <2>2. ASSUME NEW d \in Collection, Current(d)', NEW m \in written'
        PROVE  /\ source'[d][m].there /\ store'[d][m].there
               /\ store'[d][m].conf = Project(source'[d][m].conf)
    <3>1. d = c
      BY <2>2, <1>1, CurrentIsOne DEF Current
    <3>2. m \in Identity \ {n}
      BY <1>1 DEF TypeOK
    <3> QED
      BY <3>1, <3>2, <1>1, <1>2 DEF PullInv
  <2>3. ASSUME NEW d \in Collection \ unread', \A ch \in plan' : ch.coll # d
        PROVE  Compare(d, source'[d], store'[d], prune') = {}
    <3>1. d # c
      BY <2>1, <2>3, <1>1
    <3>2. Compare(d, source[d], store[d], prune) = {}
      BY <2>1, <2>3, <1>1 DEF PullInv, PlanInv
    <3> QED
      BY <3>1, <3>2, <1>1, <1>2
  <2> QED
    BY <2>1, <2>2, <2>3, <1>1 DEF PullInv
<1>7. PushInv'
  BY <1>1 DEF PushInv, PlanInv, Current
<1> QED
  BY <1>3, <1>4, <1>5, <1>6, <1>7

\* A collection whose records are all stored, and no others, needs nothing.
LEMMA PullCollectionDoneSync ==
    ASSUME SyncInv, NEW c \in Collection, PullCollectionDone(c)
    PROVE  SyncInv'
<1> USE DEF SyncInv
<1>1. /\ Current(c) /\ AllWritten(c) /\ phase = "pull" /\ direction = "pull"
      /\ \A n \in Identity : store[c][n].there => n \in written
      /\ plan' = {ch \in plan : ch.coll # c} /\ written' = {}
      /\ phase' = IF plan' = {} THEN "report" ELSE phase
      /\ UNCHANGED <<remote, store, torn, direction, prune, unread, source,
                     destination, edited>>
  BY DEF PullCollectionDone, Current, PlanInv
<1>2. TypeOK'
  BY <1>1 DEF TypeOK
<1>3. PlanInv'
  BY <1>1 DEF PlanInv, Applying
<1>4. SoundInv'
  BY <1>1 DEF SoundInv, Readable, Indexable
<1>5. Compare(c, source[c], store[c], prune) = {}
  <2>1. /\ source[c] \in [Identity -> Record] /\ store[c] \in [Identity -> Record]
        /\ prune \in BOOLEAN
    BY DEF TypeOK, Sides
  <2>2. ASSUME NEW n \in Identity, source[c][n].there
        PROVE  /\ store[c][n].there
               /\ Overlay(source[c][n].conf, store[c][n].conf) = store[c][n].conf
    <3>1. store[c][n].there /\ store[c][n].conf = Project(source[c][n].conf)
      BY <1>1, <2>2 DEF AllWritten, PullInv
    <3>2. source[c][n].conf \in Conf
      BY <2>1 DEF Record
    <3> QED
      BY <3>1, <3>2, ProjectSettles
  <2>3. ASSUME NEW n \in Identity, ~source[c][n].there
        PROVE  ~store[c][n].there
    BY <1>1, <2>3 DEF PullInv
  <2> QED
    BY <2>1, <2>2, <2>3, SettledNeedsNothing
<1>6. PullInv'
  <2>1. ASSUME NEW d \in Collection \ unread', \A ch \in plan' : ch.coll # d
        PROVE  Compare(d, source'[d], store'[d], prune') = {}
    <3>1. CASE d = c
      BY <3>1, <1>1, <1>5
    <3>2. CASE d # c
      <4>1. \A ch \in plan : ch.coll # d
        BY <2>1, <3>2, <1>1
      <4>2. Compare(d, source[d], store[d], prune) = {}
        BY <2>1, <4>1, <1>1 DEF PullInv
      <4> QED
        BY <4>2, <1>1
    <3> QED
      BY <3>1, <3>2
  <2> QED
    BY <2>1, <1>1 DEF PullInv
<1>7. PushInv'
  BY <1>1 DEF PushInv
<1> QED
  BY <1>2, <1>3, <1>4, <1>6, <1>7


\* What a request makes of a sound collection: the names it is not about are
\* listed as before, the one it is about is settled, and names stay unique.
LEMMA StoredSettles ==
    ASSUME NEW c \in Collection, NEW r \in [ID -> Remote], Unique(r),
           NEW q \in [ID -> Remote], NEW id \in ID, NEW n \in Identity,
           \A i \in ID \ {id} : q[i] = r[i],
           q[id].there => q[id].name = n,
           r[id].there => r[id].name = n,
           ~r[id].there => ~By(r)[n].there
    PROVE  /\ Unique(q)
           /\ \A m \in Identity \ {n} : By(q)[m] = By(r)[m]
           /\ IF q[id].there
              THEN By(q)[n] = [there |-> TRUE, id |-> id, conf |-> q[id].conf]
              ELSE ~By(q)[n].there
<1>1. ASSUME NEW i \in ID \ {id}, r[i].there PROVE r[i].name # n
  <2> SUFFICES ASSUME r[i].name = n PROVE FALSE
    OBVIOUS
  <2>1. By(r)[n].there
    <3>1. By(r)[r[i].name] = [there |-> TRUE, id |-> i, conf |-> r[i].conf]
      BY <1>1, ByFound
    <3> QED
      BY <3>1
  <2>2. r[id].there /\ r[id].name = n
    BY <2>1
  <2> QED
    BY <1>1, <2>2 DEF Unique
<1>2. Unique(q)
  BY <1>1 DEF Unique
<1>3. ASSUME NEW m \in Identity \ {n} PROVE By(q)[m] = By(r)[m]
  BY <1>2, <1>3, BySame
<1>4. CASE q[id].there
  <2>1. By(q)[q[id].name] = [there |-> TRUE, id |-> id, conf |-> q[id].conf]
    BY <1>2, <1>4, ByFound
  <2> QED
    BY <1>2, <1>3, <1>4, <2>1
<1>5. CASE ~q[id].there
  <2>1. \A i \in ID : ~(q[i].there /\ q[i].name = n)
    BY <1>1, <1>5
  <2> QED
    BY <2>1, <1>2, <1>3, <1>5, ByMissing DEF NoRecord
<1> QED
  BY <1>2, <1>3, <1>4, <1>5

\* One change is sent and accepted.
LEMMA PushChangeSync ==
    ASSUME SyncInv, NEW ch \in plan, NEW id \in ID, NEW own \in Conf,
           PushChange(ch, id, own)
    PROVE  SyncInv'
<1> USE DEF SyncInv
<1> DEFINE c == ch.coll
           n == ch.name
           r == remote[c]
           q == remote'[c]
<1>0. /\ c \in Collection /\ n \in Identity /\ r \in [ID -> Remote] /\ ch.conf \in Conf
      /\ ch.action \in {"create", "update", "delete"}
  BY DEF TypeOK, Change
<1>1. /\ phase = "push" /\ direction = "push" /\ Stored(ch, id, own)
      /\ plan' = plan \ {ch}
      /\ UNCHANGED <<store, torn, phase, direction, prune, unread, source,
                     destination, written, edited>>
  BY DEF PushChange, PlanInv
<1>2. /\ ch.action = "create" =>
            /\ ~r[id].there
            /\ remote' = [remote EXCEPT ![c][id] =
                 [there |-> TRUE, name |-> n,
                  conf |-> [f \in Field |-> IF f \in Managed THEN ch.conf[f]
                                                             ELSE own[f]]]]
      /\ ch.action = "update" =>
            /\ id = ch.id /\ r[id].there
            /\ remote' = [remote EXCEPT ![c][id].conf = ch.conf]
      /\ ch.action = "delete" =>
            /\ id = ch.id /\ r[id].there
            /\ remote' = [remote EXCEPT ![c][id] = NoRemote]
  BY <1>1 DEF Stored
<1> DEFINE made == [f \in Field |-> IF f \in Managed THEN ch.conf[f] ELSE own[f]]
           new == IF ch.action = "create"
                  THEN [there |-> TRUE, name |-> n, conf |-> made]
                  ELSE IF ch.action = "update"
                       THEN [there |-> TRUE, name |-> r[id].name, conf |-> ch.conf]
                       ELSE NoRemote
<1>3. new \in Remote
  <2>1. made \in Conf
    BY <1>0 DEF Conf
  <2>2. r[id] \in Remote
    BY <1>0
  <2> QED
    BY <1>0, <2>1, <2>2, RecordType DEF Remote
<1>4. remote' = [remote EXCEPT ![c][id] = new]
  <2>1. CASE ch.action = "update"
    <3>1. r[id] \in Remote
      BY <1>0
    <3>2. r[id].there = TRUE
      BY <2>1, <1>2, <3>1 DEF Remote
    <3>3. [r[id] EXCEPT !.conf = ch.conf] = new
      BY <2>1, <1>0, <3>1, <3>2, UpdatedRemote
    <3> QED
      BY <2>1, <1>2, <3>3 DEF TypeOK
  <2> QED
    BY <1>0, <1>2, <2>1
<1>5. /\ q \in [ID -> Remote] /\ q[id] = new
      /\ \A i \in ID \ {id} : q[i] = r[i]
      /\ \A d \in Collection \ {c} : remote'[d] = remote[d]
      /\ remote' \in [Collection -> [ID -> Remote]]
  <2> HIDE DEF new
  <2> QED
    BY <1>0, <1>3, <1>4 DEF TypeOK
<1>6. TypeOK'
  BY <1>1, <1>5 DEF TypeOK
<1>7. PlanInv'
  BY <1>1 DEF PlanInv, Applying
<1>8. PullInv'
  BY <1>1 DEF PullInv, Current
<1>9. ASSUME c \notin edited
      PROVE  Unique(q) /\ PushedTo(c)'
  <2> DEFINE s == source[c]
             t == destination[c]
  <2>1. /\ c \notin unread /\ Unique(r) /\ PushedTo(c)
        /\ s \in [Identity -> Record] /\ t \in [Identity -> Record] /\ prune \in BOOLEAN
    BY <1>0, <1>1, <1>9, ListedIsBy DEF PlanInv, SoundInv, PushInv, TypeOK, Sides
  <2>2. ch \in Compare(c, s, t, prune) /\ By(r)[n] = t[n]
    BY <2>1, <1>0 DEF PushedTo, Pending
  <2> HIDE DEF c, n, r, q, s, t, new
  <2>3. /\ ch.action = "create" =>
              /\ s[n].there /\ ~t[n].there /\ ch.conf = Project(s[n].conf)
        /\ ch.action = "update" =>
              /\ s[n].there /\ t[n].there /\ ch.id = t[n].id
              /\ ch.conf = Overlay(s[n].conf, t[n].conf)
        /\ ch.action = "delete" =>
              prune /\ ~s[n].there /\ t[n].there /\ ch.id = t[n].id
    BY <1>0, <2>1, <2>2, Planned DEF n
  <2>4. r[id].there => r[id].name = n
    BY <1>0, <1>2, <2>2, <2>3, ByHeld
  <2>5. ~r[id].there => ~By(r)[n].there
    BY <1>0, <1>2, <2>2, <2>3
  <2>6. q[id].there => q[id].name = n
    BY <1>0, <1>2, <1>5, <2>4 DEF new, NoRemote
  <2>7. /\ Unique(q)
        /\ \A m \in Identity \ {n} : By(q)[m] = By(r)[m]
        /\ IF q[id].there
           THEN By(q)[n] = [there |-> TRUE, id |-> id, conf |-> q[id].conf]
           ELSE ~By(q)[n].there
    BY <1>0, <1>5, <2>1, <2>4, <2>5, <2>6, StoredSettles
  <2>8. Settled(s[n], t[n], By(q)[n], prune)
    <3>0. s[n].conf \in Conf /\ t[n].conf \in Conf
      BY <1>0, <2>1 DEF Record
    <3>1. CASE ch.action = "create"
      <4>1. By(q)[n].there /\ By(q)[n].conf = made
        BY <3>1, <2>7, <1>5 DEF new
      <4>2. Overlay(s[n].conf, made) = made
        BY <3>0, <3>1, <2>3 DEF Overlay, Project, Conf
      <4> QED
        BY <3>1, <4>1, <4>2, <2>3 DEF Settled
    <3>2. CASE ch.action = "update"
      <4>1. /\ By(q)[n].there /\ By(q)[n].id = t[n].id
            /\ By(q)[n].conf = Overlay(s[n].conf, t[n].conf)
        BY <3>2, <2>3, <2>7, <1>2, <1>5 DEF new
      <4>2. Overlay(s[n].conf, Overlay(s[n].conf, t[n].conf))
               = Overlay(s[n].conf, t[n].conf)
        BY <3>0 DEF Overlay, Conf
      <4> QED
        BY <3>2, <4>1, <4>2, <2>3 DEF Settled
    <3>3. CASE ch.action = "delete"
      <4>1. ~By(q)[n].there
        BY <3>3, <2>7, <1>5 DEF new, NoRemote
      <4> QED
        BY <3>3, <4>1, <2>3 DEF Settled
    <3> QED
      BY <1>0, <3>1, <3>2, <3>3
  <2>9. ~Pending(c, n)'
    <3> SUFFICES ASSUME NEW o \in plan', o.coll = c, o.name = n PROVE FALSE
      BY DEF Pending
    <3>1. o \in plan /\ o # ch
      BY <1>1
    <3>2. o \in Compare(c, s, t, prune)
      BY <3>1, <2>1 DEF PushedTo, s, t
    <3> QED
      BY <3>1, <3>2, <2>1, <2>2, <1>0, PlannedOnce DEF n
  <2>10. \A m \in Identity \ {n} : Pending(c, m)' <=> Pending(c, m)
    BY <1>1 DEF Pending, n
  <2>11. PushedTo(c)'
    BY <1>1, <2>1, <2>2, <2>7, <2>8, <2>9, <2>10 DEF PushedTo, q, r, s, t
  <2> QED
    BY <2>7, <2>11
<1>10. ASSUME NEW d \in Collection \ {c}
       PROVE  /\ Indexable(d)' <=> Indexable(d)
              /\ PushedTo(d) => PushedTo(d)'
  <2>1. remote'[d] = remote[d]
    BY <1>5
  <2>2. \A m \in Identity : Pending(d, m)' <=> Pending(d, m)
    BY <1>1 DEF Pending
  <2> QED
    BY <1>1, <2>1, <2>2 DEF Indexable, PushedTo
<1>11. SoundInv'
  BY <1>0, <1>1, <1>9, <1>10, ListedIsBy DEF SoundInv, Readable
<1>12. PushInv'
  BY <1>0, <1>1, <1>9, <1>10 DEF PushInv
<1> QED
  BY <1>6, <1>7, <1>8, <1>11, <1>12

\* The invariant is inductive.
LEMMA SyncStep == SyncInv /\ [Next]_vars => SyncInv'
<1> SUFFICES ASSUME SyncInv, [Next]_vars PROVE SyncInv'
  OBVIOUS
<1>1. CASE \E dir \in Direction, pruned \in BOOLEAN : Start(dir, pruned)
  BY <1>1, StartSync
<1>2. CASE \E c \in Collection : Sync(c)
  BY <1>2, PlanCollectionSync, RefusedSync, PullWriteSync, PullRemoveSync, TearSync,
     PullCollectionDoneSync DEF Sync
<1>3. CASE PlanDone \/ PushDone \/ Report \/ Fail
  BY <1>3, PlanDoneSync, PushDoneSync, ReportSync
<1>4. CASE \E ch \in plan, id \in ID, own \in Conf : PushChange(ch, id, own)
  BY <1>4, PushChangeSync
<1>5. CASE \E c \in Collection, i \in ID : EditController(c, i)
  BY <1>5, EditControllerSync
<1>6. CASE \E c \in Collection, n \in Identity : EditStore(c, n)
  BY <1>6, EditStoreSync
<1>7. CASE UNCHANGED vars
  <2> USE <1>7 DEF vars, jobVars, SyncInv
  <2>1. TypeOK' /\ PlanInv'
    BY DEF TypeOK, PlanInv, Applying
  <2>2. SoundInv'
    BY DEF SoundInv, Readable, Indexable
  <2>3. PullInv'
    BY DEF PullInv, Current
  <2>4. PushInv'
    BY DEF PushInv, PushedTo, Pending
  <2> QED
    BY <2>1, <2>2, <2>3, <2>4
<1> QED
  BY <1>1, <1>2, <1>3, <1>4, <1>5, <1>6, <1>7 DEF Next

LEMMA SyncInductive == Spec => []SyncInv
BY InitSync, SyncStep, PTL DEF Spec

-------------------------------------------------------------------------------
(* Theorems *)

\* Nothing is written before every selected collection has been read and compared
\* (planSync before applySync), so a sync that must refuse one collection changes
\* none, whatever crashes and edits went before.
THEOREM NothingIsWrittenEarly == Spec => PlansBeforeWriting
<1> DEFINE Early ==
       phase # "idle" /\ (store' # store \/ (remote' # remote /\ plan' # plan)) =>
          /\ unread = {}
          /\ \A c \in Collection \ edited : Indexable(c) /\ Readable(c)
<1>1. SyncInv /\ [Next]_vars => [Early]_vars
  <2> SUFFICES ASSUME SyncInv, Next, phase # "idle",
                      store' # store \/ (remote' # remote /\ plan' # plan)
               PROVE  unread = {} /\ \A c \in Collection \ edited :
                                        Indexable(c) /\ Readable(c)
    OBVIOUS
  <2>1. Applying
    <3>1. CASE \E c \in Collection : Sync(c)
      BY <3>1 DEF Sync, PlanCollection, PlanRefused, PullWrite, PullRemove, Tear,
         PullCollectionDone, Current, Applying, Stop
    <3>2. CASE \E ch \in plan, id \in ID, own \in Conf : PushChange(ch, id, own)
      BY <3>2 DEF PushChange, Applying
    <3>3. CASE \/ \E dir \in Direction, pruned \in BOOLEAN : Start(dir, pruned)
               \/ PlanDone \/ PushDone \/ Report \/ Fail
      BY <3>3 DEF Start, PlanDone, PushDone, Report, Fail, Stop
    <3>4. CASE \/ \E c \in Collection, i \in ID : EditController(c, i)
               \/ \E c \in Collection, n \in Identity : EditStore(c, n)
      BY <3>4 DEF EditController, EditStore, jobVars
    <3> QED
      BY <3>1, <3>2, <3>3, <3>4 DEF Next
  <2> QED
    BY <2>1 DEF SyncInv, PlanInv, SoundInv, Applying
<1> QED
  BY <1>1, SyncInductive, PTL DEF PlansBeforeWriting, Spec

\* A sync never makes a collection ambiguous, not even one that repeats the
\* creations of a sync that failed half way.
THEOREM IdentityIsKept == Spec => []SyncKeepsIdentity
<1>1. SyncInv => SyncKeepsIdentity
  BY DEF SyncInv, SyncKeepsIdentity, PlanInv, SoundInv, Applying
<1> QED
  BY <1>1, SyncInductive, PTL

\* However far a push got, a record that it need not remove keeps its id and every
\* field that the source does not set.
THEOREM PushIsAnOverlay == Spec => []PushOverlays
<1>1. SyncInv => PushOverlays
  <2> SUFFICES ASSUME SyncInv, Applying, direction = "push",
                      NEW c \in Collection \ edited, NEW n \in Identity,
                      destination[c][n].there, source[c][n].there \/ ~prune
               PROVE  LET now == By(remote[c])[n]
                      IN  /\ now.there /\ now.id = destination[c][n].id
                          /\ \A f \in Field :
                                \/ now.conf[f] = destination[c][n].conf[f]
                                \/ /\ f \in Managed
                                   /\ source[c][n].conf[f] \in Value
                                   /\ now.conf[f] = source[c][n].conf[f]
    BY ListedIsBy DEF PushOverlays
  <2>1. PushedTo(c)
    BY DEF SyncInv, PlanInv, PushInv, Applying
  <2>2. source[c][n].conf \in Conf
    BY DEF SyncInv, TypeOK, Sides, Record
  <2>3. CASE Pending(c, n)
    BY <2>1, <2>3 DEF PushedTo
  <2>4. CASE ~Pending(c, n)
    <3>1. Settled(source[c][n], destination[c][n], By(remote[c])[n], prune)
      BY <2>1, <2>4 DEF PushedTo
    <3>2. CASE source[c][n].there
      BY <2>2, <3>1, <3>2 DEF Settled, Overlay, Conf, Value0
    <3>3. CASE ~source[c][n].there
      BY <3>1, <3>3 DEF Settled
    <3> QED
      BY <3>2, <3>3
  <2> QED
    BY <2>3, <2>4
<1> QED
  BY <1>1, SyncInductive, PTL

\* Comparing again after a sync that ran to its end gives an empty plan: the
\* comparison and what applies it agree, in both directions.
THEOREM SyncIsComplete == Spec => []SyncConverges
<1>1. SyncInv => SyncConverges
  <2> SUFFICES ASSUME SyncInv, phase = "report", NEW c \in Collection \ edited
               PROVE  Compare(c, source[c], DestinationNow(c), prune) = {}
    BY DEF SyncConverges
  <2>1. unread = {} /\ plan = {} /\ direction \in {"pull", "push"}
    BY DEF SyncInv, PlanInv, Applying
  <2>2. CASE direction = "pull"
    BY <2>1, <2>2 DEF SyncInv, PullInv, DestinationNow
  <2>3. CASE direction = "push"
    <3>1. \A n \in Identity :
             Settled(source[c][n], destination[c][n], By(remote[c])[n], prune)
      BY <2>1, <2>3 DEF SyncInv, PushInv, PushedTo, Pending
    <3>2. /\ source[c] \in [Identity -> Record] /\ By(remote[c]) \in [Identity -> Record]
          /\ prune \in BOOLEAN
      BY ByType DEF SyncInv, TypeOK, Sides
    <3>3. DestinationNow(c) = By(remote[c])
      BY <2>3, ListedIsBy DEF DestinationNow
    <3> QED
      BY <3>1, <3>2, <3>3, SettledNeedsNothing DEF Settled
  <2> QED
    BY <2>1, <2>2, <2>3
<1> QED
  BY <1>1, SyncInductive, PTL


===============================================================================
