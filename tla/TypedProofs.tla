----------------------------- MODULE TypedProofs ------------------------------
(***************************************************************************)
(* Typed configurations on their way to a device: Controller never has two *)
(* of them pending, and admits a resource change only when it knows which  *)
(* version the device runs.                                                *)
(*                                                                         *)
(* The invariant follows one configuration from its queue to the report    *)
(* that acknowledges it.  It holds as long as typed operations are alone   *)
(* with the device (TypedPath): an adoption or a raw configuration may be  *)
(* queued behind another one, a late inform may bring a report that is out *)
(* of date, and a device that another tool reconfigures has not reported   *)
(* it yet.                                                                 *)
(***************************************************************************)
EXTENDS ControllerProofs

TypedPath ==
    /\ Operator \cap {"adopt", "raw"} = {}
    /\ Faults \cap {"late", "drift"} = {}

-------------------------------------------------------------------------------
(* The stages of a configuration, for a queue q, an awaited version a, a      *)
(* report rep, the device's version dv and a reply rp                          *)

\* Nothing is pending, though a lost configuration may still be awaited.
Idle(q, rep, dv, rp) ==
    rep.ver = dv /\ ~IsSetparam(rp) /\ Waiting(q) = {}

\* The configuration waits in the queue, and is not what the device runs.
Queued(q, a, rep, dv, rp) ==
    /\ rep.ver = dv /\ ~IsSetparam(rp)
    /\ a \notin {NoVersion, dv}
    /\ \E i \in 1..Len(q) : Waiting(q) = {i} /\ q[i].ver = a

\* It is on its way to the device.
Sent(q, a, rep, dv, rp) ==
    /\ rep.ver = dv /\ IsSetparam(rp) /\ rp.ver = a
    /\ a # NoVersion
    /\ Waiting(q) = {}

\* The device runs it and has not reported it.
Delivered(q, a, dv, rp) ==
    ~IsSetparam(rp) /\ Waiting(q) = {} /\ a = dv /\ a # NoVersion

PathOK(q, a, rep, dv, inf, rp) ==
    /\ inf.sent => rp = NoReply /\ inf.ver = dv
    /\ ~rep.got => Waiting(q) = {}
    /\ rep.got => \/ Idle(q, rep, dv, rp)
                  \/ Queued(q, a, rep, dv, rp)
                  \/ Sent(q, a, rep, dv, rp)
                  \/ Delivered(q, a, dv, rp)

PathInv ==
    \A d \in Device :
       /\ ~late[d].sent
       /\ PathOK(queue[d], awaiting[d], report[d], devVer[d], inform[d], reply[d])

-------------------------------------------------------------------------------
(* Queues *)

LEMMA WaitingEmpty == Waiting(<<>>) = {}
BY DEF Waiting

LEMMA WaitingFirst ==
    ASSUME NEW c \in Reply, IsSetparam(c)
    PROVE  /\ Append(<<>>, c) \in Seq(Reply) /\ 1 \in 1..Len(Append(<<>>, c))
           /\ Append(<<>>, c)[1] = c
           /\ Waiting(Append(<<>>, c)) = {1}
<1> DEFINE s == Append(<<>>, c)
<1>1. s \in Seq(Reply) /\ Len(s) = 1 /\ s[1] = c
  OBVIOUS
<1> HIDE DEF s
<1>2. Waiting(s) = {1}
  BY <1>1 DEF Waiting
<1> QED
  BY <1>1, <1>2 DEF s

\* A command at the end leaves the configurations where they are.
LEMMA WaitingAppend ==
    ASSUME NEW q \in Seq(Reply), NEW c \in Reply, ~IsSetparam(c)
    PROVE  /\ Waiting(Append(q, c)) = Waiting(q)
           /\ \A i \in 1..Len(q) : i \in 1..Len(Append(q, c)) /\ Append(q, c)[i] = q[i]
<1> DEFINE s == Append(q, c)
<1>1. /\ Len(s) = Len(q) + 1 /\ s[Len(s)] = c /\ Len(q) \in Nat
      /\ \A i \in 1..Len(q) : s[i] = q[i]
  OBVIOUS
<1> HIDE DEF s
<1>2. \A i \in 1..Len(q) : i \in 1..Len(s)
  BY <1>1
<1>3. Waiting(s) = Waiting(q)
  BY <1>1, <1>2 DEF Waiting
<1> QED
  BY <1>1, <1>2, <1>3 DEF s

\* The configuration is at the head, or the tail has it.
LEMMA WaitingTail ==
    ASSUME NEW q \in Seq(Reply), q # <<>>
    PROVE  /\ Waiting(q) = {} => Waiting(Tail(q)) = {} /\ ~IsSetparam(Head(q))
           /\ \A i \in 1..Len(q) : Waiting(q) = {i} =>
                 \/ i = 1 /\ Head(q) = q[i] /\ IsSetparam(Head(q)) /\ Waiting(Tail(q)) = {}
                 \/ /\ i - 1 \in 1..Len(Tail(q)) /\ Tail(q)[i - 1] = q[i]
                    /\ ~IsSetparam(Head(q)) /\ Waiting(Tail(q)) = {i - 1}
<1> DEFINE s == Tail(q)
<1>1. /\ Len(q) = Len(s) + 1 /\ Len(s) \in Nat
      /\ \A i \in 1..Len(s) : s[i] = q[i + 1]
      /\ Head(q) = q[1]
  OBVIOUS
<1> HIDE DEF s
<1>2. \A j \in 1..Len(s) : j + 1 \in 1..Len(q) /\ (j \in Waiting(s) <=> j + 1 \in Waiting(q))
  BY <1>1 DEF Waiting
<1>3. Waiting(s) \subseteq 1..Len(s) /\ (IsSetparam(Head(q)) <=> 1 \in Waiting(q))
  BY <1>1 DEF Waiting
<1>4. Waiting(q) = {} => Waiting(s) = {} /\ ~IsSetparam(Head(q))
  BY <1>2, <1>3
<1>5. ASSUME NEW i \in 1..Len(q), Waiting(q) = {i}
      PROVE  \/ i = 1 /\ Head(q) = q[i] /\ IsSetparam(Head(q)) /\ Waiting(s) = {}
             \/ /\ i - 1 \in 1..Len(s) /\ s[i - 1] = q[i]
                /\ ~IsSetparam(Head(q)) /\ Waiting(s) = {i - 1}
  <2>1. CASE i = 1
    <3>1. Waiting(s) = {}
      BY <1>1, <1>2, <1>3, <1>5, <2>1
    <3> QED
      BY <1>1, <1>3, <1>5, <2>1, <3>1
  <2>2. CASE i # 1
    <3>1. i - 1 \in 1..Len(s) /\ s[i - 1] = q[i] /\ ~IsSetparam(Head(q))
      BY <1>1, <1>3, <1>5, <2>2
    <3>2. Waiting(s) = {i - 1}
      BY <1>1, <1>2, <1>3, <1>5, <3>1
    <3> QED
      BY <3>1, <3>2
  <2> QED
    BY <2>1, <2>2
<1> QED
  BY <1>4, <1>5 DEF s

-------------------------------------------------------------------------------
(* One device at a time *)

\* Only the values of d change, so only d has to be looked at.
LEMMA PathOfOne ==
    ASSUME RecordInv, PathInv, NEW d \in Device, late' = late,
           \A e \in Device \ {d} :
              /\ queue'[e] = queue[e] /\ awaiting'[e] = awaiting[e]
              /\ report'[e] = report[e] /\ devVer'[e] = devVer[e]
              /\ inform'[e] = inform[e] /\ reply'[e] = reply[e]
           , PathOK(queue'[d], awaiting'[d], report'[d], devVer'[d], inform'[d], reply'[d])
    PROVE  PathInv'
BY DEF PathInv

\* A compiled configuration is committed while nothing is pending.
LEMMA CommitPath ==
    ASSUME RecordInv, PathInv, NEW d \in Device, NEW f \in Family, NEW r \in Request,
           NEW saved \in BOOLEAN, Compilable(d, f),
           CommitCompiled(d, f, Compile(mem[d].base, r), saved)
    PROVE  PathInv'
<1> DEFINE v == Compile(mem[d].base, r)
           c == Setparam(mem[d].key, v)
           q == queue[d]
           rep == report[d]
           dv == devVer[d]
           rp == reply[d]
<1>1. /\ v \in Version /\ v # NoVersion
      /\ rep.got /\ awaiting[d] = NoVersion /\ q = <<>>
  BY CompilableBase, ConstantsAssumption DEF Compilable, Pending
<1>2. c \in Reply /\ IsSetparam(c) /\ c.ver = v
  BY <1>1, ReplyTypes
     DEF RecordInv, DurableInv, MemSound, DeviceRecord, Version0, Setparam, IsSetparam
<1>3. Idle(q, rep, dv, rp)
  BY <1>1 DEF PathInv, PathOK, Queued, Sent, Delivered
<1>4. /\ queue' = IF saved /\ rep.ver # v THEN [queue EXCEPT ![d] = Append(@, c)] ELSE queue
      /\ awaiting' = IF saved /\ rep.ver # v THEN [awaiting EXCEPT ![d] = v] ELSE awaiting
      /\ UNCHANGED <<report, devVer, inform, late, reply>>
  BY DEF CommitCompiled, devVars
<1>5. queue \in [Device -> Seq(Reply)] /\ awaiting \in [Device -> Version0]
  BY DEF RecordInv, VolatileTypes
<1> HIDE DEF v, c
<1>6. CASE saved /\ rep.ver # v
  <2>1. /\ queue'[d] = Append(q, c) /\ awaiting'[d] = v
        /\ \A e \in Device \ {d} : queue'[e] = queue[e] /\ awaiting'[e] = awaiting[e]
    BY <1>4, <1>5, <1>6
  <2>2. /\ 1 \in 1..Len(Append(q, c)) /\ Append(q, c)[1] = c
        /\ Waiting(Append(q, c)) = {1}
    BY <1>1, <1>2, WaitingFirst
  <2>3. Queued(Append(q, c), v, rep, dv, rp)
    <3>1. rep.ver = dv /\ ~IsSetparam(rp) /\ v \notin {NoVersion, dv}
      BY <1>1, <1>3, <1>6 DEF Idle
    <3>2. \E i \in 1..Len(Append(q, c)) :
             Waiting(Append(q, c)) = {i} /\ Append(q, c)[i].ver = v
      BY <1>2, <2>2
    <3> QED
      BY <3>1, <3>2 DEF Queued
  <2>4. PathOK(Append(q, c), v, rep, dv, inform[d], rp)
    BY <1>1, <2>3 DEF PathInv, PathOK
  <2> QED
    BY <1>4, <2>1, <2>4, PathOfOne
<1>7. CASE ~(saved /\ rep.ver # v)
  BY <1>4, <1>7 DEF PathInv
<1> QED
  BY <1>6, <1>7

\* Any other command goes to the end of the queue.
LEMMA QueueCommandPath ==
    ASSUME RecordInv, PathInv, NEW d \in Device, NEW c \in RawCommands, QueueCommand(d, c)
    PROVE  PathInv'
<1> DEFINE q == queue[d]
           s == Append(q, c)
<1>1. /\ queue' = [queue EXCEPT ![d] = Append(@, c)]
      /\ UNCHANGED <<awaiting, report, devVer, inform, late, reply>>
  BY DEF QueueCommand, devVars
<1>2. c \in Reply /\ ~IsSetparam(c)
  BY ReplyTypes DEF RawCommands, SetAdopt, Command, IsSetparam, Key0
<1>3. q \in Seq(Reply)
  BY DEF RecordInv, VolatileTypes
<1>4. /\ queue'[d] = s
      /\ \A e \in Device \ {d} : queue'[e] = queue[e]
  BY <1>1 DEF RecordInv, VolatileTypes
<1> HIDE DEF q
<1>5. /\ Waiting(s) = Waiting(q)
      /\ \A i \in 1..Len(q) : i \in 1..Len(s) /\ s[i] = q[i]
  BY <1>2, <1>3, WaitingAppend
<1>6. PathOK(q, awaiting[d], report[d], devVer[d], inform[d], reply[d])
  BY DEF PathInv, q
<1> HIDE DEF s
<1>7. PathOK(s, awaiting[d], report[d], devVer[d], inform[d], reply[d])
  BY <1>5, <1>6 DEF PathOK, Idle, Queued, Sent, Delivered
<1> QED
  BY <1>1, <1>4, <1>7, PathOfOne

\* Every control operation keeps the invariant.
LEMMA OperatePath ==
    ASSUME TypedPath, RecordInv, PathInv, NEW d \in Device, NEW saved \in BOOLEAN,
           Operate(d, saved)
    PROVE  PathInv'
<1>1. ASSUME NEW f \in Family, NEW r \in Request,
             \/ Apply(d, f, r, saved)
             \/ Mutate(d, f, r, saved)
             \/ \E p \in previews : ApplyPreviewed(d, f, r, p, saved)
      PROVE  PathInv'
  <2>1. Compilable(d, f) /\ CommitCompiled(d, f, Compile(mem[d].base, r), saved)
    BY <1>1 DEF Apply, Mutate, Mutable, ApplyPreviewed
  <2> QED
    BY <2>1, CommitPath
<1>2. ASSUME UNCHANGED <<queue, awaiting, report, devVer, inform, late, reply>>
      PROVE  PathInv'
  BY <1>2 DEF PathInv
<1>3. ASSUME NEW f \in Family, NEW r \in Request, NEW t \in Token, TakePreview(d, f, r, t)
      PROVE  PathInv'
  BY <1>2, <1>3 DEF TakePreview, devVars
<1>4. ASSUME NEW k \in Key, Register(d, k, saved) PROVE PathInv'
  BY <1>2, <1>4 DEF Register, devVars
<1>5. ASSUME NEW v \in Version, NEW b \in BOOLEAN, ImportBaseline(d, v, b, saved)
      PROVE  PathInv'
  BY <1>2, <1>5 DEF ImportBaseline, devVars
<1>6. "adopt" \notin Operator /\ "raw" \notin Operator
  BY DEF TypedPath
<1> QED
  BY <1>1, <1>3, <1>4, <1>5, <1>6, QueueCommandPath DEF Operate

-------------------------------------------------------------------------------
(* Informs *)

\* The report that an inform brings is up to date, whatever stage the configuration
\* is at: it is not on its way.
LEMMA InformedPath ==
    ASSUME NEW q, NEW a, NEW rep, NEW dv, NEW inf, NEW rp, NEW new, NEW b, NEW gone,
           PathOK(q, a, rep, dv, inf, rp), inf.sent,
           new.got, new.ver = inf.ver, ~gone.sent,
           b = a \/ (a = inf.ver /\ b = NoVersion)
    PROVE  /\ rp = NoReply
           /\ Idle(q, new, dv, rp) \/ Queued(q, b, new, dv, rp)
           /\ PathOK(q, a, new, dv, gone, rp) /\ PathOK(q, b, new, dv, gone, rp)
<1>1. rp = NoReply /\ new.ver = dv /\ ~IsSetparam(rp) /\ inf.ver = dv
  BY DEF PathOK, NoReply, IsSetparam
<1>2. Idle(q, new, dv, rp) \/ (Queued(q, a, new, dv, rp) /\ a = b)
  BY <1>1 DEF PathOK, Idle, Queued, Sent, Delivered
<1> QED
  BY <1>1, <1>2 DEF PathOK

\* The head of the queue is the answer.
LEMMA AnsweredPath ==
    ASSUME NEW q \in Seq(Reply), q # <<>>, NEW b, NEW new, NEW dv, NEW rp, NEW gone,
           Idle(q, new, dv, rp) \/ Queued(q, b, new, dv, rp), new.got, ~gone.sent
    PROVE  PathOK(Tail(q), b, new, dv, gone, Head(q))
<1> DEFINE s == Tail(q)
           c == Head(q)
<1>1. ASSUME Idle(q, new, dv, rp)
      PROVE  Idle(s, new, dv, c)
  BY <1>1, WaitingTail DEF Idle
<1>2. ASSUME Queued(q, b, new, dv, rp)
      PROVE  Queued(s, b, new, dv, c) \/ Sent(s, b, new, dv, c)
  <2>1. PICK i \in 1..Len(q) : Waiting(q) = {i} /\ q[i].ver = b
    BY <1>2 DEF Queued
  <2>2. \/ i = 1 /\ c = q[i] /\ IsSetparam(c) /\ Waiting(s) = {}
        \/ /\ i - 1 \in 1..Len(s) /\ s[i - 1] = q[i]
           /\ ~IsSetparam(c) /\ Waiting(s) = {i - 1}
    BY <2>1, WaitingTail
  <2> HIDE DEF s, c
  <2>3. CASE i = 1 /\ c = q[i] /\ IsSetparam(c) /\ Waiting(s) = {}
    BY <1>2, <2>1, <2>3 DEF Queued, Sent
  <2>4. CASE /\ i - 1 \in 1..Len(s) /\ s[i - 1] = q[i]
             /\ ~IsSetparam(c) /\ Waiting(s) = {i - 1}
    <3>1. \E j \in 1..Len(s) : Waiting(s) = {j} /\ s[j].ver = b
      BY <2>1, <2>4
    <3> QED
      BY <1>2, <2>4, <3>1 DEF Queued
  <2> QED
    BY <2>2, <2>3, <2>4
<1> QED
  BY <1>1, <1>2 DEF PathOK

LEMMA ServePath ==
    ASSUME RecordInv, PathInv, NEW d \in Device, NEW live \in BOOLEAN, Serve(d, live)
    PROVE  PathInv'
<1> DEFINE m == inform[d]
           q == queue[d]
           a == awaiting[d]
           dv == devVer[d]
           rp == reply[d]
           new == [got |-> TRUE, ver |-> m.ver, family |-> m.family]
           b == IF a = m.ver THEN NoVersion ELSE a
<1>1. /\ live /\ m.sent /\ Arrived(d, live) = m
      /\ inform' = [inform EXCEPT ![d] = NoInform] /\ late' = late
  BY DEF Serve, InformRefused, InformUnsaved, InformUnadopted, InformAnswered, Taken, Arrived,
         PathInv
<1>2. /\ PathOK(q, a, report[d], dv, m, rp) /\ ~NoInform.sent
      /\ new.got /\ new.ver = m.ver /\ q \in Seq(Reply)
      /\ b = a \/ (a = m.ver /\ b = NoVersion)
  <2>1. PathOK(q, a, report[d], dv, m, rp)
    BY DEF PathInv
  <2>2. ~NoInform.sent /\ new.got /\ new.ver = m.ver
    BY DEF NoInform
  <2>3. q \in Seq(Reply)
    BY DEF RecordInv, VolatileTypes
  <2>4. b = a \/ (a = m.ver /\ b = NoVersion)
    OBVIOUS
  <2> QED
    BY <2>1, <2>2, <2>3, <2>4
<1>3. /\ inform'[d] = NoInform
      /\ \A e \in Device \ {d} : inform'[e] = inform[e]
  BY <1>1 DEF RecordInv, DeviceTypes
<1>4. ASSUME RecordReport(d, m)
      PROVE  report'[d] = new /\ \A e \in Device \ {d} : report'[e] = report[e]
  BY <1>4 DEF RecordReport, RecordInv, VolatileTypes
<1>5. ASSUME Acknowledge(d, m)
      PROVE  awaiting'[d] = b /\ \A e \in Device \ {d} : awaiting'[e] = awaiting[e]
  BY <1>5 DEF Acknowledge, RecordInv, VolatileTypes
<1> HIDE DEF m, q, a, dv, rp, new, b
<1>6. /\ rp = NoReply
      /\ Idle(q, new, dv, rp) \/ Queued(q, b, new, dv, rp)
      /\ PathOK(q, a, new, dv, NoInform, rp)
      /\ PathOK(q, b, new, dv, NoInform, rp)
  <2>1. /\ PathOK(q, a, report[d], dv, m, rp) /\ m.sent /\ new.got /\ new.ver = m.ver
        /\ ~NoInform.sent /\ (b = a \/ (a = m.ver /\ b = NoVersion))
    BY <1>1, <1>2
  <2> QED
    BY <2>1, InformedPath, ZenonT(60)
<1>7. ASSUME InformRefused(d, live) PROVE PathInv'
  <2>1. UNCHANGED <<queue, awaiting, report, devVer, reply>>
    BY <1>7 DEF InformRefused, ctlVars
  <2>2. PathOK(q, a, report[d], dv, NoInform, rp)
    BY <1>2 DEF PathOK
  <2> QED
    BY <1>1, <1>3, <2>1, <2>2, PathOfOne DEF q, a, dv, rp
<1>8. ASSUME InformUnsaved(d, live) PROVE PathInv'
  <2>1. RecordReport(d, m) /\ UNCHANGED <<queue, awaiting, devVer, reply>>
    BY <1>1, <1>8 DEF InformUnsaved
  <2> QED
    BY <1>1, <1>3, <1>4, <1>6, <2>1, PathOfOne DEF q, a, dv, rp
<1>9. ASSUME InformUnadopted(d, live) PROVE PathInv'
  <2>1. RecordReport(d, m) /\ Acknowledge(d, m) /\ UNCHANGED <<queue, devVer, reply>>
    BY <1>1, <1>9 DEF InformUnadopted
  <2> QED
    BY <1>1, <1>3, <1>4, <1>5, <1>6, <2>1, PathOfOne DEF q, dv, rp
<1>10. ASSUME NEW wrote \in BOOLEAN, InformAnswered(d, live, wrote) PROVE PathInv'
  <2> DEFINE takes == wrote /\ ~Transitioning(d, m) /\ q # <<>>
  <2>1. /\ RecordReport(d, m) /\ Acknowledge(d, m) /\ UNCHANGED devVer
        /\ queue' = IF takes THEN [queue EXCEPT ![d] = Tail(@)] ELSE queue
        /\ reply' = IF wrote THEN [reply EXCEPT ![d] = Answer(d, m)] ELSE reply
    BY <1>1, <1>10 DEF InformAnswered, q
  <2>2. /\ queue'[d] = IF takes THEN Tail(q) ELSE q
        /\ reply'[d] = IF wrote THEN Answer(d, m) ELSE rp
        /\ \A e \in Device \ {d} : queue'[e] = queue[e] /\ reply'[e] = reply[e]
    BY <2>1 DEF RecordInv, VolatileTypes, DeviceTypes, q, rp
  <2>3. CASE takes
    <3>1. Answer(d, m) = Head(q)
      BY <2>3 DEF Answer, q
    <3>2. PathOK(Tail(q), b, new, dv, NoInform, Head(q))
      BY <1>2, <1>6, <2>3, AnsweredPath
    <3>3. wrote /\ queue'[d] = Tail(q) /\ reply'[d] = Head(q)
      BY <2>2, <2>3, <3>1
    <3> HIDE DEF takes
    <3> QED
      BY <1>1, <1>3, <1>4, <1>5, <2>1, <2>2, <3>2, <3>3, PathOfOne DEF dv
  <2>4. CASE ~takes
    <3>1. reply'[d] = rp \/ ~IsSetparam(reply'[d])
      BY <2>2, <2>4 DEF Answer, SetAdopt, NoReply, IsSetparam, q
    <3>2. PathOK(q, b, new, dv, NoInform, reply'[d])
      BY <1>2, <1>6, <3>1 DEF PathOK, Idle, Queued
    <3> QED
      BY <1>1, <1>3, <1>4, <1>5, <2>1, <2>2, <2>4, <3>2, PathOfOne DEF dv
  <2> QED
    BY <2>3, <2>4
<1> QED
  BY <1>7, <1>8, <1>9, <1>10 DEF Serve

-------------------------------------------------------------------------------
(* Devices, the network and the process *)

LEMMA EnvironmentPath ==
    ASSUME TypedPath, RecordInv, PathInv, NEW d \in Device, Environment(d)
    PROVE  PathInv'
<1>1. "late" \notin Faults /\ "drift" \notin Faults
  BY DEF TypedPath
<1>2. /\ queue' = queue /\ awaiting' = awaiting /\ report' = report /\ late' = late
      /\ PathOK(queue[d], awaiting[d], report[d], devVer[d], inform[d], reply[d])
  BY <1>1 DEF Environment, SendInform, ReceiveReply, LoseReply, ctlVars, PathInv
<1>3. ASSUME NEW f \in Evidence, SendInform(d, f) PROVE PathInv'
  <2> DEFINE m == [sent |-> TRUE, key |-> devKey[d], ver |-> devVer[d], family |-> f]
  <2>1. /\ reply[d] = NoReply /\ inform' = [inform EXCEPT ![d] = m]
        /\ devVer' = devVer /\ reply' = reply
    BY <1>3 DEF SendInform
  <2>2. m.ver = devVer[d]
    OBVIOUS
  <2> HIDE DEF m
  <2>3. inform'[d] = m /\ \A e \in Device \ {d} : inform'[e] = inform[e]
    BY <2>1 DEF RecordInv, DeviceTypes
  <2>4. PathOK(queue[d], awaiting[d], report[d], devVer[d], m, reply[d])
    BY <1>2, <2>1, <2>2 DEF PathOK
  <2> QED
    BY <1>2, <2>1, <2>3, <2>4, PathOfOne
<1>4. NoReply.kind # "setparam"
  BY DEF NoReply
<1>5. ASSUME reply[d] # NoReply
      PROVE  ~inform[d].sent
  BY <1>2, <1>5 DEF PathOK
<1>6. ASSUME ReceiveReply(d) PROVE PathInv'
  <2> DEFINE dv == IF IsSetparam(reply[d]) THEN reply[d].ver ELSE devVer[d]
  <2>1. /\ reply[d] # NoReply /\ inform' = inform
        /\ devVer' = IF IsSetparam(reply[d]) THEN [devVer EXCEPT ![d] = reply[d].ver] ELSE devVer
        /\ reply' = [reply EXCEPT ![d] = NoReply]
    BY <1>6 DEF ReceiveReply, IsSetparam
  <2>2. /\ devVer'[d] = dv /\ reply'[d] = NoReply
        /\ \A e \in Device \ {d} : devVer'[e] = devVer[e] /\ reply'[e] = reply[e]
    BY <2>1 DEF RecordInv, DeviceTypes
  <2>3. PathOK(queue[d], awaiting[d], report[d], dv, inform[d], NoReply)
    BY <1>2, <1>4, <1>5, <2>1 DEF PathOK, Idle, Queued, Sent, Delivered, IsSetparam
  <2> HIDE DEF dv
  <2> QED
    BY <1>2, <2>1, <2>2, <2>3, PathOfOne
<1>7. ASSUME LoseReply(d) PROVE PathInv'
  <2>1. /\ reply[d] # NoReply /\ inform' = inform /\ devVer' = devVer
        /\ reply' = [reply EXCEPT ![d] = NoReply]
    BY <1>7 DEF LoseReply
  <2>2. reply'[d] = NoReply /\ \A e \in Device \ {d} : reply'[e] = reply[e]
    BY <2>1 DEF RecordInv, DeviceTypes
  <2>3. PathOK(queue[d], awaiting[d], report[d], devVer[d], inform[d], NoReply)
    BY <1>2, <1>4, <1>5, <2>1 DEF PathOK, Idle, Queued, Sent, Delivered, IsSetparam
  <2> QED
    BY <1>2, <2>1, <2>2, <2>3, PathOfOne
<1> QED
  BY <1>1, <1>3, <1>6, <1>7 DEF Environment

\* A controller that starts has nothing queued and no report yet.
LEMMA StartPath ==
    ASSUME queue' = [d \in Device |-> <<>>], report' = [d \in Device |-> NoReport],
           inform' = [d \in Device |-> NoInform], late' = [d \in Device |-> NoInform]
    PROVE  PathInv'
BY WaitingEmpty DEF PathInv, PathOK, NoReport, NoInform

LEMMA PathInvInit ==
    ASSUME Init
    PROVE  PathInv
BY WaitingEmpty DEF Init, PathInv, PathOK, NoReport, NoInform

LEMMA PathInvStep ==
    ASSUME TypedPath, RecordInv, PathInv, [Next]_vars
    PROVE  PathInv'
<1>1. SaveOutcome \subseteq BOOLEAN
  BY DEF SaveOutcome
<1>2. ASSUME NEW p, ExpirePreview(p) PROVE PathInv'
  BY <1>2 DEF ExpirePreview, PathInv, devVars
<1>3. ASSUME Restart PROVE PathInv'
  BY <1>3, StartPath DEF Restart
<1>4. ASSUME UNCHANGED vars PROVE PathInv'
  BY <1>4 DEF vars, ctlVars, devVars, PathInv
<1> QED
  BY <1>1, <1>2, <1>3, <1>4, OperatePath, ServePath, EnvironmentPath DEF Next

LEMMA PathInvariant ==
    ASSUME TypedPath
    PROVE  Spec => []PathInv
BY PathInvInit, PathInvStep, RecordInvariant, PTL DEF Spec

-------------------------------------------------------------------------------
(* The theorems *)

\* Whatever is lost, fails or restarts between a typed change and its report, a
\* device never has two configurations queued or on their way.
THEOREM OneConfigurationAtATime ==
    ASSUME TypedPath
    PROVE  Spec => []OnePendingConfiguration
<1>1. PathInv => OnePendingConfiguration
  <2> SUFFICES ASSUME PathInv, NEW d \in Device
               PROVE  /\ \A i, j \in Waiting(queue[d]) : i = j
                      /\ InFlight(d) => Waiting(queue[d]) = {}
    BY DEF OnePendingConfiguration
  <2>1. PathOK(queue[d], awaiting[d], report[d], devVer[d], inform[d], reply[d])
    BY DEF PathInv
  <2>2. Waiting(queue[d]) = {} \/ (~IsSetparam(reply[d])
                                     /\ \E i \in 1..Len(queue[d]) : Waiting(queue[d]) = {i})
    BY <2>1 DEF PathOK, Idle, Queued, Sent, Delivered
  <2> QED
    BY <2>2 DEF InFlight, IsSetparam
<1> QED
  BY <1>1, PathInvariant, PTL

\* When the controller admits a resource change, no configuration is on its way and
\* the device runs the version that the change is composed with: the report it
\* relies on is not out of date.
THEOREM MutationIsInformed ==
    ASSUME TypedPath
    PROVE  Spec => []NoBlindMutation
<1>1. PathInv => NoBlindMutation
  <2> SUFFICES ASSUME PathInv, NEW d \in Device, NEW f \in Family, Mutable(d, f)
               PROVE  ~InFlight(d) /\ devVer[d] = mem[d].desired
    BY DEF NoBlindMutation
  <2>1. PathOK(queue[d], awaiting[d], report[d], devVer[d], inform[d], reply[d])
    BY DEF PathInv
  <2>2. /\ report[d].got /\ report[d].ver = mem[d].desired
        /\ awaiting[d] = NoVersion
    BY DEF Mutable, Pending
  <2>3. Idle(queue[d], report[d], devVer[d], reply[d])
    BY <2>1, <2>2 DEF PathOK, Queued, Sent, Delivered
  <2> QED
    BY <2>2, <2>3 DEF Idle, InFlight, IsSetparam
<1> QED
  BY <1>1, PathInvariant, PTL

LEMMA MemoryRecords ==
    ASSUME RecordInv, NEW d \in Device
    PROVE  mem[d] \in DeviceRecord
BY DEF RecordInv, DurableInv, MemSound, Sound

\* The record that CommitCompiled stores.
Committed(r, f, v, c) ==
    [r EXCEPT !.family = f, !.desired = v, !.last = c, !.base = v, !.typed = TRUE]

LEMMA CompiledDesired ==
    ASSUME NEW r \in DeviceRecord, NEW f, NEW v, NEW c
    PROVE  Committed(r, f, v, c).desired = v
BY DEF DeviceRecord, Committed

\* A token that is spent together with a change of the records has committed what
\* its preview showed, on the record that the preview was computed from.
THEOREM PreviewIsHonoured == Spec => PreviewHonoured
<1> DEFINE Kind == \A p \in previews :
              p \notin previews' /\ mem' # mem =>
                 \/ mem' = Open(disk)
                 \/ /\ mem[p.mac].base = p.dev.base
                    /\ mem[p.mac].key = p.dev.key
                    /\ mem'[p.mac].desired = p.ver
<1>1. ASSUME RecordInv, Next, NEW p \in previews, p \notin previews', mem' # mem
      PROVE  \/ mem' = Open(disk)
             \/ /\ mem[p.mac].base = p.dev.base
                /\ mem[p.mac].key = p.dev.key
                /\ mem'[p.mac].desired = p.ver
  <2>1. ASSUME NEW d \in Device, NEW saved \in BOOLEAN, NEW f \in Family, NEW r \in Request,
               NEW q \in previews, ApplyPreviewed(d, f, r, q, saved)
        PROVE  /\ mem[p.mac].base = p.dev.base
               /\ mem[p.mac].key = p.dev.key
               /\ mem'[p.mac].desired = p.ver
    <3>1. saved /\ p = q
      BY <1>1, <2>1 DEF ApplyPreviewed
    <3>2. p.mac = d /\ p.dev = mem[d] /\ p.ver = Compile(mem[d].base, r)
      BY <2>1, <3>1 DEF ApplyPreviewed, Covers, Fingerprint
    <3>3. mem'[d].desired = Compile(mem[d].base, r)
      <4> DEFINE v == Compile(mem[d].base, r)
                 new == Committed(mem[d], f, v, Setparam(mem[d].key, v))
      <4>1. mem' = [mem EXCEPT ![d] = new]
        BY <2>1, <3>1 DEF ApplyPreviewed, CommitCompiled, Commit, Committed
      <4>2. new.desired = v
        <5> HIDE DEF v
        <5> QED
          BY <1>1, MemoryRecords, CompiledDesired
      <4> HIDE DEF new, v
      <4>3. mem'[d] = new
        <5>1. DOMAIN mem = Device
          BY <1>1 DEF RecordInv, DurableInv, MemSound
        <5> QED
          BY <4>1, <5>1
      <4> QED
        BY <4>2, <4>3 DEF v
    <3> QED
      BY <3>2, <3>3
  <2>2. ASSUME NEW d \in Device, NEW saved \in BOOLEAN, Operate(d, saved)
        PROVE  \E f \in Family, r \in Request, q \in previews :
                  ApplyPreviewed(d, f, r, q, saved)
    BY <1>1, <2>2
       DEF Operate, Register, Adopt, QueueSetparam, QueueCommand, ImportBaseline, Apply,
           Mutate, TakePreview
  <2>3. ASSUME NEW d \in Device, NEW live \in BOOLEAN, Serve(d, live)
        PROVE  FALSE
    BY <1>1, <2>3
       DEF Serve, InformRefused, InformUnsaved, InformUnadopted, InformAnswered, ctlVars
  <2>4. ASSUME NEW d \in Device, Environment(d)
        PROVE  FALSE
    BY <1>1, <2>4
       DEF Environment, SendInform, ReceiveReply, GiveUpInform, LoseReply, Drift, ctlVars
  <2>5. ASSUME NEW q, ExpirePreview(q) PROVE FALSE
    BY <1>1, <2>5 DEF ExpirePreview
  <2>6. ASSUME Restart PROVE mem' = Open(disk)
    BY <2>6 DEF Restart
  <2>7. SaveOutcome \subseteq BOOLEAN
    BY DEF SaveOutcome
  <2> QED
    BY <1>1, <2>1, <2>2, <2>3, <2>4, <2>5, <2>6, <2>7 DEF Next
<1>2. RecordInv /\ [Next]_vars => [Kind]_vars
  BY <1>1
<1> QED
  BY <1>2, RecordInvariant, PTL DEF Spec, PreviewHonoured

===============================================================================
