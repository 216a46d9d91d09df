------------------------------ MODULE ServeProofs ------------------------------
(***************************************************************************)
(* Proofs about ServeProcess, for every set of processes and operations    *)
(* and every number of starts.  No theorem limits how starts, ends and     *)
(* crashes of different processes interleave; what the code does not       *)
(* promise through an interleaving is said by the history variables that   *)
(* the properties name.                                                    *)
(***************************************************************************)
EXTENDS ServeProcess, TLAPS

-------------------------------------------------------------------------------
(* The inform listener *)

\* Where the handlers of a process come from: those of the bound server belong
\* to a listener that the operator was told of; a stray one is remembered.
Handlers(p) ==
    /\ binder[p] \in {"bound", "draining"} => told[p] = "authoritative"
    /\ told[p] = "authoritative" => binder[p] \in {"bound", "draining"} \/ p \in strayed
    /\ "current" \in busy[p] => binder[p] \in {"bound", "draining"}
    /\ "stray" \in busy[p] => p \in strayed
    /\ busy[p] # {} => Answering(p)

InformInv == TypeOK /\ \A p \in Proc : Handlers(p)

LEMMA InitInform == Init => InformInv
<1> SUFFICES ASSUME Init
             PROVE  InformInv
  OBVIOUS
<1>1. pc \in [Proc -> Down] /\ Down \subseteq Down \cup {"opened"} /\ starts \in [Proc -> 0..MaxStarts]
  BY ServeAssumption DEF Init, Down
<1>2. TypeOK
  BY <1>1 DEF Init, TypeOK
<1>3. \A p \in Proc : Handlers(p)
  BY DEF Init, Handlers
<1> QED  BY <1>2, <1>3 DEF InformInv

\* Variables keep their types when a process is gone, or takes one step.
LEMMA GoneInform ==
    ASSUME InformInv, NEW p \in Proc, NEW how \in Down, Gone(p, how),
           path' \in Proc \cup {NoProc}
    PROVE  InformInv'
BY DEF InformInv, TypeOK, Handlers, Answering, Gone, Down

LEMMA StartingInform ==
    ASSUME InformInv, NEW p \in Proc, Open(p) \/ Starting(p)
    PROVE  InformInv'
<1>1. CASE Open(p)
  BY <1>1, ServeAssumption DEF Open, Step, Down, InformInv, TypeOK, Handlers, Answering, informs, history
<1>2. CASE StatSocket(p)
  BY <1>2 DEF StatSocket, Step, InformInv, TypeOK, Handlers, Answering, informs, history
<1>3. CASE DialSocket(p)
  <2>1. CASE Gone(p, "failed")
    BY <1>3, <2>1, GoneInform DEF DialSocket, InformInv, TypeOK, Down
  <2>2. CASE ~Gone(p, "failed")
    BY <1>3, <2>2 DEF DialSocket, Step, InformInv, TypeOK, Handlers, Answering, informs, history
  <2> QED  BY <2>1, <2>2
<1>4. CASE RemoveSocket(p)
  <2>1. CASE Gone(p, "failed")
    BY <1>4, <2>1, GoneInform DEF RemoveSocket, Down
  <2>2. CASE ~Gone(p, "failed")
    BY <1>4, <2>2 DEF RemoveSocket, Step, InformInv, TypeOK, Handlers, Answering, informs, history
  <2> QED  BY <2>1, <2>2
<1>5. CASE DialFails(p)
  BY <1>5 DEF DialFails, Step, InformInv, TypeOK, Handlers, Answering, informs
<1>6. CASE BindSocket(p)
  <2>1. CASE Gone(p, "failed") /\ UNCHANGED path
    BY <2>1, GoneInform DEF InformInv, TypeOK, Down
  <2>2. CASE ~(Gone(p, "failed") /\ UNCHANGED path)
    BY <1>6, <2>2 DEF BindSocket, Step, InformInv, TypeOK, Handlers, Answering, informs, history
  <2> QED  BY <2>1, <2>2
<1>7. CASE ListenSocket(p)
  BY <1>7 DEF ListenSocket, Step, InformInv, TypeOK, Handlers, Answering, informs
<1>8. CASE \E mode \in Mode : SetPermissions(p, mode)
  <2> PICK mode \in Mode : SetPermissions(p, mode)
    BY <1>8
  <2>1. CASE Gone(p, "failed") /\ path' = NoProc
    BY <2>1, GoneInform DEF Down
  <2>2. CASE ~(Gone(p, "failed") /\ path' = NoProc)
    BY <2>2 DEF SetPermissions, Step, InformInv, TypeOK, Handlers, Answering, informs, history
  <2> QED  BY <2>1, <2>2
<1> QED  BY <1>1, <1>2, <1>3, <1>4, <1>5, <1>6, <1>7, <1>8 DEF Starting

LEMMA BindFailsInform ==
    ASSUME InformInv, NEW p \in Proc, binder[p] \in {"free", "probed"}, BindFails(p)
    PROVE  InformInv'
<1>1. CASE Gone(p, "failed") /\ path' = NoProc
  BY <1>1, GoneInform DEF Down
<1>2. CASE ~(Gone(p, "failed") /\ path' = NoProc)
  BY <1>2 DEF BindFails, InformInv, TypeOK, Handlers, Answering, history
<1> QED  BY <1>1, <1>2

LEMMA ServingInform ==
    ASSUME InformInv, NEW p \in Proc, Serving(p)
    PROVE  InformInv'
<1>1. CASE Probe(p)
  <2>1. CASE BindFails(p)
    BY <1>1, <2>1, BindFailsInform DEF Probe
  <2>2. CASE ~BindFails(p)
    BY <1>1, <2>2 DEF Probe, InformInv, TypeOK, Handlers, Answering, informs, history
  <2> QED  BY <2>1, <2>2
<1>2. CASE Bind(p)
  <2>1. CASE BindFails(p)
    BY <1>2, <2>1, BindFailsInform DEF Bind
  <2>2. CASE ~BindFails(p)
    BY <1>2, <2>2 DEF Bind, Binding, Step, InformInv, TypeOK, Handlers, Answering, history
  <2> QED  BY <2>1, <2>2
<1>3. CASE Demote(p)
  BY <1>3 DEF Demote, InformInv, TypeOK, Handlers, Answering, informs, history
<1>4. CASE Released(p)
  BY <1>4 DEF Released, InformInv, TypeOK, Handlers, Answering, history
<1>5. CASE ReleaseTimesOut(p)
  BY <1>5 DEF ReleaseTimesOut, InformInv, TypeOK, Handlers, Answering, history
<1>6. CASE DemoteAgain(p)
  BY <1>6 DEF DemoteAgain, InformInv, TypeOK, Handlers, Answering, history
<1>7. CASE AcceptInform(p)
  BY <1>7 DEF AcceptInform, InformInv, TypeOK, Handlers, Answering, history
<1>8. CASE \E handler \in {"current", "stray"} : EndInform(p, handler)
  BY <1>8 DEF EndInform, InformInv, TypeOK, Handlers, Answering, history
<1>9. CASE \E op \in Op : Operate(p, op)
  BY <1>9 DEF Operate, InformInv, TypeOK, Handlers, Answering, informs, history
<1>10. CASE Shutdown(p)
  BY <1>10 DEF Shutdown, Step, InformInv, TypeOK, Handlers, Answering, informs, history
<1>11. CASE Exit(p)
  BY <1>11, GoneInform DEF Exit, Down
<1> QED
  BY <1>1, <1>2, <1>3, <1>4, <1>5, <1>6, <1>7, <1>8, <1>9, <1>10, <1>11 DEF Serving

LEMMA NextInform == InformInv /\ [Next]_vars => InformInv'
<1> SUFFICES ASSUME InformInv, [Next]_vars
             PROVE  InformInv'
  OBVIOUS
<1>1. CASE \E p \in Proc : Open(p) \/ Starting(p) \/ Serving(p)
  BY <1>1, StartingInform, ServingInform
<1>2. CASE \E p \in Proc : Crash(p)
  BY <1>2, GoneInform DEF Crash, InformInv, TypeOK, Down
<1>3. CASE UNCHANGED vars
  BY <1>3 DEF vars, informs, history, InformInv, TypeOK, Handlers, Answering
<1> QED  BY <1>1, <1>2, <1>3 DEF Next

LEMMA InformInvariant == Spec => []InformInv
<1> QED  BY InitInform, NextInform, PTL DEF Spec

\* The mode an operator was last told is the mode the controller is in, whatever
\* was under way when it changed: in shadow mode there is no listener and no handler
\* but those that outlived an earlier demotion that gave up waiting.
THEOREM ModeIsKept == Spec => []ModeIsAsTold
<1>1. InformInv => ModeIsAsTold
  BY DEF InformInv, TypeOK, Handlers, ModeIsAsTold
<1> QED  BY <1>1, InformInvariant, PTL

-------------------------------------------------------------------------------
(* The control socket *)

Up(p) == pc[p] \in {"listened", "starting", "serving", "stopping"}

\* Who listens, and what a process that is past its dial knows of its elders: none
\* of them owns the path, and none can come to own it, having bound its socket
\* before.
Socket(p) ==
    /\ p \in listening <=> Up(p)
    /\ elder[p] \subseteq listening
    /\ pc[p] \notin Down \cup {"opened", "found"} => path \notin elder[p]

\* What a lone start found out about the path is still so.
Alone(p) ==
    alone = p =>
       /\ \A q \in Proc \ {p} : pc[q] \in Down
       /\ pc[p] \in {"found", "refused"} => path # NoProc
       /\ pc[p] = "cleared" => path = NoProc
       /\ pc[p] \in {"named", "listened"} => path = p

\* Until a process has raced, one that listens is the only one, and it remembers
\* every operation that was acknowledged; so does a start beside which none listened.
Memory(p) ==
    ~raced =>
       /\ pc[p] \notin Down /\ p \notin beside => acked \subseteq held[p] /\ listening \subseteq {p}
       /\ Up(p) => acked \subseteq held[p] /\ listening = {p}

SocketInv ==
    /\ InformInv
    /\ AcknowledgedSurvives
    /\ \A p \in Proc : Socket(p) /\ Alone(p) /\ Memory(p)

LEMMA InitSocket == Init => SocketInv
BY InitInform, ServeAssumption
   DEF Init, SocketInv, AcknowledgedSurvives, Socket, Alone, Memory, Up, Down

\* A process that ends keeps the socket in order: it leaves the path alone or
\* unlinks it, and then it was past its dial.
LEMMA GoneSocket ==
    ASSUME SocketInv, InformInv', NEW p \in Proc, NEW how \in Down,
           pc[p] \notin Down, Gone(p, how),
           path' = path \/ path' = NoProc
    PROVE  SocketInv'
<1> USE DEF SocketInv, InformInv, TypeOK
<1>1. AcknowledgedSurvives'
  BY DEF Gone, AcknowledgedSurvives
<1>2. \A q \in Proc : Socket(q)'
  BY ServeAssumption DEF Gone, Socket, Up, Down
<1>3. \A q \in Proc : Alone(q)'
  BY ServeAssumption DEF Gone, Alone, Down
<1>4. \A q \in Proc : Memory(q)'
  BY DEF Gone, Memory, Up, Down
<1> QED  BY <1>1, <1>2, <1>3, <1>4

LEMMA OpenSocket ==
    ASSUME SocketInv, InformInv', NEW p \in Proc, Open(p)
    PROVE  SocketInv'
<1> USE DEF SocketInv, InformInv, TypeOK
<1>1. AcknowledgedSurvives'
  BY DEF Open, AcknowledgedSurvives
<1>2. \A q \in Proc : Socket(q)'
  BY DEF Open, Step, Socket, Up, Down
<1>3. \A q \in Proc : Alone(q)'
  BY ServeAssumption DEF Open, Step, Alone, Down
<1>4. \A q \in Proc : Memory(q)'
  BY DEF Open, Step, Memory, Up, Down, AcknowledgedSurvives
<1> QED  BY <1>1, <1>2, <1>3, <1>4

\* A step from one state of serve to another that may change the path, and nothing
\* else.
StepAllowed(p, to) ==
    /\ Step(p, to)
    /\ pc[p] \notin Down /\ to \notin Down
    /\ Up(p) <=> to \in {"listened", "starting", "serving", "stopping"}
    /\ to # "found" => path' \notin elder[p]
    /\ path' \notin {path, NoProc} => path' = p /\ pc[p] = "cleared"
    /\ alone = p =>
          /\ to \in {"found", "refused"} => path' # NoProc
          /\ to = "cleared" => path' = NoProc
          /\ to \in {"named", "listened"} => path' = p
    /\ UNCHANGED <<file, held, acked, listening, history>>

LEMMA StepSocket ==
    ASSUME SocketInv, InformInv', NEW p \in Proc, NEW to, StepAllowed(p, to)
    PROVE  SocketInv'
<1> USE DEF SocketInv, InformInv, TypeOK, history, StepAllowed
<1>1. AcknowledgedSurvives'
  BY DEF AcknowledgedSurvives
<1>2. \A q \in Proc : Socket(q)'
  <2> TAKE q \in Proc
  <2>1. CASE q = p
    BY <2>1 DEF Step, Socket, Up
  <2>2. CASE q # p
    <3>1. path' \notin elder[q] \/ path' = path
      BY ServeAssumption DEF Socket, Up
    <3> QED  BY <2>2, <3>1 DEF Step, Socket, Up
  <2> QED  BY <2>1, <2>2
<1>3. \A q \in Proc : Alone(q)'
  BY DEF Step, Alone, Down
<1>4. \A q \in Proc : Memory(q)'
  BY DEF Step, Memory, Up
<1> QED  BY <1>1, <1>2, <1>3, <1>4

LEMMA StartingSocket ==
    ASSUME SocketInv, InformInv', NEW p \in Proc, Starting(p)
    PROVE  SocketInv'
<1>0. /\ TypeOK /\ AcknowledgedSurvives
      /\ \A q \in Proc : Socket(q) /\ Alone(q) /\ Memory(q)
  BY DEF SocketInv, InformInv
<1>1. CASE StatSocket(p)
  <2>1. CASE path = NoProc
    <3>1. StepAllowed(p, "cleared")
      BY <1>0, <1>1, <2>1, ServeAssumption DEF StatSocket, StepAllowed, TypeOK, Up, Down, history
    <3> QED  BY <3>1, StepSocket
  <2>2. CASE path # NoProc
    <3>1. StepAllowed(p, "found")
      BY <1>0, <1>1, <2>2 DEF StatSocket, StepAllowed, Up, Down, history
    <3> QED  BY <3>1, StepSocket
  <2> QED  BY <2>1, <2>2
<1>2. CASE DialSocket(p)
  <2>1. CASE Gone(p, "failed") /\ UNCHANGED path
    BY <1>2, <2>1, GoneSocket DEF DialSocket, Down
  <2>2. CASE ~(Gone(p, "failed") /\ UNCHANGED path)
    <3>1. StepAllowed(p, "refused")
      BY <1>0, <1>2, <2>2 DEF DialSocket, StepAllowed, Socket, Alone, Up, Down, history
    <3> QED  BY <3>1, StepSocket
  <2> QED  BY <2>1, <2>2
<1>3. CASE DialFails(p)
  <2>1. alone # p
    BY <1>0, <1>3 DEF DialFails, TypeOK, Alone, Socket, Up, Down
  <2>2. \A q \in Proc : Socket(q)'
    BY <1>0, <1>3 DEF DialFails, TypeOK, Step, Socket, Up, Down
  <2>3. \A q \in Proc : Alone(q)'
    BY <1>0, <1>3, <2>1 DEF DialFails, TypeOK, Step, Alone, Down
  <2>4. \A q \in Proc : Memory(q)'
    BY <1>0, <1>3 DEF DialFails, TypeOK, Step, Memory, Up, Down
  <2> QED  BY <1>0, <1>3, <2>2, <2>3, <2>4 DEF DialFails, AcknowledgedSurvives, SocketInv
<1>4. CASE RemoveSocket(p)
  <2>1. CASE Gone(p, "failed")
    BY <1>4, <2>1, GoneSocket DEF RemoveSocket, Down
  <2>2. CASE ~Gone(p, "failed")
    <3>1. StepAllowed(p, "cleared")
      BY <1>0, <1>4, <2>2, ServeAssumption DEF RemoveSocket, StepAllowed, TypeOK, Up, Down, history
    <3> QED  BY <3>1, StepSocket
  <2> QED  BY <2>1, <2>2
<1>5. CASE BindSocket(p)
  <2>1. CASE Gone(p, "failed") /\ UNCHANGED path
    BY <1>5, <2>1, GoneSocket DEF BindSocket, Down
  <2>2. CASE ~(Gone(p, "failed") /\ UNCHANGED path)
    <3>1. p \notin elder[p]
      BY <1>0, <1>5 DEF BindSocket, Socket, Up
    <3>2. StepAllowed(p, "named")
      BY <1>0, <1>5, <2>2, <3>1 DEF BindSocket, StepAllowed, Up, Down, history
    <3> QED  BY <3>2, StepSocket
  <2> QED  BY <2>1, <2>2
<1>6. CASE ListenSocket(p)
  <2>1. AcknowledgedSurvives'
    BY <1>0, <1>6 DEF ListenSocket, AcknowledgedSurvives
  <2>2. \A q \in Proc : Socket(q)'
    BY <1>0, <1>6 DEF ListenSocket, TypeOK, Step, Socket, Up, Down
  <2>3. \A q \in Proc : Alone(q)'
    BY <1>0, <1>6 DEF ListenSocket, TypeOK, Step, Alone, Down
  <2>4. \A q \in Proc : Memory(q)'
    <3>1. ASSUME ~raced'
          PROVE  acked \subseteq held[p] /\ listening' = {p}
      <4>1. ~raced /\ p \notin beside /\ pc[p] \notin Down
        BY <1>0, <1>6, <3>1 DEF ListenSocket, TypeOK, Down
      <4>2. acked \subseteq held[p] /\ listening \subseteq {p}
        BY <1>0, <4>1 DEF Memory
      <4> QED  BY <1>6, <4>2 DEF ListenSocket
    <3>2. \A q \in Proc \ {p} : Up(q) => q \in listening
      BY <1>0 DEF Socket
    <3> QED
      BY <1>0, <1>6, <3>1, <3>2 DEF ListenSocket, TypeOK, Step, Memory, Up, Down
  <2> QED  BY <2>1, <2>2, <2>3, <2>4 DEF SocketInv
<1>7. CASE \E mode \in Mode : SetPermissions(p, mode)
  <2> PICK mode \in Mode : SetPermissions(p, mode)
    BY <1>7
  <2>1. CASE Gone(p, "failed") /\ path' = NoProc
    BY <2>1, GoneSocket DEF SetPermissions, Down
  <2>2. CASE ~(Gone(p, "failed") /\ path' = NoProc)
    <3>1. path \notin elder[p]
      BY <1>0 DEF SetPermissions, Socket, Down
    <3>2. StepAllowed(p, "serving") \/ StepAllowed(p, "starting")
      BY <2>2, <3>1 DEF SetPermissions, StepAllowed, Up, Down, history
    <3> QED  BY <3>2, StepSocket
  <2> QED  BY <2>1, <2>2
<1> QED  BY <1>1, <1>2, <1>3, <1>4, <1>5, <1>6, <1>7 DEF Starting

LEMMA ServingSocket ==
    ASSUME SocketInv, InformInv', NEW p \in Proc, Serving(p)
    PROVE  SocketInv'
<1>0. /\ TypeOK /\ AcknowledgedSurvives
      /\ \A q \in Proc : Handlers(q) /\ Socket(q) /\ Alone(q) /\ Memory(q)
  BY DEF SocketInv, InformInv
<1>1. CASE UNCHANGED <<pc, file, held, acked, path, listening, history>>
  BY <1>0, <1>1 DEF SocketInv, history, AcknowledgedSurvives, Socket, Alone, Memory, Up
<1>2. CASE BindFails(p)
  <2>1. CASE pc[p] = "starting" /\ Gone(p, "failed") /\ path' = NoProc
    BY <2>1, GoneSocket DEF Down
  <2> QED  BY <1>1, <1>2, <2>1 DEF BindFails
<1>3. CASE Bind(p) /\ ~BindFails(p)
  <2>1. pc[p] \in {"starting", "serving", "stopping"} /\ path \notin elder[p]
    BY <1>0, <1>3 DEF Bind, Binding, Answering, Socket, Down
  <2>2. StepAllowed(p, "serving") \/ StepAllowed(p, "stopping")
    BY <1>3, <2>1 DEF Bind, StepAllowed, Up, Down, history
  <2> QED  BY <2>2, StepSocket
<1>4. CASE \E handler \in {"current", "stray"} : EndInform(p, handler)
  <2>1. Up(p)
    BY <1>0, <1>4 DEF EndInform, Handlers, Answering, Up
  <2>2. AcknowledgedSurvives'
    BY <1>0, <1>4, <2>1 DEF EndInform, Memory, AcknowledgedSurvives, history
  <2> QED
    BY <1>0, <1>4, <2>2 DEF EndInform, SocketInv, Socket, Alone, Memory, Up, history
<1>5. CASE \E op \in Op : Operate(p, op)
  <2> PICK op \in Op : Operate(p, op)
    BY <1>5
  <2>1. Up(p) /\ p \in listening
    BY <1>0 DEF Operate, Answering, Socket, Up
  <2>2. AcknowledgedSurvives'
    BY <1>0, <2>1 DEF Operate, TypeOK, Memory, AcknowledgedSurvives, history
  <2>3. \A q \in Proc : Socket(q)' /\ Alone(q)'
    BY <1>0 DEF Operate, Socket, Alone, Up, history
  <2>4. \A q \in Proc : Memory(q)'
    <3> TAKE q \in Proc
    <3>1. CASE q = p
      BY <1>0, <2>1, <3>1 DEF Operate, TypeOK, Memory, Up, history
    <3>2. CASE q # p
      BY <1>0, <2>1, <3>2 DEF Operate, TypeOK, Memory, Up, history
    <3> QED  BY <3>1, <3>2
  <2> QED  BY <2>2, <2>3, <2>4 DEF SocketInv
<1>6. CASE Shutdown(p)
  <2>1. StepAllowed(p, "stopping")
    BY <1>0, <1>6 DEF Shutdown, StepAllowed, Socket, Up, Down, history
  <2> QED  BY <2>1, StepSocket
<1>7. CASE Exit(p)
  BY <1>7, GoneSocket DEF Exit, Down
<1> QED
  BY <1>1, <1>2, <1>3, <1>4, <1>5, <1>6, <1>7
     DEF Serving, Probe, Bind, Demote, Released, ReleaseTimesOut, DemoteAgain, AcceptInform

LEMMA NextSocket == SocketInv /\ [Next]_vars => SocketInv'
<1> SUFFICES ASSUME SocketInv, [Next]_vars
             PROVE  SocketInv'
  OBVIOUS
<1>1. InformInv'
  BY NextInform DEF SocketInv
<1>2. CASE \E p \in Proc : Open(p) \/ Starting(p) \/ Serving(p)
  BY <1>1, <1>2, OpenSocket, StartingSocket, ServingSocket
<1>3. CASE \E p \in Proc : Crash(p)
  BY <1>1, <1>3, GoneSocket DEF Crash, Down
<1>4. CASE UNCHANGED vars
  BY <1>1, <1>4 DEF vars, history, SocketInv, AcknowledgedSurvives, Socket, Alone, Memory, Up
<1> QED  BY <1>2, <1>3, <1>4 DEF Next

LEMMA SocketInvariant == Spec => []SocketInv
<1> QED  BY InitSocket, NextSocket, PTL DEF Spec

\* What a caller was told had succeeded is in the state file, for as long as no
\* process comes to listen that read the file while, or before, another one
\* listened.  Nothing is assumed of starts that do not get that far.
THEOREM AcknowledgedIsKept == Spec => []AcknowledgedSurvives
<1>1. SocketInv => AcknowledgedSurvives
  BY DEF SocketInv
<1> QED  BY <1>1, SocketInvariant, PTL

\* A start that is alone is not refused because of what an unclean exit, or a race
\* of earlier processes, left at the control path.
THEOREM LoneStartIsServed == Spec => []LoneStartSucceeds
<1>1. SocketInv => LoneStartSucceeds
  BY ServeAssumption
     DEF SocketInv, InformInv, TypeOK, Socket, Alone, Up, Down, LoneStartSucceeds
<1> QED  BY <1>1, SocketInvariant, PTL

\* No step of a process takes the path from a controller that was listening before
\* it started, unless its dial of that controller's socket failed.
THEOREM LiveSocketIsKept == Spec => LiveSocketSurvives
<1>1. ASSUME SocketInv, [Next]_vars, NEW p \in Proc, pc'[p] # pc[p], path' # path
      PROVE  path \notin elder[p]
  <2> USE DEF SocketInv, InformInv, TypeOK
  <2>1. PICK q \in Proc : Open(q) \/ Starting(q) \/ Serving(q) \/ Crash(q)
    BY <1>1 DEF Next, vars
  <2>2. q = p
    BY <1>1, <2>1
       DEF Open, Starting, StatSocket, DialSocket, DialFails, RemoveSocket, BindSocket,
           ListenSocket, SetPermissions, Serving, Probe, Bind, BindFails, Demote, Released,
           ReleaseTimesOut, DemoteAgain, AcceptInform, EndInform, Operate, Shutdown, Exit,
           Crash, Gone, Step
  <2>3. pc[p] \notin Down \cup {"opened", "found"}
    BY <1>1, <2>1, <2>2
       DEF Open, Starting, StatSocket, DialSocket, DialFails, RemoveSocket, BindSocket,
           ListenSocket, SetPermissions, Serving, Probe, Bind, BindFails, Binding, Answering,
           Demote, Released, ReleaseTimesOut, DemoteAgain, AcceptInform, EndInform, Operate,
           Shutdown, Exit, Crash, Down
  <2> QED  BY <1>1, <2>3 DEF Socket
<1>2. SocketInv /\ [Next]_vars =>
         [\A p \in Proc : pc'[p] # pc[p] /\ path' # path => path \notin elder[p]]_vars
  BY <1>1
<1> QED  BY <1>2, SocketInvariant, PTL DEF Spec, LiveSocketSurvives

===============================================================================
