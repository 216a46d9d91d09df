----------------------------- MODULE ServeProcess -----------------------------
(***************************************************************************)
(* `unifi-go serve`: the life of the controller process (cmd/unifi-go/     *)
(* main.go, cmd/unifi-go/serve.go, internal/controller/mode.go).           *)
(*                                                                         *)
(* Processes share a state file and a control socket path.  A start reads  *)
(* the state file, tests the socket with stat and dial, removes a stale    *)
(* one, binds, listens and sets permissions: separate system calls, so     *)
(* starts, stops and crashes of other processes come between any two of    *)
(* them.  The requests themselves are one action each (Controller models   *)
(* what they do); here an operation is something the state file has to     *)
(* remember.  Who else holds the inform address is the environment's       *)
(* choice: a probe and a listen call may find it free or taken.            *)
(***************************************************************************)
EXTENDS Naturals

CONSTANTS
    Proc,          \* processes
    NoProc,        \* no process
    Op,            \* operations that change the state file
    Mode,          \* start modes explored: "shadow", "authoritative"
    MaxStarts      \* starts of each process

ASSUME ServeAssumption ==
    /\ NoProc \notin Proc
    /\ Mode \subseteq {"shadow", "authoritative"}
    /\ MaxStarts \in Nat

VARIABLES
    pc,         \* where serve is
    starts,     \* how often each process was started
    file,       \* operations the state file remembers
    held,       \* operations in a controller's memory
    acked,      \* history: operations whose caller was told they succeeded
    path,       \* the process whose socket is at the control path
    listening,  \* processes whose control socket accepts connections
    binder,     \* informBinder: "free", "probed" (Bind holds mu), "bound",
                \* "draining" (Release holds mu and waits for handlers)
    busy,       \* inform handlers under way: of the bound server, or stray
    told,       \* history: the mode last reported to an operator
    strayed,    \* history: processes that gave up waiting for a handler
    alone,      \* history: the process beside which no other has been alive
                \* since it started, if there is one
    elder,      \* history: whose socket was accepting before a process started
                \* and ever since, unless its dial failed to reach that socket
    beside,     \* history: processes beside which another one has listened at
                \* some time since they read the state file
    raced       \* history: such a process came to listen itself

informs == <<busy, told, strayed>>
history == <<alone, elder, beside, raced>>
vars == <<pc, starts, file, held, acked, path, listening, binder, informs, history>>

Down == {"off", "failed"}

\* Every variable has its type: processes, socket path, listeners and state file.
TypeOK ==
    /\ pc \in [Proc -> Down \cup {"opened", "found", "refused", "cleared", "named",
                                "listened", "starting", "serving", "stopping"}]
    /\ starts \in [Proc -> 0..MaxStarts]
    /\ file \subseteq Op
    /\ held \in [Proc -> SUBSET Op]
    /\ acked \subseteq Op
    /\ path \in Proc \cup {NoProc}
    /\ listening \subseteq Proc
    /\ binder \in [Proc -> {"free", "probed", "bound", "draining"}]
    /\ busy \in [Proc -> SUBSET {"current", "stray"}]
    /\ told \in [Proc -> {"shadow", "authoritative"}]
    /\ strayed \subseteq Proc
    /\ alone \in Proc \cup {NoProc}
    /\ elder \in [Proc -> SUBSET Proc]
    /\ beside \subseteq Proc
    /\ raced \in BOOLEAN

\* The process is gone, in an orderly way or not.
Gone(p, how) ==
    /\ pc' = [pc EXCEPT ![p] = how]
    /\ held' = [held EXCEPT ![p] = {}]
    /\ listening' = listening \ {p}
    /\ binder' = [binder EXCEPT ![p] = "free"]
    /\ busy' = [busy EXCEPT ![p] = {}]
    /\ told' = [told EXCEPT ![p] = "shadow"]
    /\ strayed' = strayed \ {p}
    /\ alone' = IF alone = p THEN NoProc ELSE alone
    /\ elder' = [q \in Proc |-> IF q = p THEN {} ELSE elder[q] \ {p}]
    /\ beside' = beside \ {p}
    /\ UNCHANGED <<starts, file, acked, raced>>

Step(p, to) == pc' = [pc EXCEPT ![p] = to]

-------------------------------------------------------------------------------
(* Starting *)

\* controller.Open: the state file is read before anything else.
Open(p) ==
    /\ pc[p] \in Down
    /\ starts[p] < MaxStarts
    /\ Step(p, "opened")
    /\ starts' = [starts EXCEPT ![p] = @ + 1]
    /\ held' = [held EXCEPT ![p] = file]
    /\ alone' = IF \A q \in Proc \ {p} : pc[q] \in Down THEN p ELSE NoProc
    /\ elder' = [elder EXCEPT ![p] = listening]
    /\ beside' = IF listening = {} THEN beside ELSE beside \cup {p}
    /\ UNCHANGED <<file, acked, path, listening, binder, informs, raced>>

\* clearStaleSocket: os.Stat.
StatSocket(p) ==
    /\ pc[p] = "opened"
    /\ Step(p, IF path = NoProc THEN "cleared" ELSE "found")
    /\ UNCHANGED <<starts, file, held, acked, path, listening, binder, informs, history>>

\* Mutant: the socket is taken for stale without a connection.
DialSocketNever(p) ==
    /\ pc[p] = "found"
    /\ Step(p, "refused")
    /\ UNCHANGED <<starts, file, held, acked, path, listening, binder, informs, history>>

\* Mutant: a stale socket is left where it is.
DialSocketKeeps(p) ==
    /\ pc[p] = "found"
    /\ \/ /\ path \in listening
          /\ Gone(p, "failed")
       \/ /\ path \notin listening
          /\ Step(p, "cleared")
          /\ UNCHANGED <<starts, file, held, acked, listening, binder, informs, history>>
    /\ UNCHANGED path

\* clearStaleSocket: a socket that accepts belongs to a running controller.
DialSocket(p) ==
    /\ pc[p] = "found"
    /\ \/ /\ path \in listening
          /\ Gone(p, "failed")
       \/ /\ path \notin listening
          /\ Step(p, "refused")
          /\ UNCHANGED <<starts, file, held, acked, listening, binder, informs, history>>
    /\ UNCHANGED path

\* clearStaleSocket: every other dial error counts as a refusal: a full queue of
\* connections, the time-out, a signal that cancels the start.
DialFails(p) ==
    /\ pc[p] = "found"
    /\ path \in listening
    /\ Step(p, "refused")
    /\ elder' = [elder EXCEPT ![p] = @ \ {path}]
    /\ UNCHANGED <<starts, file, held, acked, path, listening, binder, informs,
                   alone, beside, raced>>

\* clearStaleSocket: os.Remove takes whatever is at the path by now.
RemoveSocket(p) ==
    /\ pc[p] = "refused"
    /\ \/ /\ path = NoProc
          /\ Gone(p, "failed")
       \/ /\ path # NoProc
          /\ Step(p, "cleared")
          /\ UNCHANGED <<starts, file, held, acked, listening, binder, informs, history>>
    /\ path' = NoProc

\* The bind call of Listen: an occupied path is an error.
BindSocket(p) ==
    /\ pc[p] = "cleared"
    /\ \/ /\ path # NoProc
          /\ Gone(p, "failed")
          /\ UNCHANGED path
       \/ /\ path = NoProc
          /\ path' = p
          /\ Step(p, "named")
          /\ UNCHANGED <<starts, file, held, acked, listening, binder, informs, history>>

\* The listen call of Listen: from now on the socket accepts connections.
ListenSocket(p) ==
    /\ pc[p] = "named"
    /\ Step(p, "listened")
    /\ listening' = listening \cup {p}
    /\ beside' = beside \cup {q \in Proc \ {p} : pc[q] \notin Down}
    /\ raced' = (raced \/ p \in beside)
    /\ UNCHANGED <<starts, file, held, acked, path, binder, informs, alone, elder>>

\* os.Chmod of whatever is at the path.  An error ends the process, and the
\* deferred Close unlinks the path.
SetPermissions(p, mode) ==
    /\ pc[p] = "listened"
    /\ \/ /\ Gone(p, "failed")
          /\ path' = NoProc
       \/ /\ path # NoProc
          /\ Step(p, IF mode = "shadow" THEN "serving" ELSE "starting")
          /\ UNCHANGED <<starts, file, held, acked, path, listening, binder, informs, history>>

-------------------------------------------------------------------------------
(* The inform listener *)

\* The process answers on its control socket.
Answering(p) == pc[p] \in {"serving", "stopping"}

\* Bind runs at an authoritative start and at a promotion.
Binding(p) == pc[p] = "starting" \/ Answering(p)

\* Bind fails: a promotion reports shadow mode, a start ends the process.  The
\* deferred Close unlinks the control path.
BindFails(p) ==
    \/ /\ Answering(p)
       /\ binder' = [binder EXCEPT ![p] = "free"]
       /\ told' = [told EXCEPT ![p] = "shadow"]
       /\ UNCHANGED <<pc, starts, file, held, acked, path, listening, busy, strayed, history>>
    \/ /\ pc[p] = "starting"
       /\ Gone(p, "failed")
       /\ path' = NoProc

\* refuseOccupied: the probe is answered and Bind refuses; or its dial fails, for
\* whatever reason, and the address counts as free.
Probe(p) ==
    /\ Binding(p)
    /\ binder[p] = "free"
    /\ \/ BindFails(p)
       \/ /\ binder' = [binder EXCEPT ![p] = "probed"]
          /\ UNCHANGED <<pc, starts, file, held, acked, path, listening, informs, history>>

\* The listen call (external) fails, or the listener is bound and served.
Bind(p) ==
    /\ Binding(p)
    /\ binder[p] = "probed"
    /\ \/ BindFails(p)
       \/ /\ binder' = [binder EXCEPT ![p] = "bound"]
          /\ told' = [told EXCEPT ![p] = "authoritative"]
          /\ Step(p, IF pc[p] = "starting" THEN "serving" ELSE pc[p])
          /\ UNCHANGED <<starts, file, held, acked, path, listening, busy, strayed, history>>

\* Release, for a demotion or the end of serve: the binder forgets the server and
\* its listener closes; the lock is kept while handlers end.
Demote(p) ==
    /\ Answering(p)
    /\ binder[p] = "bound"
    /\ binder' = [binder EXCEPT ![p] = "draining"]
    /\ UNCHANGED <<pc, starts, file, held, acked, path, listening, informs, history>>

\* Mutant: Release does not wait for the handlers.
ReleasedAtOnce(p) ==
    /\ binder[p] = "draining"
    /\ binder' = [binder EXCEPT ![p] = "free"]
    /\ told' = [told EXCEPT ![p] = "shadow"]
    /\ UNCHANGED <<pc, starts, file, held, acked, path, listening, busy, strayed, history>>

\* Release succeeds: no handler of the server is left.
Released(p) ==
    /\ binder[p] = "draining"
    /\ "current" \notin busy[p]
    /\ binder' = [binder EXCEPT ![p] = "free"]
    /\ told' = [told EXCEPT ![p] = "shadow"]
    /\ UNCHANGED <<pc, starts, file, held, acked, path, listening, busy, strayed, history>>

\* Release gives up after informShutdownWait.  The operator is told of an error in
\* authoritative mode; the server is forgotten and its handlers go on.
ReleaseTimesOut(p) ==
    /\ binder[p] = "draining"
    /\ "current" \in busy[p]
    /\ binder' = [binder EXCEPT ![p] = "free"]
    /\ busy' = [busy EXCEPT ![p] = {"stray"}]
    /\ told' = [told EXCEPT ![p] = "authoritative"]
    /\ strayed' = strayed \cup {p}
    /\ UNCHANGED <<pc, starts, file, held, acked, path, listening, history>>

\* Demote with nothing bound succeeds and reports shadow mode, and so does a query
\* of the mode.
DemoteAgain(p) ==
    /\ Answering(p)
    /\ binder[p] = "free"
    /\ told' = [told EXCEPT ![p] = "shadow"]
    /\ UNCHANGED <<pc, starts, file, held, acked, path, listening, binder, busy, strayed, history>>

\* A device's inform reaches the bound listener.
AcceptInform(p) ==
    /\ Answering(p)
    /\ binder[p] = "bound"
    /\ busy' = [busy EXCEPT ![p] = @ \cup {"current"}]
    /\ UNCHANGED <<pc, starts, file, held, acked, path, listening, binder, told, strayed, history>>

\* The handler saves all of the controller's memory and answers.
EndInform(p, handler) ==
    /\ handler \in busy[p]
    /\ busy' = [busy EXCEPT ![p] = @ \ {handler}]
    /\ file' = held[p]
    /\ UNCHANGED <<pc, starts, held, acked, path, listening, binder, told, strayed, history>>

-------------------------------------------------------------------------------
(* Serving, stopping, crashing *)

\* Mutant: the caller is told although nothing was saved.
OperateUnsaved(p, op) ==
    /\ Answering(p)
    /\ path = p
    /\ held' = [held EXCEPT ![p] = @ \cup {op}]
    /\ acked' = acked \cup {op}
    /\ UNCHANGED <<pc, starts, file, path, listening, binder, informs, history>>

\* A control request reaches the process whose socket is at the path; memory
\* changes, all of it is saved, and the caller is told.
Operate(p, op) ==
    /\ Answering(p)
    /\ path = p
    /\ held' = [held EXCEPT ![p] = @ \cup {op}]
    /\ file' = held'[p]
    /\ acked' = acked \cup {op}
    /\ UNCHANGED <<pc, starts, path, listening, binder, informs, history>>

\* serve is told to end; the control socket answers until the listener is released.
Shutdown(p) ==
    /\ pc[p] = "serving"
    /\ Step(p, "stopping")
    /\ UNCHANGED <<starts, file, held, acked, path, listening, binder, informs, history>>

\* serve returns, its Release successful or not: closing the control listener
\* unlinks the control path, and handlers end with the process.
Exit(p) ==
    /\ pc[p] = "stopping"
    /\ binder[p] = "free"
    /\ Gone(p, "off")
    /\ path' = NoProc

\* The process is killed; its socket file stays.
Crash(p) ==
    /\ pc[p] \notin Down
    /\ Gone(p, "off")
    /\ UNCHANGED path

-------------------------------------------------------------------------------
Init ==
    /\ pc = [p \in Proc |-> "off"]
    /\ starts = [p \in Proc |-> 0]
    /\ file = {}
    /\ held = [p \in Proc |-> {}]
    /\ acked = {}
    /\ path = NoProc
    /\ listening = {}
    /\ binder = [p \in Proc |-> "free"]
    /\ busy = [p \in Proc |-> {}]
    /\ told = [p \in Proc |-> "shadow"]
    /\ strayed = {}
    /\ alone = NoProc
    /\ elder = [p \in Proc |-> {}]
    /\ beside = {}
    /\ raced = FALSE

Starting(p) ==
    \/ StatSocket(p)
    \/ DialSocket(p)
    \/ DialFails(p)
    \/ RemoveSocket(p)
    \/ BindSocket(p)
    \/ ListenSocket(p)
    \/ \E mode \in Mode : SetPermissions(p, mode)

Serving(p) ==
    \/ Probe(p)
    \/ Bind(p)
    \/ Demote(p)
    \/ Released(p)
    \/ ReleaseTimesOut(p)
    \/ DemoteAgain(p)
    \/ AcceptInform(p)
    \/ \E handler \in {"current", "stray"} : EndInform(p, handler)
    \/ \E op \in Op : Operate(p, op)
    \/ Shutdown(p)
    \/ Exit(p)

Next == \E p \in Proc : Open(p) \/ Starting(p) \/ Serving(p) \/ Crash(p)

Spec == Init /\ [][Next]_vars

-------------------------------------------------------------------------------
(* Properties *)

\* What a caller was told had succeeded is in the state file, through crashes,
\* restarts, refused starts and handlers that save late, as long as no process
\* comes to listen that read the file while, or before, another one listened.
\* A start that overlaps another's end is such a process: see AcknowledgedReload.
AcknowledgedSurvives == raced \/ acked \subseteq file

\* "Device keys, full baselines, typed identities, and descriptors reload": what a
\* caller was told had succeeded is there for the next start.  The code breaks it:
\* the state file is read before the control socket is owned.
AcknowledgedReload == acked \subseteq file

\* A controller whose socket was accepting before a process started keeps the
\* control path: no step of that process, however starts, ends and crashes of
\* others come between its stat, dial, remove, bind, listen and end, takes it away.
\* The exception is a start whose dial of that very socket failed.
LiveSocketSurvives ==
    [][\A p \in Proc : pc'[p] # pc[p] /\ path' # path => path \notin elder[p]]_vars

\* An unclean exit does not keep a later start from serving: whatever crashes left
\* behind, a start that is alone is refused by nothing at the control path, down to
\* the permissions of its socket.
LoneStartSucceeds ==
    \A p \in Proc :
       alone = p =>
          /\ pc[p] \in {"found", "refused"} => path # NoProc /\ path \notin listening
          /\ pc[p] = "cleared" => path = NoProc
          /\ pc[p] \in {"named", "listened"} => path = p

\* With every variable of its type, the mode an operator was last told is the mode
\* the controller is in.  One that reported shadow has no listener, and answers no
\* inform but those that outlived an earlier demotion that gave up waiting; one that
\* reported authoritative has its listener, or is such a demotion's error.
ModeIsAsTold ==
    /\ TypeOK
    /\ \A p \in Proc :
          /\ told[p] = "shadow" =>
                /\ binder[p] \in {"free", "probed"}
                /\ busy[p] \subseteq (IF p \in strayed THEN {"stray"} ELSE {})
          /\ told[p] = "authoritative" => binder[p] \in {"bound", "draining"} \/ p \in strayed

===============================================================================
