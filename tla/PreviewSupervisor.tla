--------------------------- MODULE PreviewSupervisor --------------------------
(****************************************************************************)
(* The private preview (scripts/preview.mjs): the commands start, stop and  *)
(* status of a workspace, the detached supervisors that start spawns, the   *)
(* port on which one of them runs the gateway, its cloudflared child, and   *)
(* state.json, by which the commands find it.                               *)
(*                                                                          *)
(* writeFile is two steps, truncating the file and writing its content;     *)
(* writes that are started without waiting overlap.  A supervisor is named  *)
(* by its instance, which is what the commands compare.                     *)
(****************************************************************************)
EXTENDS Naturals, FiniteSets

CONSTANTS
    Supervisors,   \* the instances that the start commands may spawn
    Commands,      \* the commands that are issued
    Kind,          \* command -> "start", "stop" or "status"
    Nobody,
    MaxFailures    \* bound of the exits of connectors that were not told to

ASSUME PreviewAssumption ==
    /\ Nobody \notin Supervisors
    /\ Kind \in [Commands -> {"start", "stop", "status"}]
    /\ MaxFailures \in Nat

VARIABLES
    pc,          \* of each supervisor
    port,        \* the supervisor whose gateway listens, or Nobody
    child,       \* its latest cloudflared process
    connected,   \* state.connected and state.url, as the status route shows them
    due,        \* the call of connect() that is due: after "save", by "timer"
    output,      \* an exited child's last output has not been read yet
    asked, open, \* its writes of state.json not begun, and begun
    file,        \* state.json: an instance, "absent", "empty" or "garbled"
    access,      \* access.json: "absent", "empty" or "written"
    cmd,         \* the commands: their step and the instance they act on
    failures     \* counter of the bound

server == <<pc, port, child, connected, due, output>>
disk == <<asked, open, file>>
vars == <<server, disk, access, cmd, failures>>

NoChild == [alive |-> FALSE, signalled |-> FALSE, registered |-> FALSE]

None == [s \in Supervisors |-> FALSE]

Init ==
    /\ pc = [s \in Supervisors |-> "unborn"]
    /\ port = Nobody
    /\ child = [s \in Supervisors |-> NoChild]
    /\ connected = None /\ output = None
    /\ due = [s \in Supervisors |-> "none"]
    /\ asked = [s \in Supervisors |-> 0] /\ open = [s \in Supervisors |-> 0]
    /\ file = "absent" /\ access = "absent"
    /\ cmd = [c \in Commands |-> [step |-> "idle", current |-> Nobody]]
    /\ failures = 0

-----------------------------------------------------------------------------
(* Files.                                                                   *)

Save(s) == asked' = [asked EXCEPT ![s] = @ + 1]

OpenState(s) ==
    /\ asked[s] > 0 /\ pc[s] # "exited"
    /\ asked' = [asked EXCEPT ![s] = @ - 1]
    /\ open' = [open EXCEPT ![s] = @ + 1]
    /\ file' = "empty"
    /\ UNCHANGED <<server, access, cmd, failures>>

\* Over what another write has put there meanwhile; a longer text may show
\* through behind a shorter one.
WriteState(s) ==
    /\ open[s] > 0 /\ pc[s] # "exited"
    /\ open' = [open EXCEPT ![s] = @ - 1]
    /\ file' \in IF file = "empty" THEN {s} ELSE {s, "garbled"}
    /\ UNCHANGED <<server, asked, access, cmd, failures>>

-----------------------------------------------------------------------------
(* The supervisor.                                                          *)

\* serve() reads the credentials; a file that is not written yet ends it.
Boot(s) ==
    /\ pc[s] = "spawned"
    /\ pc' = [pc EXCEPT ![s] = IF access = "written" THEN "booted" ELSE "exited"]
    /\ UNCHANGED <<port, child, connected, due, output, disk, access, cmd, failures>>

\* Seeded fault: the child is left to end with the process.
ShutdownKeepsChild(s) ==
    /\ pc' = [pc EXCEPT ![s] = "stopping"]
    /\ due' = [due EXCEPT ![s] = IF @ = "timer" THEN "none" ELSE @]
    /\ port' = IF port = s THEN Nobody ELSE port
    /\ UNCHANGED <<child, connected, output>>

\* shutdown(): timer, child and gateway at once; state.json and the exit follow.
Shutdown(s) ==
    /\ pc' = [pc EXCEPT ![s] = "stopping"]
    /\ due' = [due EXCEPT ![s] = IF @ = "timer" THEN "none" ELSE @]
    /\ child' = [child EXCEPT ![s].signalled = child[s].alive]
    /\ port' = IF port = s THEN Nobody ELSE port
    /\ UNCHANGED <<connected, output>>

Listen(s) ==
    /\ pc[s] = "booted"
    /\ \/ /\ port = Nobody
          /\ port' = s
          /\ pc' = [pc EXCEPT ![s] = "serving"]
          /\ due' = [due EXCEPT ![s] = "save"]
          /\ Save(s)
          /\ UNCHANGED <<child, connected, output>>
       \/ /\ port # Nobody   \* EADDRINUSE
          /\ Shutdown(s)
          /\ UNCHANGED asked
    /\ UNCHANGED <<open, file, access, cmd, failures>>

\* Seeded fault: no timer is set after the exit of a connector.
DueAfterSave(s) == due[s] = "save" /\ asked[s] = 0 /\ open[s] = 0

\* connect() follows the first save, and each exit after 2 s or more.
Due(s) == due[s] = "timer" \/ (due[s] = "save" /\ asked[s] = 0 /\ open[s] = 0)

\* Seeded fault: connect() does not look at stopping.
EvenStopping(s) == pc[s] \in {"serving", "stopping", "removed"}

\* connect() gives up when the shutdown came first.
MayConnect(s) == pc[s] = "serving"

Connect(s) ==
    /\ pc[s] # "exited" /\ Due(s)
    /\ due' = [due EXCEPT ![s] = "none"]
    /\ child' = IF MayConnect(s)
                THEN [child EXCEPT ![s] = [NoChild EXCEPT !.alive = TRUE]]
                ELSE child
    /\ UNCHANGED <<pc, port, connected, output, disk, access, cmd, failures>>

\* cloudflared cannot be started: no exit event follows.
SpawnFails(s) ==
    /\ pc[s] = "serving" /\ Due(s)
    /\ failures < MaxFailures /\ failures' = failures + 1
    /\ pc' = [pc EXCEPT ![s] = "stopping"]
    /\ due' = [due EXCEPT ![s] = "none"]
    /\ port' = Nobody
    /\ UNCHANGED <<child, connected, output, disk, access, cmd>>

\* capture() reads the address of the tunnel and that it is registered; each of
\* the two that is news is saved.
Registered(s) ==
    /\ child[s].alive /\ ~child[s].registered /\ ~child[s].signalled
    /\ pc[s] = "serving"
    /\ child' = [child EXCEPT ![s].registered = TRUE]
    /\ connected' = [connected EXCEPT ![s] = TRUE]
    /\ asked' = [asked EXCEPT ![s] = @ + IF connected[s] THEN 1 ELSE 2]
    /\ UNCHANGED <<pc, port, due, output, open, file, access, cmd, failures>>

\* The exit event, which may come before the child's last output.
Exits(s) ==
    /\ child[s].alive
    /\ child' = [child EXCEPT ![s].alive = FALSE]
    /\ \/ child[s].signalled /\ UNCHANGED failures
       \/ ~child[s].signalled /\ failures < MaxFailures /\ failures' = failures + 1
    /\ output' = [output EXCEPT ![s] = child[s].registered /\ pc[s] # "exited"]
    /\ connected' = [connected EXCEPT ![s] = FALSE]
    /\ IF pc[s] = "serving"
       THEN Save(s) /\ due' = [due EXCEPT ![s] = "timer"]
       ELSE UNCHANGED <<asked, due>>
    /\ UNCHANGED <<pc, port, open, file, access, cmd>>

\* Output of the exited child: capture() takes its tunnel for the current one.
LateOutput(s) ==
    /\ output[s] /\ pc[s] # "exited"
    /\ output' = [output EXCEPT ![s] = FALSE]
    /\ connected' = [connected EXCEPT ![s] = TRUE]
    /\ IF connected[s] THEN UNCHANGED asked ELSE Save(s)
    /\ UNCHANGED <<pc, port, child, due, open, file, access, cmd, failures>>

\* Writes that are under way go on into the removed file.
RemoveState(s) ==
    /\ pc[s] = "stopping"
    /\ pc' = [pc EXCEPT ![s] = "removed"]
    /\ file' = "absent"
    /\ open' = [t \in Supervisors |-> 0]
    /\ UNCHANGED <<port, child, connected, due, output, asked, access, cmd, failures>>

Exit(s) ==
    /\ pc[s] = "removed"
    /\ pc' = [pc EXCEPT ![s] = "exited"]
    /\ UNCHANGED <<port, child, connected, due, output, disk, access, cmd, failures>>

-----------------------------------------------------------------------------
(* The commands.                                                            *)

To(c, step) == cmd' = [cmd EXCEPT ![c].step = step]

Issue(c) ==
    /\ cmd[c].step = "idle"
    /\ To(c, "read")
    /\ UNCHANGED <<server, disk, access, failures>>

\* currentStatus() reads both files.
ReadState(c) ==
    /\ cmd[c].step = "read"
    /\ cmd' = [cmd EXCEPT ![c] =
                   [step |-> "probe",
                    current |-> IF file \in Supervisors /\ access = "written"
                                THEN file ELSE Nobody]]
    /\ UNCHANGED <<server, disk, access, failures>>

Decision(kind, current) ==
    CASE kind = "stop" /\ current # Nobody  -> "signal"
      [] kind = "start" /\ current = Nobody -> "ready"
      [] OTHER                              -> "done"

\* The status route of the gateway must answer in time and name that instance.
Confirmed(c) == IF port = cmd[c].current THEN {port, Nobody} ELSE {Nobody}

Probe(c) ==
    /\ cmd[c].step = "probe"
    /\ \E current \in Confirmed(c) :
          cmd' = [cmd EXCEPT ![c] = [step |-> Decision(Kind[c], current),
                                     current |-> current]]
    /\ UNCHANGED <<server, disk, access, failures>>

\* stop sends SIGTERM; a second one changes nothing.
Signal(c) ==
    LET s == cmd[c].current
    IN /\ cmd[c].step = "signal"
       /\ To(c, "done")
       /\ IF pc[s] = "serving" THEN Shutdown(s) ELSE UNCHANGED server
       /\ UNCHANGED <<disk, access, failures>>

\* start: the stack may not be ready; the first one writes the credentials.
Ready(c) ==
    /\ cmd[c].step = "ready"
    /\ \/ To(c, "done") /\ UNCHANGED access
       \/ access = "absent" /\ access' = "empty" /\ To(c, "credentials")
       \/ access # "absent" /\ To(c, "spawn") /\ UNCHANGED access
    /\ UNCHANGED <<server, disk, failures>>

WriteAccess(c) ==
    /\ cmd[c].step = "credentials"
    /\ access' = "written"
    /\ To(c, "spawn")
    /\ UNCHANGED <<server, disk, failures>>

Spawn(c) ==
    /\ cmd[c].step = "spawn"
    /\ \E s \in Supervisors :
          /\ pc[s] = "unborn"
          /\ pc' = [pc EXCEPT ![s] = "spawned"]
    /\ To(c, "done")   \* the 60 looks at the status only report it
    /\ UNCHANGED <<port, child, connected, due, output, disk, access, failures>>

Act(s) ==
    Boot(s) \/ Listen(s) \/ Connect(s) \/ RemoveState(s) \/ Exit(s)
    \/ OpenState(s) \/ WriteState(s)

Perform(c) == ReadState(c) \/ Probe(c) \/ Signal(c) \/ Ready(c) \/ WriteAccess(c) \/ Spawn(c)

Next ==
    \/ \E s \in Supervisors :
          \/ Act(s) \/ SpawnFails(s)
          \/ Registered(s) \/ Exits(s) \/ LateOutput(s)
    \/ \E c \in Commands : Issue(c) \/ Perform(c)

\* Files, timers and processes make progress; a connector that is left running
\* registers, and one that was told to exits.
Spec ==
    /\ Init /\ [][Next]_vars
    /\ \A s \in Supervisors :
          /\ WF_vars(Act(s))
          /\ WF_vars(Registered(s))
          /\ WF_vars(child[s].signalled /\ Exits(s))

-----------------------------------------------------------------------------
(* Properties.                                                              *)

\* A connector that nobody told to stop belongs to the supervisor whose gateway
\* it leads to: neither a start that lost the race for the port nor a stop that
\* came before connect() leaves one behind (preview.mjs:56, :89, :107).
ConnectorsAreOwned ==
    \A s \in Supervisors :
        child[s].alive /\ ~child[s].signalled => pc[s] = "serving" /\ port = s

\* A serving supervisor has a tunnel again after every exit of its connector,
\* unless it is stopped ("restarts its own cloudflared child after a
\* connection-process failure", docs/private-preview.md:27; preview.mjs:80).
ConnectorComesBack ==
    \A s \in Supervisors :
        pc[s] = "serving" ~>
            (child[s].alive /\ child[s].registered) \/ pc[s] # "serving"

\* A supervisor that was told to stop ends, its connector ends, and no write of
\* its own stands in the way (preview.mjs:42).
StopEnds ==
    \A s \in Supervisors :
        pc[s] = "stopping" ~> (pc[s] = "exited" /\ ~child[s].alive)
-----------------------------------------------------------------------------
(* What every step keeps, from which ConnectorsAreOwned follows.            *)

SupervisorSteps ==
    {"unborn", "spawned", "booted", "serving", "stopping", "removed", "exited"}

CommandSteps ==
    {"idle", "read", "probe", "signal", "ready", "credentials", "spawn", "done"}

\* The variables that decide who owns a connector have their types.
OwnersTyped ==
    /\ pc \in [Supervisors -> SupervisorSteps]
    /\ port \in Supervisors \cup {Nobody}
    /\ child \in [Supervisors -> [alive : BOOLEAN, signalled : BOOLEAN,
                                  registered : BOOLEAN]]
    /\ due \in [Supervisors -> {"none", "save", "timer"}]
    /\ cmd \in [Commands -> [step : CommandSteps, current : Supervisors \cup {Nobody}]]

\* stop signals a supervisor that its probe has confirmed.
SignalsSomebody == \A c \in Commands : cmd[c].step = "signal" => cmd[c].current # Nobody

\* The gateway listens exactly while its supervisor serves.
PortIsServed ==
    \A s \in Supervisors : port = s <=> pc[s] = "serving"

\* A connector that was not told to stop has a serving supervisor.
ConnectorIsServed ==
    \A s \in Supervisors : child[s].alive /\ ~child[s].signalled => pc[s] = "serving"

\* connect() is never due while an earlier connector runs: a second one would
\* leave the first without an owner.
OneConnector == \A s \in Supervisors : due[s] # "none" => ~child[s].alive

\* Nothing runs and nothing is due before the gateway listens.
NothingBefore ==
    \A s \in Supervisors :
        pc[s] \in {"unborn", "spawned", "booted"} => due[s] = "none" /\ ~child[s].alive

SupervisorInv ==
    /\ OwnersTyped /\ SignalsSomebody
    /\ PortIsServed /\ ConnectorIsServed /\ OneConnector /\ NothingBefore
=============================================================================
