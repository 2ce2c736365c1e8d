------------------------ MODULE PreviewSupervisorProofs -----------------------
(****************************************************************************)
(* Why no cloudflared process is left behind, for any number of supervisors *)
(* and commands and however often connectors exit.  SupervisorInv is        *)
(* inductive: ConnectorsAreOwned alone is not, because a connect() that was *)
(* due while an earlier connector runs, or a port that outlives its         *)
(* supervisor, would break it in the next step.                             *)
(****************************************************************************)
EXTENDS PreviewSupervisor, TLAPS

\* At first nobody runs and nobody listens.
LEMMA InitSupervisor == Init => SupervisorInv
<1> SUFFICES ASSUME Init PROVE SupervisorInv
  OBVIOUS
<1>1. OwnersTyped
  BY DEF Init, OwnersTyped, NoChild, SupervisorSteps, CommandSteps
<1>2. SignalsSomebody /\ ConnectorIsServed /\ OneConnector /\ NothingBefore
  BY DEF Init, SignalsSomebody, ConnectorIsServed, OneConnector, NothingBefore, NoChild
<1>3. PortIsServed
  BY PreviewAssumption DEF Init, PortIsServed
<1> QED
  BY <1>1, <1>2, <1>3 DEF SupervisorInv

-----------------------------------------------------------------------------
(* The supervisor's steps.                                                  *)

\* Writes of state.json and the output of a connector own nothing.
LEMMA SameOwners ==
    ASSUME SupervisorInv, UNCHANGED <<pc, port, child, due, cmd>>
    PROVE  SupervisorInv'
BY DEF SupervisorInv, OwnersTyped, SignalsSomebody, PortIsServed, ConnectorIsServed,
       OneConnector, NothingBefore

\* Reading the credentials starts nothing.
LEMMA BootSafe ==
    ASSUME SupervisorInv, NEW s \in Supervisors, Boot(s)
    PROVE  SupervisorInv'
<1>1. OwnersTyped' /\ SignalsSomebody'
  BY DEF Boot, SupervisorInv, OwnersTyped, SignalsSomebody, SupervisorSteps
<1>2. PortIsServed' /\ ConnectorIsServed'
  BY DEF Boot, SupervisorInv, OwnersTyped, PortIsServed, ConnectorIsServed
<1>3. OneConnector' /\ NothingBefore'
  BY DEF Boot, SupervisorInv, OwnersTyped, OneConnector, NothingBefore
<1> QED
  BY <1>1, <1>2, <1>3 DEF SupervisorInv

\* shutdown() tells the child, if there is one, and gives the port back.
LEMMA ShutdownSafe ==
    ASSUME SupervisorInv, NEW s \in Supervisors, Shutdown(s),
           cmd' \in [Commands -> [step : CommandSteps,
                                  current : Supervisors \cup {Nobody}]],
           SignalsSomebody'
    PROVE  SupervisorInv'
<1> DEFINE told == [child[s] EXCEPT !.signalled = child[s].alive]
<1>1. /\ told \in [alive : BOOLEAN, signalled : BOOLEAN, registered : BOOLEAN]
      /\ told.alive = child[s].alive /\ told.signalled = child[s].alive
      /\ child' = [child EXCEPT ![s] = told]
  BY DEF Shutdown, SupervisorInv, OwnersTyped
<1> HIDE DEF told
<1>2. OwnersTyped'
  BY <1>1, PreviewAssumption DEF Shutdown, SupervisorInv, OwnersTyped, SupervisorSteps
<1>3. PortIsServed'
  BY PreviewAssumption DEF Shutdown, SupervisorInv, OwnersTyped, PortIsServed
<1>4. ConnectorIsServed'
  BY <1>1 DEF Shutdown, SupervisorInv, OwnersTyped, ConnectorIsServed
<1>5. OneConnector' /\ NothingBefore'
  BY <1>1 DEF Shutdown, SupervisorInv, OwnersTyped, OneConnector, NothingBefore
<1> QED
  BY <1>2, <1>3, <1>4, <1>5 DEF SupervisorInv

\* The port decides which of two supervisors serves; the other one shuts down.
LEMMA ListenSafe ==
    ASSUME SupervisorInv, NEW s \in Supervisors, Listen(s)
    PROVE  SupervisorInv'
<1>0. /\ cmd' = cmd
      /\ cmd' \in [Commands -> [step : CommandSteps, current : Supervisors \cup {Nobody}]]
      /\ SignalsSomebody'
  BY DEF Listen, SupervisorInv, OwnersTyped, SignalsSomebody
<1>1. CASE port = Nobody
  <2>1. OwnersTyped'
    BY <1>0, <1>1 DEF Listen, SupervisorInv, OwnersTyped, SupervisorSteps
  <2>2. PortIsServed' /\ ConnectorIsServed'
    BY <1>1, PreviewAssumption
    DEF Listen, SupervisorInv, OwnersTyped, PortIsServed, ConnectorIsServed
  <2>3. OneConnector' /\ NothingBefore'
    BY <1>1 DEF Listen, SupervisorInv, OwnersTyped, OneConnector, NothingBefore
  <2> QED
    BY <1>0, <2>1, <2>2, <2>3 DEF SupervisorInv
<1>2. CASE port # Nobody
  BY <1>0, <1>2, ShutdownSafe DEF Listen
<1> QED
  BY <1>1, <1>2

\* connect() starts a child only for a supervisor that serves and has none.
LEMMA ConnectSafe ==
    ASSUME SupervisorInv, NEW s \in Supervisors, Connect(s)
    PROVE  SupervisorInv'
<1>1. [NoChild EXCEPT !.alive = TRUE]
          \in [alive : BOOLEAN, signalled : BOOLEAN, registered : BOOLEAN]
  BY DEF NoChild
<1>2. OwnersTyped' /\ SignalsSomebody'
  BY <1>1 DEF Connect, SupervisorInv, OwnersTyped, SignalsSomebody
<1>3. PortIsServed'
  BY DEF Connect, SupervisorInv, PortIsServed
<1>4. ConnectorIsServed'
  BY DEF Connect, MayConnect, SupervisorInv, OwnersTyped, ConnectorIsServed
<1>5. OneConnector' /\ NothingBefore'
  BY DEF Connect, MayConnect, SupervisorInv, OwnersTyped, OneConnector, NothingBefore
<1> QED
  BY <1>2, <1>3, <1>4, <1>5 DEF SupervisorInv

\* When cloudflared cannot be started there is no child to tell.
LEMMA SpawnFailsSafe ==
    ASSUME SupervisorInv, NEW s \in Supervisors, SpawnFails(s)
    PROVE  SupervisorInv'
<1>1. OwnersTyped' /\ SignalsSomebody'
  BY DEF SpawnFails, SupervisorInv, OwnersTyped, SignalsSomebody, SupervisorSteps
<1>2. PortIsServed'
  BY PreviewAssumption DEF SpawnFails, SupervisorInv, OwnersTyped, PortIsServed
<1>3. ~child[s].alive
  BY DEF SpawnFails, Due, SupervisorInv, OneConnector
<1>4. ConnectorIsServed' /\ OneConnector' /\ NothingBefore'
  BY <1>3 DEF SpawnFails, SupervisorInv, OwnersTyped, ConnectorIsServed, OneConnector,
              NothingBefore
<1> QED
  BY <1>1, <1>2, <1>4 DEF SupervisorInv

\* A registration leaves the child with its supervisor.
LEMMA RegisteredSafe ==
    ASSUME SupervisorInv, NEW s \in Supervisors, Registered(s)
    PROVE  SupervisorInv'
<1> DEFINE known == [child[s] EXCEPT !.registered = TRUE]
<1>1. /\ known \in [alive : BOOLEAN, signalled : BOOLEAN, registered : BOOLEAN]
      /\ known.alive = child[s].alive /\ known.signalled = child[s].signalled
      /\ child' = [child EXCEPT ![s] = known]
  BY DEF Registered, SupervisorInv, OwnersTyped
<1> HIDE DEF known
<1>2. OwnersTyped' /\ SignalsSomebody'
  BY <1>1 DEF Registered, SupervisorInv, OwnersTyped, SignalsSomebody
<1>3. PortIsServed'
  BY DEF Registered, SupervisorInv, PortIsServed
<1>4. ConnectorIsServed' /\ OneConnector' /\ NothingBefore'
  BY <1>1 DEF Registered, SupervisorInv, OwnersTyped, ConnectorIsServed, OneConnector,
              NothingBefore
<1> QED
  BY <1>2, <1>3, <1>4 DEF SupervisorInv

\* The timer of the next connect() is set when the child has gone.
LEMMA ExitsSafe ==
    ASSUME SupervisorInv, NEW s \in Supervisors, Exits(s)
    PROVE  SupervisorInv'
<1> DEFINE gone == [child[s] EXCEPT !.alive = FALSE]
<1>1. /\ gone \in [alive : BOOLEAN, signalled : BOOLEAN, registered : BOOLEAN]
      /\ ~gone.alive
      /\ child' = [child EXCEPT ![s] = gone]
  BY DEF Exits, SupervisorInv, OwnersTyped
<1> HIDE DEF gone
<1>2. due' = due \/ (pc[s] = "serving" /\ due' = [due EXCEPT ![s] = "timer"])
  BY DEF Exits
<1>3. child' \in [Supervisors -> [alive : BOOLEAN, signalled : BOOLEAN,
                                  registered : BOOLEAN]]
  BY <1>1 DEF SupervisorInv, OwnersTyped
<1>4. due' \in [Supervisors -> {"none", "save", "timer"}]
  BY <1>2 DEF SupervisorInv, OwnersTyped
<1>5. UNCHANGED <<pc, port, cmd>>
  BY DEF Exits
<1>6. OwnersTyped' /\ SignalsSomebody'
  BY <1>3, <1>4, <1>5 DEF SupervisorInv, OwnersTyped, SignalsSomebody
<1>7. PortIsServed'
  BY DEF Exits, SupervisorInv, PortIsServed
<1>8. ConnectorIsServed' /\ OneConnector' /\ NothingBefore'
  BY <1>1, <1>2 DEF Exits, SupervisorInv, OwnersTyped, ConnectorIsServed, OneConnector,
                    NothingBefore
<1> QED
  BY <1>6, <1>7, <1>8 DEF SupervisorInv

\* The last two steps of a supervisor that has shut down.
LEMMA EndSafe ==
    ASSUME SupervisorInv, NEW s \in Supervisors, RemoveState(s) \/ Exit(s)
    PROVE  SupervisorInv'
<1>1. /\ pc[s] \in {"stopping", "removed"}
      /\ \E next \in {"removed", "exited"} : pc' = [pc EXCEPT ![s] = next]
      /\ UNCHANGED <<port, child, due, cmd>>
  BY DEF RemoveState, Exit
<1>2. OwnersTyped' /\ SignalsSomebody'
  BY <1>1 DEF SupervisorInv, OwnersTyped, SignalsSomebody, SupervisorSteps
<1>3. PortIsServed' /\ ConnectorIsServed'
  BY <1>1 DEF SupervisorInv, OwnersTyped, PortIsServed, ConnectorIsServed
<1>4. OneConnector' /\ NothingBefore'
  BY <1>1 DEF SupervisorInv, OwnersTyped, OneConnector, NothingBefore
<1> QED
  BY <1>2, <1>3, <1>4 DEF SupervisorInv

-----------------------------------------------------------------------------
(* The commands' steps.                                                     *)

\* A command that only moves on keeps the invariant: it may come to signal only
\* when it acts on somebody.
LEMMA CommandSafe ==
    ASSUME SupervisorInv, NEW c \in Commands, NEW step \in CommandSteps,
           NEW current \in Supervisors \cup {Nobody},
           cmd' = [cmd EXCEPT ![c] = [step |-> step, current |-> current]],
           step = "signal" => current # Nobody,
           UNCHANGED <<pc, port, child, due>>
    PROVE  SupervisorInv'
<1>1. OwnersTyped'
  BY DEF SupervisorInv, OwnersTyped
<1>2. SignalsSomebody'
  BY DEF SupervisorInv, OwnersTyped, SignalsSomebody
<1>3. PortIsServed' /\ ConnectorIsServed' /\ OneConnector' /\ NothingBefore'
  BY DEF SupervisorInv, PortIsServed, ConnectorIsServed, OneConnector, NothingBefore
<1> QED
  BY <1>1, <1>2, <1>3 DEF SupervisorInv

\* To(c, step) keeps the instance that the command acts on.
LEMMA ToStep ==
    ASSUME OwnersTyped, NEW c \in Commands, NEW step \in CommandSteps, To(c, step)
    PROVE  /\ cmd' = [cmd EXCEPT ![c] = [step |-> step, current |-> cmd[c].current]]
           /\ cmd[c].current \in Supervisors \cup {Nobody}
<1>1. cmd[c] \in [step : CommandSteps, current : Supervisors \cup {Nobody}]
  BY DEF OwnersTyped
<1>2. [cmd[c] EXCEPT !.step = step] = [step |-> step, current |-> cmd[c].current]
  BY <1>1
<1> QED
  BY <1>1, <1>2 DEF To

\* stop goes on to signal only a supervisor that answered.
LEMMA ProbeSafe ==
    ASSUME SupervisorInv, NEW c \in Commands, Probe(c)
    PROVE  SupervisorInv'
<1>1. PICK current \in Confirmed(c) :
          cmd' = [cmd EXCEPT ![c] = [step |-> Decision(Kind[c], current),
                                     current |-> current]]
  BY DEF Probe
<1>2. current \in Supervisors \cup {Nobody}
  BY DEF Confirmed, SupervisorInv, OwnersTyped
<1> DEFINE step == Decision(Kind[c], current)
<1>3. step \in CommandSteps /\ (step = "signal" => current # Nobody)
  BY DEF Decision, CommandSteps
<1>4. cmd' = [cmd EXCEPT ![c] = [step |-> step, current |-> current]]
  BY <1>1
<1> HIDE DEF step
<1> QED
  BY <1>2, <1>3, <1>4, CommandSafe DEF Probe, server

\* What state.json names is at most probed.
LEMMA ReadStateSafe ==
    ASSUME SupervisorInv, NEW c \in Commands, ReadState(c)
    PROVE  SupervisorInv'
<1> DEFINE current == IF file \in Supervisors /\ access = "written" THEN file ELSE Nobody
<1>1. current \in Supervisors \cup {Nobody} /\ "probe" \in CommandSteps
  BY DEF CommandSteps
<1>2. cmd' = [cmd EXCEPT ![c] = [step |-> "probe", current |-> current]]
  BY DEF ReadState
<1> HIDE DEF current
<1> QED
  BY <1>1, <1>2, CommandSafe DEF ReadState, server

\* SIGTERM reaches the supervisor that the probe confirmed, which may have begun
\* to stop meanwhile.
LEMMA SignalSafe ==
    ASSUME SupervisorInv, NEW c \in Commands, Signal(c)
    PROVE  SupervisorInv'
<1> DEFINE s == cmd[c].current
<1>1. /\ cmd' = [cmd EXCEPT ![c] = [step |-> "done", current |-> s]]
      /\ s \in Supervisors \cup {Nobody}
      /\ "done" \in CommandSteps
  BY ToStep DEF Signal, SupervisorInv, CommandSteps
<1>2. s \in Supervisors
  BY <1>1 DEF Signal, SupervisorInv, SignalsSomebody
<1>3. CASE pc[s] = "serving"
  <2>1. cmd' \in [Commands -> [step : CommandSteps, current : Supervisors \cup {Nobody}]]
    BY <1>1 DEF SupervisorInv, OwnersTyped
  <2>2. SignalsSomebody'
    BY <1>1 DEF SupervisorInv, OwnersTyped, SignalsSomebody
  <2>3. Shutdown(s)
    BY <1>3 DEF Signal
  <2> QED
    BY <1>2, <2>1, <2>2, <2>3, ShutdownSafe
<1>4. CASE pc[s] # "serving"
  <2>1. UNCHANGED server
    BY <1>4 DEF Signal
  <2> QED
    BY <1>1, <2>1, CommandSafe DEF server
<1> QED
  BY <1>3, <1>4

\* start spawns a supervisor that did not exist before.
LEMMA SpawnSafe ==
    ASSUME SupervisorInv, NEW c \in Commands, Spawn(c)
    PROVE  SupervisorInv'
<1>1. /\ cmd' = [cmd EXCEPT ![c] = [step |-> "done", current |-> cmd[c].current]]
      /\ cmd[c].current \in Supervisors \cup {Nobody}
      /\ "done" \in CommandSteps
  BY ToStep DEF Spawn, SupervisorInv, CommandSteps
<1>2. PICK s \in Supervisors : pc[s] = "unborn" /\ pc' = [pc EXCEPT ![s] = "spawned"]
  BY DEF Spawn
<1>3. UNCHANGED <<port, child, due>>
  BY DEF Spawn
<1>4. OwnersTyped' /\ SignalsSomebody'
  BY <1>1, <1>2, <1>3
  DEF SupervisorInv, OwnersTyped, SignalsSomebody, SupervisorSteps
<1>5. PortIsServed' /\ ConnectorIsServed'
  BY <1>2, <1>3 DEF SupervisorInv, OwnersTyped, PortIsServed, ConnectorIsServed
<1>6. OneConnector' /\ NothingBefore'
  BY <1>2, <1>3 DEF SupervisorInv, OwnersTyped, OneConnector, NothingBefore
<1> QED
  BY <1>4, <1>5, <1>6 DEF SupervisorInv

\* Issue, Ready and WriteAccess: the command moves on, to a step other than
\* "signal".
LEMMA MoveSafe ==
    ASSUME SupervisorInv, NEW c \in Commands,
           Issue(c) \/ Ready(c) \/ WriteAccess(c)
    PROVE  SupervisorInv'
<1>1. PICK step \in CommandSteps \ {"signal"} : To(c, step)
  BY DEF Issue, Ready, WriteAccess, CommandSteps
<1>2. UNCHANGED <<pc, port, child, due>>
  BY DEF Issue, Ready, WriteAccess, server
<1>3. OwnersTyped
  BY DEF SupervisorInv
<1> QED
  BY <1>1, <1>2, <1>3, ToStep, CommandSafe

-----------------------------------------------------------------------------
(* The theorems.                                                            *)

\* Every step keeps the invariant.
LEMMA NextSupervisor == SupervisorInv /\ [Next]_vars => SupervisorInv'
<1> SUFFICES ASSUME SupervisorInv, [Next]_vars PROVE SupervisorInv'
  OBVIOUS
<1>1. ASSUME NEW s \in Supervisors,
             Act(s) \/ SpawnFails(s) \/ Registered(s) \/ Exits(s) \/ LateOutput(s)
      PROVE  SupervisorInv'
  <2>1. CASE OpenState(s) \/ WriteState(s) \/ LateOutput(s)
    BY <2>1, SameOwners DEF OpenState, WriteState, LateOutput, server
  <2>2. CASE RemoveState(s) \/ Exit(s)
    BY <2>2, EndSafe
  <2> QED
    BY <1>1, <2>1, <2>2, BootSafe, ListenSafe, ConnectSafe, SpawnFailsSafe,
       RegisteredSafe, ExitsSafe DEF Act
<1>2. ASSUME NEW c \in Commands, Issue(c) \/ Perform(c)
      PROVE  SupervisorInv'
  BY <1>2, ReadStateSafe, ProbeSafe, SignalSafe, SpawnSafe, MoveSafe DEF Perform
<1>3. CASE UNCHANGED vars
  BY <1>3, SameOwners DEF vars, server
<1> QED
  BY <1>1, <1>2, <1>3 DEF Next

\* However many starts and stops race for the port, and whenever connectors
\* exit: the gateway listens exactly while its supervisor serves, and no second
\* connector is ever due beside a running one (preview.mjs:42-107).
THEOREM SupervisorInvariant == Spec => []SupervisorInv
<1> QED
  BY InitSupervisor, NextSupervisor, PTL DEF Spec

\* No connector is left running without the gateway it leads to
\* (preview.mjs:56, :89, :107).
THEOREM ConnectorsOwned == Spec => []ConnectorsAreOwned
<1>1. SupervisorInv => ConnectorsAreOwned
  BY DEF SupervisorInv, ConnectorIsServed, PortIsServed, ConnectorsAreOwned
<1> QED
  BY <1>1, SupervisorInvariant, PTL
=============================================================================
