---------------------------- MODULE ControlPlane ----------------------------
(***************************************************************************)
(* What the console can ask the agent to do to the PC: the handlers of     *)
(* agent/http.go that start and stop the stack, read its state, reboot,    *)
(* cancel a reboot and enable Wake-on-LAN, with stack.go, reboot.go and    *)
(* wol_enable.go, the Compose files and the logon task of                  *)
(* scripts/install-service.ps1.                                            *)
(*                                                                         *)
(* net/http serves every request in a goroutine of its own, with no lock   *)
(* between the handlers and no timeout on the commands they start. A       *)
(* docker compose command is a process of its own: it goes on when the     *)
(* agent dies, beside those of other requests and of the logon task, and   *)
(* deals with one service at a time. Docker Desktop runs in the session    *)
(* of the user who has logged on. Docker, Compose, shutdown and the task   *)
(* scheduler are external.                                                 *)
(***************************************************************************)
EXTENDS Naturals, Sequences, FiniteSets, SequencesExt

CONSTANTS
    Client,     \* the browsers
    Base,       \* docker-compose.yml: its services, dependencies first
    Tunnel,     \* the service of docker-compose.tunnel.yml
    TunnelFile, \* whether docker-compose.tunnel.yml is there
    EnvToken,   \* whether the environment of the agent holds a tunnel token
    LogonTask,  \* the task that starts the stack when someone logs on
    MaxEdits,   \* bound: times the tunnel token is put in .env or taken out
    MaxFaults   \* bound: deaths of the agent and of Docker Desktop, restarts

ASSUME BaseAssumption == Base \in Seq(Range(Base)) /\ Base # <<>>
ASSUME TunnelAssumption == Tunnel \notin Range(Base)
ASSUME OverlayAssumption == TunnelFile \in BOOLEAN /\ EnvToken \in BOOLEAN
ASSUME TaskAssumption == LogonTask \notin Client
ASSUME BoundAssumption == {MaxEdits, MaxFaults} \subseteq Nat

VARIABLES
    agent,    \* whether the agent runs
    req,      \* what each client has asked for, and where its handler is
    cmd,      \* the compose command each client or the task has started
    token,    \* whether .env holds a tunnel token
    engine,   \* whether Docker Desktop runs
    logged,   \* whether a user is logged on
    up,       \* the containers that run while Docker Desktop does
    pending,  \* whether Windows will restart
    calm,     \* auxiliary: clients whose request nothing has worked against
    before,   \* auxiliary: what ran before the restart, unless stopped since
    edits,    \* auxiliary: changes of the token so far
    faults    \* auxiliary: deaths and restarts so far

vars == <<agent, req, cmd, token, engine, logged, up, pending, calm, before,
          edits, faults>>
docker == <<engine, logged, up, before>>
bounds == <<edits, faults>>

Service == Range(Base) \cup {Tunnel}
ASSUME ServiceAssumption == {"parse", "parse with token"} \cap Service = {}

Running == IF engine THEN up ELSE {}

StackOps == {"up", "down", "status"}
Ops == StackOps \cup {"reboot", "cancel", "enable"}

Idle == [op |-> "none", at |-> "idle"]
NoCommand == [op |-> "none", todo |-> <<>>]

Init ==
    /\ agent = TRUE
    /\ req = [c \in Client |-> Idle]
    /\ cmd = [p \in Client \cup {LogonTask} |-> NoCommand]
    /\ token \in BOOLEAN
    /\ engine = TRUE
    /\ logged = TRUE
    /\ up = {}
    /\ pending = FALSE
    /\ calm = {}
    /\ before = {}
    /\ edits = 0
    /\ faults = 0

(***************************************************************************)
(* Requests                                                                *)
(***************************************************************************)
\* Bound: a client asks for one thing at a time, and not while a command that
\* it has started goes on without it.
Request(c, op) ==
    /\ agent
    /\ req[c] = Idle
    /\ cmd[c] = NoCommand
    /\ req' = [req EXCEPT ![c] = [op |-> op, at |-> "handler"]]
    /\ UNCHANGED <<agent, cmd, token, docker, pending, calm, bounds>>

\* Variant: one lock for all the handlers.
HandlingAlone(c, op) ==
    /\ req[c] = [op |-> op, at |-> "handler"]
    /\ \A d \in Client : req[d].at # "child"

Handling(c, op) == req[c] = [op |-> op, at |-> "handler"]

\* An answer is of interest while it is on its way if it claims something.
Answering(c) == req' = [req EXCEPT ![c].at = "answer"]
Through(c) == req' = [req EXCEPT ![c] = Idle]

\* 400, 401, 405 and 500 before anything is done: wrong token, no POST, no
\* confirmation, no docker, no script.
Refuse(c) ==
    /\ \E op \in Ops : Handling(c, op)
    /\ Through(c)
    /\ UNCHANGED <<agent, cmd, token, docker, pending, calm, bounds>>

\* The client gets its 200.
Answer(c) ==
    /\ req[c].at = "answer"
    /\ req' = [req EXCEPT ![c] = Idle]
    /\ calm' = calm \ {c}
    /\ UNCHANGED <<agent, cmd, token, docker, pending, bounds>>

(***************************************************************************)
(* runCompose                                                              *)
(***************************************************************************)
\* composeArgs. Variant: the second file is never passed.
FilesBaseOnly(overlay) == Base

Files(overlay) == IF overlay THEN Append(Base, Tunnel) ELSE Base

\* Variant: the second file is not passed when the stack is stopped.
TodoBaseStop(op, overlay) ==
    IF op = "down" THEN <<"parse">> \o Reverse(Base)
    ELSE <<IF overlay THEN "parse with token" ELSE "parse">>
            \o IF op = "up" THEN Files(overlay) ELSE <<>>

\* Compose reads its files and .env first.
Todo(op, overlay) ==
    <<IF overlay THEN "parse with token" ELSE "parse">>
        \o CASE op = "up" -> Files(overlay)
             [] op = "down" -> Reverse(Files(overlay))
             [] op = "status" -> <<>>

\* tunnelOverlayEnabled: the handler looks for the second file, and for the
\* token in the environment and in .env; compose finds it in either, too.
HasToken == EnvToken \/ token
Overlay == TunnelFile /\ HasToken

\* The handler starts the command, and waits for it.
RunsCompose(c, op) ==
    /\ Handling(c, op)
    /\ cmd' = [cmd EXCEPT ![c] = [op |-> op, todo |-> Todo(op, Overlay)]]
    /\ req' = [req EXCEPT ![c].at = "child"]
    /\ UNCHANGED <<agent, token, docker, pending, bounds>>

StackUp(c) == RunsCompose(c, "up") /\ calm' = calm \cup {c}
StackDown(c) == RunsCompose(c, "down") /\ calm' = calm \cup {c}
StackStatus(c) == RunsCompose(c, "status") /\ UNCHANGED calm

\* The handler that waits for the command goes on; that of /api/status answers
\* 200 in any case, with the error in what it answers.
Wakes(p, ok) ==
    IF p \in Client /\ req[p].at = "child"
    THEN IF ok /\ req[p].op # "status" THEN Answering(p) ELSE Through(p)
    ELSE UNCHANGED req

Working(p) == cmd[p] # NoCommand
Upcoming(p) == Head(cmd[p].todo)
Onward(p) ==
    IF Len(cmd[p].todo) > 1
    THEN cmd' = [cmd EXCEPT ![p].todo = Tail(@)] /\ UNCHANGED req
    ELSE cmd' = [cmd EXCEPT ![p] = NoCommand] /\ Wakes(p, TRUE)

\* ${CLOUDFLARE_TUNNEL_TOKEN:?...}, and no answer without Docker Desktop.
Parse(p) ==
    /\ Working(p)
    /\ \/ Upcoming(p) = "parse"
       \/ Upcoming(p) = "parse with token" /\ HasToken
    /\ engine
    /\ Onward(p)
    /\ UNCHANGED <<agent, token, docker, pending, calm, bounds>>

\* All share the network of the first service, and wait for what they depend
\* on. A service that one command starts works against those that stop the
\* stack, and one that it stops against those that start it.
StartService(p) ==
    /\ Working(p)
    /\ cmd[p].op = "up"
    /\ Upcoming(p) \in Service
    /\ engine
    /\ Upcoming(p) = Tunnel => Range(Base) \subseteq up
    /\ Upcoming(p) # Base[1] => Base[1] \in up
    /\ up' = up \cup {Upcoming(p)}
    /\ calm' = {c \in calm : c = p \/ req[c].op = "up"}
    /\ Onward(p)
    /\ UNCHANGED <<agent, token, engine, logged, before, pending, bounds>>

StopService(p) ==
    /\ Working(p)
    /\ cmd[p].op = "down"
    /\ Upcoming(p) \in Service
    /\ engine
    /\ up' = up \ {Upcoming(p)}
    /\ before' = before \ {Upcoming(p)}
    /\ calm' = {c \in calm : c = p \/ req[c].op = "down"}
    /\ Onward(p)
    /\ UNCHANGED <<agent, token, engine, logged, pending, bounds>>

\* No token, no engine, no image, an unhealthy database: compose leaves what
\* it has done so far as it is.
CommandFails(p) ==
    /\ Working(p)
    /\ cmd' = [cmd EXCEPT ![p] = NoCommand]
    /\ Wakes(p, FALSE)
    /\ calm' = calm \ {p}
    /\ UNCHANGED <<agent, token, docker, pending, bounds>>

Command(p) ==
    \/ Parse(p) \/ StartService(p) \/ StopService(p) \/ CommandFails(p)

(***************************************************************************)
(* scheduleReboot, cancelReboot, enableWakeOnLAN                           *)
(***************************************************************************)
\* shutdown /r is refused when a restart is pending, or for want of the right.
Schedule ==
    \/ ~pending /\ pending' = TRUE
    \/ UNCHANGED pending

ScheduleReboot(c) ==
    /\ Handling(c, "reboot")
    /\ Schedule
    /\ Through(c)
    /\ UNCHANGED <<agent, cmd, token, docker, calm, bounds>>

\* shutdown /a may fail, of which the handler says nothing: it answers 200.
Abort == pending' = FALSE \/ UNCHANGED pending

CancelReboot(c) ==
    /\ Handling(c, "cancel")
    /\ Abort
    /\ Through(c)
    /\ UNCHANGED <<agent, cmd, token, docker, calm, bounds>>

EnableWakeOnLAN(c) ==
    /\ Handling(c, "enable")
    /\ Through(c)
    /\ UNCHANGED <<agent, cmd, token, docker, pending, calm, bounds>>

Handler(c) ==
    \/ Refuse(c)
    \/ StackUp(c) \/ StackDown(c) \/ StackStatus(c)
    \/ ScheduleReboot(c) \/ CancelReboot(c) \/ EnableWakeOnLAN(c)
    \/ Answer(c)

(***************************************************************************)
(* The PC                                                                  *)
(***************************************************************************)
EditToken ==
    /\ edits < MaxEdits
    /\ edits' = edits + 1
    /\ token' = ~token
    /\ calm' = IF Overlay' => Overlay THEN calm ELSE {}
    /\ UNCHANGED <<agent, req, cmd, docker, pending, faults>>

Fault ==
    /\ faults < MaxFaults
    /\ faults' = faults + 1

\* The service is stopped or dies; its compose commands go on.
AgentDies ==
    /\ agent
    /\ Fault
    /\ agent' = FALSE
    /\ req' = [c \in Client |-> Idle]
    /\ calm' = {}
    /\ UNCHANGED <<cmd, token, docker, pending, edits>>

AgentStarts ==
    /\ ~agent
    /\ agent' = TRUE
    /\ UNCHANGED <<req, cmd, token, docker, pending, calm, bounds>>

EngineStops ==
    /\ engine
    /\ Fault
    /\ engine' = FALSE
    /\ calm' = {c \in calm : req[c].op = "down"}
    /\ UNCHANGED <<agent, req, cmd, token, logged, up, before, pending, edits>>

\* restart: unless-stopped: what ran runs again, what was stopped does not.
EngineStarts ==
    /\ logged
    /\ ~engine
    /\ engine' = TRUE
    /\ UNCHANGED <<agent, req, cmd, token, logged, up, before, pending, calm,
                   bounds>>

\* Variant: containers without a restart policy.
SurvivorsNone == {}

Survivors == up

\* As scheduled, or by hand, or after a power failure. The service starts with
\* Windows; Docker Desktop does not.
Restart ==
    /\ Fault
    /\ agent' = FALSE
    /\ req' = [c \in Client |-> Idle]
    /\ cmd' = [p \in DOMAIN cmd |-> NoCommand]
    /\ engine' = FALSE
    /\ logged' = FALSE
    /\ up' = Survivors
    /\ before' = Running
    /\ pending' = FALSE
    /\ calm' = {}
    /\ UNCHANGED <<token, edits>>

\* The logon task passes the first file only, and does not wait for Docker
\* Desktop nor try again.
LogOn ==
    /\ ~logged
    /\ logged' = TRUE
    /\ cmd' = [cmd EXCEPT ![LogonTask] =
                  [op |-> "up", todo |-> <<"parse">> \o Base]]
    /\ UNCHANGED <<agent, req, token, engine, up, before, pending, calm, bounds>>

Next ==
    \/ \E c \in Client : Handler(c) \/ \E op \in Ops : Request(c, op)
    \/ \E p \in DOMAIN cmd : Command(p)
    \/ EditToken
    \/ AgentDies \/ AgentStarts
    \/ EngineStops \/ EngineStarts
    \/ Restart \/ LogOn

\* Handlers run on, those that wait for shutdown or powershell included. Windows
\* starts the service, Docker Desktop starts with the session. No docker command
\* need ever end, and nobody need log on.
FairSpec ==
    /\ Init /\ [][Next]_vars
    /\ \A c \in Client : WF_vars(Handler(c))
    /\ WF_vars(AgentStarts)
    /\ WF_vars(EngineStarts)

(***************************************************************************)
(* Properties                                                              *)
(***************************************************************************)
\* Every variable keeps its type, and a handler that waits for a command waits
\* for one that runs.
TypeOK ==
    /\ {agent, token, engine, logged, pending} \subseteq BOOLEAN
    /\ req \in [Client -> {Idle} \cup [op : Ops, at : {"handler", "child", "answer"}]]
    /\ \A c \in Client : req[c].at = "child" => cmd[c] # NoCommand
    /\ \A p \in DOMAIN cmd : cmd[p].op \in {"none"} \cup StackOps
    /\ before \subseteq up /\ up \subseteq Service
    /\ calm \subseteq Client
    /\ edits \in 0..MaxEdits /\ faults \in 0..MaxFaults
    /\ (engine => logged)

Told(c, op) == req[c] = [op |-> op, at |-> "answer"] /\ c \in calm

\* "Start stack" answered with 200 means that everything runs, the tunnel too
\* when the overlay is in use, however many others start the stack meanwhile,
\* each with the files it found in use, the logon task with the first one only.
\* From when the command was started until the answer, nothing may have worked
\* against it: no service stopped, no token put in, no death of Docker Desktop.
OkMeansUp ==
    \A c \in Client : Told(c, "up") =>
        /\ Range(Base) \subseteq Running
        /\ Overlay => Tunnel \in Running

\* "Stop stack" answered with 200 means that nothing runs, however many others
\* stop it meanwhile, and whether Docker Desktop lives or not; except the tunnel
\* if its token has been taken out: whether the second file is passed is decided
\* anew on every call. No service may have been started since, nor a token put in.
OkMeansStopped ==
    \A c \in Client : Told(c, "down") =>
        Running = {} \/ (~Overlay /\ Running = {Tunnel})

\* What ran before a restart runs again, or is stopped on demand, provided
\* that someone logs on and stays: the agent cannot bring it back alone.
ComesBack ==
    <>[]logged => []<>(before \subseteq Running)

\* Whatever compose does, and if it hangs for ever, every other request is
\* answered: the PC can still be rebooted, and a reboot cancelled.
OthersAnswered ==
    \A c \in Client :
        (req[c].op \in Ops \ StackOps) ~> (req[c].op \notin Ops \ StackOps)
=============================================================================
