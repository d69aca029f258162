--------------------------- MODULE AgentLifecycle ---------------------------
(***************************************************************************)
(* The processes of the agent and the files and names they share: the      *)
(* Windows service (agent/service_windows.go), its installer, agents run   *)
(* in the foreground and tools (agent/main.go), and config.json with the   *)
(* token (agent/config.go), which each of them loads, creates if it is     *)
(* missing, and some rewrite in place. Any process may be killed at any    *)
(* step.                                                                   *)
(*                                                                         *)
(* Of the configuration only the token is modelled. It is drawn at random: *)
(* any that is nowhere in use. The service and the installer find          *)
(* docker-compose.yml beside the executable, and so save the configuration *)
(* back after loading it.                                                  *)
(***************************************************************************)
EXTENDS Naturals, FiniteSets

CONSTANTS
    Command,  \* started by hand, again and again: run or enable-wol
    Tokens    \* what randomToken may draw

Process == {"service", "install"} \cup Command
Agent == {"service"} \cup Command

ASSUME ProcessAssumption == {"service", "install", "free"} \cap Command = {}
ASSUME TokenAssumption ==
    /\ Tokens \cap {"absent", "torn"} = {}
    /\ Cardinality(Tokens) >= Cardinality(Process)

VARIABLES
    config,     \* the token in config.json, Absent, or Torn
    pc,         \* where each process is
    token,      \* the configuration each process has loaded
    port,       \* the agent that listens, or "free"
    scm,        \* the service as the service manager sees it
    marked,     \* the service will be removed when it stops
    broken,     \* auxiliary: a write of config.json was cut short
    overlapped  \* auxiliary: two processes were creating config.json at once

vars == <<config, pc, token, port, scm, marked, broken, overlapped>>
manager == <<scm, marked>>
history == <<broken, overlapped>>

Absent == "absent"
Torn == "torn"

Init ==
    /\ config = Absent
    /\ pc = [p \in Process |-> "off"]
    /\ token = [p \in Process |-> Absent]
    /\ port = "free"
    /\ scm = "none"
    /\ marked = FALSE
    /\ broken = FALSE
    /\ overlapped = FALSE

\* The process is gone; what it held of the system is released.
Ends(p) ==
    /\ pc' = [pc EXCEPT ![p] = "off"]
    /\ token' = [token EXCEPT ![p] = Absent]
    /\ port' = IF port = p THEN "free" ELSE port
    /\ IF p = "service"
         THEN /\ scm' = IF marked THEN "none" ELSE "stopped"
              /\ marked' = FALSE
         ELSE UNCHANGED manager

Goes(p, place) ==
    /\ pc' = [pc EXCEPT ![p] = place]
    /\ UNCHANGED <<port, manager>>

(***************************************************************************)
(* loadOrCreateConfig                                                      *)
(***************************************************************************)
\* "run" goes on to serve; "enable-wol" needs no more than the configuration.
Loaded(p) ==
    \/ p \in {"service", "install"} /\ Goes(p, "save")
    \/ p \in Command /\ (Goes(p, "listen") \/ Goes(p, "done"))

\* Variant: the file that cannot be parsed is treated like a missing one.
Unusable(c) == c \in {Absent, Torn}

Missing(c) == c = Absent

LoadConfig(p) ==
    /\ pc[p] = "load"
    /\ ~Missing(config)
    /\ config # Torn
    /\ token' = [token EXCEPT ![p] = config]
    /\ Loaded(p)
    /\ UNCHANGED <<config, history>>

\* A file that does not parse, cut short or just being written, ends the
\* process.
LoadFails(p) ==
    /\ pc[p] = "load"
    /\ ~Missing(config)
    /\ config = Torn
    /\ Ends(p)
    /\ UNCHANGED <<config, history>>

DrawToken(p) ==
    /\ pc[p] = "load"
    /\ Missing(config)
    /\ \E t \in Tokens \ {token[q] : q \in Process} : token' = [token EXCEPT ![p] = t]
    /\ overlapped' = (overlapped \/ \E q \in Process : pc[q] = "create")
    /\ Goes(p, "create")
    /\ UNCHANGED <<config, broken>>

(***************************************************************************)
(* saveConfig: os.WriteFile truncates and writes. Creating, an error ends  *)
(* the process; rewriting, it is ignored.                                  *)
(***************************************************************************)
Truncate(p) ==
    /\ \/ pc[p] = "create" /\ Goes(p, "write")
       \/ pc[p] = "save" /\ Goes(p, "rewrite")
    /\ config' = Torn
    /\ UNCHANGED <<token, history>>

\* Variant: the installer goes on like the service.
AfterSaveServes(p) == Goes(p, "listen")

AfterSave(p) == IF p = "install" THEN Goes(p, "start") ELSE Goes(p, "listen")

\* Where another process has written something else in the meantime, what is
\* longer of the two shows at the end.
Write(p) ==
    /\ \/ pc[p] = "write" /\ Loaded(p)
       \/ pc[p] = "rewrite" /\ AfterSave(p)
    /\ \/ config' = token[p]
       \/ config \notin {Torn, token[p]} /\ config' = Torn
    /\ UNCHANGED <<token, history>>

WriteFails(p) ==
    /\ \/ pc[p] \in {"create", "write"} /\ Ends(p)
       \/ pc[p] \in {"save", "rewrite"} /\ AfterSave(p) /\ UNCHANGED token
    /\ broken' = (broken \/ pc[p] \in {"write", "rewrite"})
    /\ UNCHANGED <<config, overlapped>>

(***************************************************************************)
(* serveAgent: the monitor is started, then the port is taken.             *)
(***************************************************************************)
Listen(p) ==
    /\ pc[p] = "listen"
    /\ port = "free"
    /\ port' = p
    /\ pc' = [pc EXCEPT ![p] = "serving"]
    /\ UNCHANGED <<config, token, manager, history>>

\* In the foreground the error ends the process; the service only logs it,
\* and its monitor runs on.
ListenFails(p) ==
    /\ pc[p] = "listen"
    /\ IF p = "service" THEN Goes(p, "deaf") /\ UNCHANGED token ELSE Ends(p)
    /\ UNCHANGED <<config, history>>

(***************************************************************************)
(* The service manager and the commands                                    *)
(***************************************************************************)
Run(p) ==
    /\ p \in Command
    /\ pc[p] = "off"
    /\ Goes(p, "load")
    /\ UNCHANGED <<config, token, history>>

ToolDone(p) ==
    /\ pc[p] = "done"
    /\ Ends(p)
    /\ UNCHANGED <<config, history>>

\* By the administrator or the update script, or at boot.
StartService ==
    /\ scm = "stopped"
    /\ scm' = "starting"
    /\ pc' = [pc EXCEPT !["service"] = "load"]
    /\ UNCHANGED <<config, token, port, marked, history>>

\* Variant: Running is reported once the port has been taken.
UpServing == pc["service"] = "serving"

Up == pc["service"] \in {"listen", "serving", "deaf"}

ReportRunning ==
    /\ scm = "starting"
    /\ Up
    /\ scm' = "running"
    /\ UNCHANGED <<config, pc, token, port, marked, history>>

StopService ==
    /\ scm = "running"
    /\ Ends("service")
    /\ UNCHANGED <<config, history>>

\* installService up to loadOrCreateConfig. Where the service exists already,
\* or the event source cannot be registered, nothing changes.
Install ==
    /\ pc["install"] = "off"
    /\ scm = "none"
    /\ scm' = "stopped"
    /\ pc' = [pc EXCEPT !["install"] = "load"]
    /\ UNCHANGED <<config, token, port, marked, history>>

InstallDone ==
    /\ pc["install"] = "start"
    /\ token' = [token EXCEPT !["install"] = Absent]
    /\ IF scm = "stopped"
         THEN /\ scm' = "starting"
              /\ pc' = [pc EXCEPT !["install"] = "off", !["service"] = "load"]
         ELSE /\ pc' = [pc EXCEPT !["install"] = "off"]
              /\ UNCHANGED scm
    /\ UNCHANGED <<config, port, marked, history>>

\* Variant: a service that does not take the stop is removed all the same.
RemovedAtOnce == scm' = "none" /\ UNCHANGED <<pc, token, port, marked>>

RemovedLater == marked' = TRUE /\ UNCHANGED <<pc, token, port, scm>>

\* uninstallService: a service that is still starting does not accept the stop
\* and is removed once it ends.
Uninstall ==
    /\ scm # "none"
    /\ CASE scm = "running" ->
              /\ pc' = [pc EXCEPT !["service"] = "off"]
              /\ token' = [token EXCEPT !["service"] = Absent]
              /\ port' = IF port = "service" THEN "free" ELSE port
              /\ scm' = "none"
              /\ marked' = FALSE
         [] scm = "starting" -> RemovedLater
         [] scm = "stopped" -> scm' = "none" /\ UNCHANGED <<pc, token, port, marked>>
    /\ UNCHANGED <<config, history>>

Kill(p) ==
    /\ pc[p] # "off"
    /\ Ends(p)
    /\ broken' = (broken \/ pc[p] \in {"write", "rewrite"})
    /\ UNCHANGED <<config, overlapped>>

Step(p) ==
    \/ LoadConfig(p) \/ LoadFails(p) \/ DrawToken(p)
    \/ Truncate(p) \/ Write(p) \/ WriteFails(p)
    \/ Listen(p) \/ ListenFails(p)
    \/ ToolDone(p)

Next ==
    \/ \E p \in Process : Step(p) \/ Run(p) \/ Kill(p)
    \/ StartService \/ ReportRunning \/ StopService
    \/ Install \/ InstallDone \/ Uninstall

Spec == Init /\ [][Next]_vars

\* The service process runs on once it has been started.
FairSpec == Spec /\ WF_vars(Step("service")) /\ WF_vars(ReportRunning)

(***************************************************************************)
(* Properties                                                              *)
(***************************************************************************)
\* Every variable keeps its type; what is in memory is a token once loaded.
TypeOK ==
    /\ config \in {Absent, Torn} \cup Tokens
    /\ pc \in [Process -> {"off", "load", "create", "write", "save", "rewrite",
                           "listen", "serving", "deaf", "start", "done"}]
    /\ token \in [Process -> {Absent} \cup Tokens]
    /\ \A p \in Process : token[p] = Absent <=> pc[p] \in {"off", "load"}
    /\ port \in {"free"} \cup Agent
    /\ scm \in {"none", "stopped", "starting", "running"}
    /\ marked \in BOOLEAN

\* What README.md says: the token is in config.json. The agent that serves
\* accepts the token that the file shows, whichever process created the file,
\* and after any number of restarts, installations and rewrites.
TokenIsInFile == port # "free" /\ config \in Tokens => config = token[port]

\* The same, unless two processes found no file and created it at once.
TokenStaysInFile == overlapped \/ TokenIsInFile

\* The file is unreadable only while a process writes it, or after a write that
\* was cut short: never because of how the writers follow one another.
ConfigWhole ==
    config = Torn =>
        broken \/ overlapped \/ \E p \in Process : pc[p] \in {"write", "rewrite"}

\* There is no service process that the service manager does not know of and
\* nobody could stop, also when it is uninstalled while starting.
ServiceUnderControl == pc["service"] # "off" <=> scm \in {"starting", "running"}

\* A start never hangs: the service reports running, though it may be deaf, or
\* gives up.
StartResolves == scm = "starting" ~> scm # "starting"
=============================================================================
