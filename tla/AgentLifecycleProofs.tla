------------------------ MODULE AgentLifecycleProofs ------------------------
(***************************************************************************)
(* Theorems about AgentLifecycle, for any number of commands started by    *)
(* hand and any set of tokens.                                             *)
(***************************************************************************)
EXTENDS AgentLifecycle, TLAPS

(***************************************************************************)
(* The invariants                                                          *)
(***************************************************************************)
\* Where each kind of process gets to: only the service and commands listen,
\* and only they and nobody else holds the port while it serves.
Places ==
    /\ pc["install"] \notin {"listen", "serving", "deaf", "done"}
    /\ pc["service"] \notin {"start", "done"}
    /\ \A p \in Command : pc[p] \notin {"save", "rewrite", "start"}
    /\ port # "free" => pc[port] = "serving"

\* A service that was reported running is past its writes to config.json.
RunningIsUp == scm = "running" => Up

LifeInv == TypeOK /\ Places /\ ServiceUnderControl /\ RunningIsUp

Holds(p) == token[p] # Absent

\* As long as no two processes were creating config.json at once: all who have
\* loaded a configuration have the same token, the one in the file where the
\* file shows one; and while there is no file, only the process creating it
\* has one.
Agreed ==
    /\ \A p, q \in Process : Holds(p) /\ Holds(q) => token[p] = token[q]
    /\ \A p \in Process : Holds(p) /\ config \in Tokens => token[p] = config
    /\ \A p \in Process : pc[p] = "create" => config = Absent
    /\ config = Absent =>
         /\ \A p \in Process : Holds(p) => pc[p] = "create"
         /\ \A p, q \in Process : Holds(p) /\ Holds(q) => p = q

FileInv == (overlapped \/ Agreed) /\ ConfigWhole

(***************************************************************************)
(* Steps that all invariants look at                                       *)
(***************************************************************************)
\* The names of the processes, of the free port and of a file without a token
\* are apart.
LEMMA Names ==
    /\ Absent \notin Tokens /\ Torn \notin Tokens /\ Absent # Torn
    /\ "free" \notin Process
    /\ "service" \notin Command /\ "install" \notin Command
    /\ "service" \in Process /\ "install" \in Process
    /\ Command \subseteq Process /\ Agent \subseteq Process
    /\ \A p \in Process : p = "service" \/ p = "install" \/ p \in Command
BY ProcessAssumption, TokenAssumption DEF Process, Agent, Absent, Torn

\* A process that ends leaves the others, and the service manager unless it is
\* the service, as they are.
LEMMA EndsKeeps ==
    ASSUME LifeInv, NEW p \in Process, Ends(p), config' = config
    PROVE  LifeInv'
<1> USE Names DEF LifeInv, Ends
<1>1. /\ pc' = [pc EXCEPT ![p] = "off"]
      /\ token' = [token EXCEPT ![p] = Absent]
      /\ pc \in [Process -> {"off", "load", "create", "write", "save",
                             "rewrite", "listen", "serving", "deaf", "start",
                             "done"}]
      /\ token \in [Process -> {Absent} \cup Tokens]
  BY DEF TypeOK
<1>2. TypeOK'
  <2>1. \A q \in Process : token'[q] = Absent <=> pc'[q] \in {"off", "load"}
    BY <1>1 DEF TypeOK
  <2>2. scm' \in {"none", "stopped", "starting", "running"} /\ marked' \in BOOLEAN
    BY DEF TypeOK, manager
  <2> QED
    BY <1>1, <2>1, <2>2 DEF TypeOK
<1>3. Places'
  BY <1>1 DEF Places, TypeOK, Agent
<1>4. ServiceUnderControl' /\ RunningIsUp'
  <2>1. CASE p = "service"
    BY <1>1, <2>1 DEF ServiceUnderControl, RunningIsUp
  <2>2. CASE p # "service"
    BY <1>1, <2>2 DEF ServiceUnderControl, RunningIsUp, Up, manager
  <2> QED
    BY <2>1, <2>2
<1> QED
  BY <1>2, <1>3, <1>4

\* A process that has loaded a configuration goes on only to where its kind
\* belongs.
LEMMA GoesKeeps ==
    ASSUME LifeInv, NEW p \in Process, NEW place, Goes(p, place),
           place \in {"load", "create", "write", "save", "rewrite", "listen",
                      "deaf", "start", "done"},
           pc[p] = "off" => p \in Command,
           pc[p] \notin {"serving", "deaf"},
           token' \in [Process -> {Absent} \cup Tokens],
           \A q \in Process \ {p} : token'[q] = token[q],
           token'[p] = Absent <=> place = "load",
           config' \in {Absent, Torn} \cup Tokens,
           p = "install" => place \notin {"listen", "deaf", "done"},
           p = "service" => /\ place \notin {"start", "done"}
                            /\ place \in {"listen", "deaf"} \/ pc[p] # "listen",
           p \in Command => place \notin {"save", "rewrite", "start"}
    PROVE  LifeInv'
<1> USE Names DEF LifeInv, Goes, manager
<1>1. /\ pc' = [pc EXCEPT ![p] = place]
      /\ pc \in [Process -> {"off", "load", "create", "write", "save",
                             "rewrite", "listen", "serving", "deaf", "start",
                             "done"}]
  BY DEF TypeOK
<1>2. TypeOK'
  <2>1. \A q \in Process : token'[q] = Absent <=> pc'[q] \in {"off", "load"}
    BY <1>1 DEF TypeOK
  <2> QED
    BY <1>1, <2>1 DEF TypeOK
<1>3. Places'
  BY <1>1 DEF Places, TypeOK, Agent
<1>4. ServiceUnderControl' /\ RunningIsUp'
  BY <1>1 DEF ServiceUnderControl, RunningIsUp, Up
<1> QED
  BY <1>2, <1>3, <1>4

\* Types, places and the service manager's knowledge are kept by every step:
\* each action of a process, of the administrator and of the service manager.
LEMMA LifeStep == LifeInv /\ [Next]_vars => LifeInv'
<1> SUFFICES ASSUME LifeInv, [Next]_vars PROVE LifeInv'
  OBVIOUS
<1> USE Names
<1>0. /\ config \in {Absent, Torn} \cup Tokens
      /\ token \in [Process -> {Absent} \cup Tokens]
      /\ \A q \in Process : token[q] = Absent <=> pc[q] \in {"off", "load"}
  BY DEF LifeInv, TypeOK
<1>1. ASSUME NEW p \in Process, Step(p) PROVE LifeInv'
  <2>1. CASE LoadConfig(p)
    <3>1. config \in Tokens /\ config' = config /\ pc[p] = "load"
      BY <1>0, <2>1 DEF LoadConfig, Missing
    <3>2. token' = [token EXCEPT ![p] = config]
      BY <2>1 DEF LoadConfig
    <3>3. PICK place \in {"save", "listen", "done"} :
            /\ Goes(p, place)
            /\ place = "save" <=> p \notin Command
      BY <2>1 DEF LoadConfig, Loaded
    <3> QED
      BY <1>0, <3>1, <3>2, <3>3, GoesKeeps
  <2>2. CASE LoadFails(p)
    BY <2>2, EndsKeeps DEF LoadFails
  <2>3. CASE DrawToken(p)
    <3>1. PICK t \in Tokens : token' = [token EXCEPT ![p] = t]
      BY <2>3 DEF DrawToken
    <3> QED
      BY <1>0, <2>3, <3>1, GoesKeeps DEF DrawToken
  <2>4. CASE Truncate(p)
    <3>1. token' = token /\ config' = Torn
      BY <2>4 DEF Truncate
    <3>2. CASE pc[p] = "create" /\ Goes(p, "write")
      BY <1>0, <3>1, <3>2, GoesKeeps
    <3>3. CASE pc[p] = "save" /\ Goes(p, "rewrite")
      <4>1. p \notin Command
        BY <3>3 DEF LifeInv, Places
      <4> QED
        BY <1>0, <3>1, <3>3, <4>1, GoesKeeps
    <3> QED
      BY <2>4, <3>2, <3>3 DEF Truncate
  <2>5. ASSUME token' = token, config' \in {Absent, Torn} \cup Tokens,
               pc[p] = "write", Loaded(p)
        PROVE  LifeInv'
    <3>1. PICK place \in {"save", "listen", "done"} :
            /\ Goes(p, place)
            /\ place = "save" <=> p \notin Command
      BY <2>5 DEF Loaded
    <3> QED
      BY <1>0, <2>5, <3>1, GoesKeeps
  <2>6. ASSUME token' = token, config' \in {Absent, Torn} \cup Tokens,
               pc[p] \in {"save", "rewrite"}, AfterSave(p)
        PROVE  LifeInv'
    <3>1. p \notin Command
      BY <2>6 DEF LifeInv, Places
    <3>2. CASE p = "install"
      <4>1. Goes(p, "start")
        BY <2>6, <3>2 DEF AfterSave
      <4> QED
        BY <1>0, <2>6, <3>1, <3>2, <4>1, GoesKeeps
    <3>3. CASE p # "install"
      <4>1. Goes(p, "listen")
        BY <2>6, <3>3 DEF AfterSave
      <4> QED
        BY <1>0, <2>6, <3>1, <3>3, <4>1, GoesKeeps
    <3> QED
      BY <3>2, <3>3
  <2>7. CASE Write(p)
    <3>1. token' = token /\ config' \in {Absent, Torn} \cup Tokens
      BY <1>0, <2>7 DEF Write
    <3> QED
      BY <2>5, <2>6, <2>7, <3>1 DEF Write
  <2>8. CASE WriteFails(p)
    BY <1>0, <2>6, <2>8, EndsKeeps DEF WriteFails
  <2>9. CASE Listen(p)
    <3>1. /\ pc[p] = "listen" /\ pc' = [pc EXCEPT ![p] = "serving"]
          /\ port = "free" /\ port' = p
          /\ UNCHANGED <<config, token, scm, marked>>
      BY <2>9 DEF Listen, manager
    <3>2. p \in Agent
      BY <3>1 DEF LifeInv, Places, Agent
    <3>3. TypeOK'
      BY <3>1, <3>2 DEF LifeInv, TypeOK
    <3>4. Places' /\ ServiceUnderControl' /\ RunningIsUp'
      BY <3>1
         DEF LifeInv, TypeOK, Places, ServiceUnderControl, RunningIsUp, Up
    <3> QED
      BY <3>3, <3>4 DEF LifeInv
  <2>10. CASE ListenFails(p)
    <3>1. CASE p = "service"
      BY <1>0, <2>10, <3>1, GoesKeeps DEF ListenFails
    <3>2. CASE p # "service"
      BY <2>10, <3>2, EndsKeeps DEF ListenFails
    <3> QED
      BY <3>1, <3>2
  <2>11. CASE ToolDone(p)
    BY <2>11, EndsKeeps DEF ToolDone
  <2> QED
    BY <1>1, <2>1, <2>2, <2>3, <2>4, <2>7, <2>8, <2>9, <2>10, <2>11 DEF Step
<1>2. ASSUME NEW p \in Process, Run(p) PROVE LifeInv'
  BY <1>0, <1>2, GoesKeeps DEF Run
<1>3. ASSUME NEW p \in Process, Kill(p) PROVE LifeInv'
  BY <1>3, EndsKeeps DEF Kill
<1>4. CASE StopService
  BY <1>4, EndsKeeps DEF StopService
<1> USE DEF LifeInv, TypeOK, Places, ServiceUnderControl, RunningIsUp, Up
<1>5. CASE StartService
  BY <1>5 DEF StartService
<1>6. CASE ReportRunning
  BY <1>6 DEF ReportRunning
<1>7. CASE Install
  BY <1>7 DEF Install
<1>8. CASE InstallDone
  BY <1>8 DEF InstallDone
<1>9. CASE Uninstall
  <2>1. CASE scm = "running"
    <3>1. /\ pc' = [pc EXCEPT !["service"] = "off"]
          /\ token' = [token EXCEPT !["service"] = Absent]
          /\ port' = IF port = "service" THEN "free" ELSE port
          /\ scm' = "none" /\ marked' = FALSE /\ config' = config
      BY <1>9, <2>1, Zenon DEF Uninstall
    <3> QED
      BY <3>1
  <2>2. CASE scm = "starting"
    BY <1>9, <2>2 DEF Uninstall, RemovedLater
  <2>3. CASE scm = "stopped"
    BY <1>9, <2>3 DEF Uninstall
  <2> QED
    BY <1>9, <2>1, <2>2, <2>3 DEF Uninstall
<1>10. CASE UNCHANGED vars
  BY <1>10 DEF vars
<1> QED
  BY <1>1, <1>2, <1>3, <1>4, <1>5, <1>6, <1>7, <1>8, <1>9, <1>10 DEF Next

(***************************************************************************)
(* Theorems about the service                                              *)
(***************************************************************************)
\* The first invariant holds of every behaviour.
LEMMA LifeCorrect == Spec => []LifeInv
<1>1. Init => LifeInv
  BY Names
     DEF Init, LifeInv, TypeOK, Places, ServiceUnderControl, RunningIsUp
<1> QED
  BY <1>1, LifeStep, PTL DEF Spec

\* Every variable keeps its type, and a process has a token in memory from the
\* moment it has loaded or drawn one until it ends.
THEOREM TypeCorrect == Spec => []TypeOK
<1>1. LifeInv => TypeOK
  BY DEF LifeInv
<1> QED
  BY <1>1, LifeCorrect, PTL

\* There is a service process exactly while the service manager counts the
\* service as starting or running, whoever installs, starts, stops, kills or
\* uninstalls it, in whatever order.
THEOREM ServiceStaysUnderControl == Spec => []ServiceUnderControl
<1>1. LifeInv => ServiceUnderControl
  BY DEF LifeInv
<1> QED
  BY <1>1, LifeCorrect, PTL

(***************************************************************************)
(* Theorems about config.json                                              *)
(***************************************************************************)
\* Once two processes have been creating the file at once, it stays recorded.
LEMMA HistoryStays == [Next]_vars => (overlapped => overlapped')
BY DEF Next, Step, LoadConfig, LoadFails, DrawToken, Truncate, Write,
       WriteFails, Listen, ListenFails, ToolDone, Run, Kill, StartService,
       ReportRunning, StopService, Install, InstallDone, Uninstall, vars,
       history

\* A process that ends without having been in the middle of a write leaves the
\* file as good as it was.
LEMMA EndsKeepsFile ==
    ASSUME LifeInv, FileInv, ~overlapped, NEW p \in Process, config' = config,
           pc' = [pc EXCEPT ![p] = "off"],
           token' = [token EXCEPT ![p] = Absent],
           broken \/ pc[p] \in {"write", "rewrite"} => broken'
    PROVE  Agreed' /\ ConfigWhole'
<1> USE Names DEF LifeInv, TypeOK
<1>1. Agreed'
  BY DEF FileInv, Agreed, Holds
<1>2. ConfigWhole'
  BY DEF FileInv, ConfigWhole
<1> QED
  BY <1>1, <1>2

\* A process that moves on, neither into nor out of creating or writing the
\* file, leaves it as it was.
LEMMA GoesKeepsFile ==
    ASSUME LifeInv, FileInv, ~overlapped, NEW p \in Process, NEW place,
           pc' = [pc EXCEPT ![p] = place], place # "create",
           pc[p] \notin {"create", "write", "rewrite"},
           UNCHANGED <<config, token, history>>
    PROVE  Agreed' /\ ConfigWhole'
<1> USE Names DEF LifeInv, TypeOK, history
<1>1. Agreed'
  BY DEF FileInv, Agreed, Holds
<1>2. ConfigWhole'
  BY DEF FileInv, ConfigWhole
<1> QED
  BY <1>1, <1>2

\* What a process has written whole is what everyone has.
LEMMA WriteKeepsFile ==
    ASSUME LifeInv, FileInv, ~overlapped, NEW p \in Process,
           pc[p] \in {"write", "rewrite"}, pc'[p] # "create",
           pc' = [pc EXCEPT ![p] = pc'[p]],
           \/ config' = token[p]
           \/ config \notin {Torn, token[p]} /\ config' = Torn,
           UNCHANGED <<token, history>>
    PROVE  Agreed' /\ ConfigWhole'
<1> USE Names DEF LifeInv, TypeOK, history
<1>1. config # Absent /\ token[p] \in Tokens /\ config' = token[p]
  BY DEF FileInv, Agreed, Holds
<1>2. Agreed'
  BY <1>1 DEF FileInv, Agreed, Holds
<1>3. ConfigWhole'
  BY <1>1 DEF ConfigWhole
<1> QED
  BY <1>2, <1>3

\* Every step keeps the file whole and the tokens agreed, or leaves a trace of
\* why not.
LEMMA FileStep == LifeInv /\ FileInv /\ [Next]_vars => FileInv'
<1> SUFFICES ASSUME LifeInv, FileInv, [Next]_vars, ~overlapped'
             PROVE  Agreed' /\ ConfigWhole'
  BY HistoryStays DEF FileInv, ConfigWhole
<1>0. ~overlapped /\ Agreed /\ ConfigWhole
  BY HistoryStays DEF FileInv
<1> USE Names, <1>0
<1>1. ASSUME NEW p \in Process, Step(p) PROVE Agreed' /\ ConfigWhole'
  <2> USE DEF LifeInv, TypeOK
  <2>1. CASE LoadConfig(p)
    <3>1. PICK place \in {"save", "listen", "done"} : Goes(p, place)
      BY <2>1 DEF LoadConfig, Loaded
    <3>2. /\ pc' = [pc EXCEPT ![p] = place]
          /\ token' = [token EXCEPT ![p] = config]
          /\ config' = config /\ config \in Tokens /\ pc[p] = "load"
          /\ UNCHANGED history
      BY <2>1, <3>1 DEF LoadConfig, Missing, Goes
    <3>3. Agreed'
      BY <3>2 DEF Agreed, Holds
    <3> QED
      BY <3>2, <3>3 DEF ConfigWhole
  <2>2. CASE LoadFails(p)
    BY <2>2, EndsKeepsFile DEF LoadFails, Ends, history
  <2>3. CASE DrawToken(p)
    <3>1. PICK t \in Tokens : token' = [token EXCEPT ![p] = t]
      BY <2>3 DEF DrawToken
    <3>2. /\ pc' = [pc EXCEPT ![p] = "create"] /\ pc[p] = "load"
          /\ config' = config /\ config = Absent
          /\ \A q \in Process : pc[q] # "create"
      BY <2>3 DEF DrawToken, Goes, Missing
    <3>3. \A q \in Process : ~Holds(q)
      BY <3>2 DEF Agreed
    <3>4. Agreed'
      BY <3>1, <3>2, <3>3 DEF Agreed, Holds
    <3> QED
      BY <3>2, <3>4 DEF ConfigWhole
  <2>4. CASE Truncate(p)
    <3>1. PICK place \in {"write", "rewrite"} :
            pc' = [pc EXCEPT ![p] = place] /\ config' = Torn /\ token' = token
      BY <2>4 DEF Truncate, Goes
    <3>2. Holds(p) /\ \A q \in Process : pc[q] = "create" => q = p
      BY <2>4 DEF Truncate, Agreed, Holds
    <3>3. Agreed'
      BY <3>1, <3>2 DEF Agreed, Holds
    <3>4. ConfigWhole'
      BY <3>1 DEF ConfigWhole
    <3> QED
      BY <3>3, <3>4
  <2>5. CASE Write(p)
    <3>1. PICK place \in {"save", "listen", "done", "start"} : Goes(p, place)
      BY <2>5 DEF Write, Loaded, AfterSave
    <3>2. /\ pc[p] \in {"write", "rewrite"} /\ pc'[p] # "create"
          /\ pc' = [pc EXCEPT ![p] = pc'[p]]
          /\ \/ config' = token[p]
             \/ config \notin {Torn, token[p]} /\ config' = Torn
          /\ UNCHANGED <<token, history>>
      BY <2>5, <3>1 DEF Write, Goes
    <3> HIDE DEF LifeInv, TypeOK
    <3> QED
      BY <3>2, WriteKeepsFile
  <2>6. CASE WriteFails(p)
    <3>1. CASE Ends(p)
      BY <2>6, <3>1, EndsKeepsFile DEF WriteFails, Ends
    <3>2. CASE ~Ends(p)
      <4>1. PICK place \in {"listen", "start"} :
              /\ pc' = [pc EXCEPT ![p] = place]
              /\ pc[p] \in {"save", "rewrite"}
              /\ token' = token /\ config' = config
        BY <2>6, <3>2 DEF WriteFails, AfterSave, Goes
      <4>2. broken' = (broken \/ pc[p] = "rewrite")
        BY <2>6, <4>1 DEF WriteFails
      <4>3. Agreed'
        BY <4>1 DEF Agreed, Holds
      <4> QED
        BY <4>1, <4>2, <4>3 DEF ConfigWhole
    <3> QED
      BY <3>1, <3>2
  <2>7. CASE Listen(p)
    BY <2>7, GoesKeepsFile DEF Listen
  <2>8. CASE ListenFails(p)
    BY <2>8, EndsKeepsFile, GoesKeepsFile DEF ListenFails, Ends, Goes, history
  <2>9. CASE ToolDone(p)
    BY <2>9, EndsKeepsFile DEF ToolDone, Ends, history
  <2> QED
    BY <1>1, <2>1, <2>2, <2>3, <2>4, <2>5, <2>6, <2>7, <2>8, <2>9 DEF Step
<1>2. ASSUME NEW p \in Process, Run(p) PROVE Agreed' /\ ConfigWhole'
  BY <1>2, GoesKeepsFile DEF Run, Goes
<1>3. ASSUME NEW p \in Process, Kill(p) PROVE Agreed' /\ ConfigWhole'
  BY <1>3, EndsKeepsFile DEF Kill, Ends
<1>4. CASE StopService
  <2>1. pc["service"] \in {"listen", "serving", "deaf"}
    BY <1>4 DEF StopService, LifeInv, RunningIsUp, Up
  <2> QED
    BY <1>4, <2>1, EndsKeepsFile DEF StopService, Ends, history
<1>5. CASE StartService
  BY <1>5, GoesKeepsFile DEF StartService, LifeInv, ServiceUnderControl
<1>6. CASE Install
  BY <1>6, GoesKeepsFile DEF Install
<1>7. CASE InstallDone
  <2>1. /\ config' = config /\ history' = history
        /\ token' = [token EXCEPT !["install"] = Absent]
        /\ pc["install"] = "start" /\ pc'["install"] = "off"
        /\ DOMAIN pc' = Process
        /\ \A q \in Process \ {"install"} :
              pc'[q] = pc[q] \/ (pc[q] = "off" /\ pc'[q] = "load")
    <3> USE DEF LifeInv, TypeOK
    <3>1. CASE scm = "stopped"
      <4>1. pc["service"] = "off"
        BY <3>1 DEF ServiceUnderControl
      <4> QED
        BY <1>7, <3>1, <4>1 DEF InstallDone, history
    <3>2. CASE scm # "stopped"
      BY <1>7, <3>2 DEF InstallDone, history
    <3> QED
      BY <3>1, <3>2
  <2>2. Agreed'
    BY <2>1 DEF Agreed, Holds, LifeInv, TypeOK
  <2> QED
    BY <2>1, <2>2 DEF ConfigWhole, LifeInv, TypeOK, history
<1>8. CASE Uninstall
  <2>1. CASE scm = "running"
    <3>1. /\ pc' = [pc EXCEPT !["service"] = "off"]
          /\ token' = [token EXCEPT !["service"] = Absent]
          /\ UNCHANGED <<config, history>>
      BY <1>8, <2>1, Zenon DEF Uninstall
    <3>2. pc["service"] \in {"listen", "serving", "deaf"}
      BY <2>1 DEF LifeInv, RunningIsUp, Up
    <3> QED
      BY <3>1, <3>2, EndsKeepsFile DEF history
  <2>2. CASE scm # "running"
    <3>1. UNCHANGED <<pc, token, config, history>>
      BY <1>8, <2>2 DEF Uninstall, RemovedLater, LifeInv, TypeOK
    <3> QED
      BY <3>1 DEF Agreed, Holds, ConfigWhole, history
  <2> QED
    BY <2>1, <2>2
<1>9. CASE ReportRunning \/ UNCHANGED vars
  BY <1>9 DEF ReportRunning, vars, Agreed, Holds, ConfigWhole, history
<1> QED
  BY <1>1, <1>2, <1>3, <1>4, <1>5, <1>6, <1>7, <1>8, <1>9 DEF Next

\* The second invariant holds of every behaviour.
LEMMA FileCorrect == Spec => []FileInv
<1>1. Init => FileInv
  BY Names DEF Init, FileInv, Agreed, Holds, ConfigWhole
<1> QED
  BY <1>1, FileStep, LifeCorrect, PTL DEF Spec

\* config.json is unreadable only while a process writes it, or after a write
\* was cut short or two processes created the file at once: the in-place writes
\* of any number of processes never tear it by the way they follow one another.
THEOREM ConfigStaysWhole == Spec => []ConfigWhole
<1>1. FileInv => ConfigWhole
  BY DEF FileInv
<1> QED
  BY <1>1, FileCorrect, PTL

\* The agent that listens accepts the token that config.json shows, after any
\* number of restarts, installations and rewrites, unless two processes created
\* the file at once.
THEOREM TokenStays == Spec => []TokenStaysInFile
<1>1. LifeInv /\ FileInv => TokenStaysInFile
  <2> SUFFICES ASSUME LifeInv, FileInv, ~overlapped, port # "free",
                      config \in Tokens
               PROVE  config = token[port]
    BY DEF TokenStaysInFile, TokenIsInFile
  <2>1. port \in Process /\ Holds(port)
    BY Names DEF LifeInv, TypeOK, Places, Holds
  <2> QED
    BY <2>1 DEF FileInv, Agreed
<1> QED
  BY <1>1, LifeCorrect, FileCorrect, PTL
=============================================================================
