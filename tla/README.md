# A verification project for the ThinkCentre Endpoint agent

TLA+ modules that model the agent of this repository, TLC runs that check them
on small instances, and theorems that TLAPS checks for every instance. Paths
are relative to the repository; `accesslog.go` is `src/agent/accesslog.go`.

    tlc -config guac_sessions.cfg MCGuacPace       (one run; see PROJECT.json)
    tlapm GuacMonitorProofs.tla                    (all proofs of a module)

## 1. The system

A Windows PC runs Apache Guacamole in Docker (compose files), reachable through
a cloudflared tunnel, and beside it one Go program, the agent: a Windows
service with an HTTP API on the loopback interface and a small web console.

| Component | State it keeps | Operations | Talks to |
|---|---|---|---|
| Connection monitor (`accesslog.go`, `accesslog_windows.go`) | cursor in memory and in `connections.cursor.json`; last error and time of the last poll, under a mutex | `Run`, `poll`, three sources, `saveCursor`, `loadCursor`, `Status` | Postgres and `docker logs` through the docker command, the Windows Security log through `wevtutil`, the log file |
| Connection log (`accesslog.go`) | `connections.jsonl` and `.1` | `append` (with rotation), `Recent` | monitor writes, HTTP handlers read, no lock |
| HTTP API (`http.go`) | none of its own; the config it was started with | login, status, connections, reboot, cancel, wake, enable WoL, stack up/down | everything below; token check in front |
| Stack control (`stack.go`) | none; reads `.env` and the compose files at each call | `runCompose`, `runDocker`, `stackStatus`, `stackUp`, `stackDown` | docker |
| Configuration (`config.go`) | `config.json` with token, address, stack directory, delay | load or create, save | service, installer, command line |
| Service and command line (`service_windows.go`, `main.go`) | service state at the service manager | install, uninstall, execute, run in the foreground, wake, enable-wol | config, `serveAgent` |
| Reboot, Wake-on-LAN (`reboot.go`, `wol.go`, `wol_enable.go`) | none | schedule, cancel; parse a MAC, build and send a magic packet | `shutdown`, UDP |
| Web console (`web/app.js`) | token in the browser's storage, the page | login, refresh every few seconds, actions | HTTP API |
| Guacamole (external; schema in `guacamole/init/`) | two history tables | sessions and logins begin and end | the monitor reads |
| Deployment (compose files, `scripts/`) | `.env`, service, logon task | set up, set up tunnel, update | docker, service manager |
| Packaging (`scripts/build-release.sh`, `generate-wxs.py`, `releases/`) | — | build | — |

How they interact: one process holds the HTTP server (a goroutine per request)
and the monitor goroutine (`go mon.Run()`, `http.go:313`). Requests read the
monitor through `Status` (mutex) and `Recent` (the file, no lock); nothing
else is shared in memory, because the config is copied at the start. All other
coupling is through files (`config.json`, `.env`, cursor, log), through child
processes run without a timeout, and through the database.

What is hard about it:

* the monitor sees the world only through polls of windows (the last 80 rows,
  the last 40 records, the last two minutes), and must turn them into a log of
  events, each once;
* its memory of what it reported is saved only at the end of a poll, in place,
  and the process may stop anywhere;
* every write to the log may fail, or be cut short, and no caller notices;
* queries are stale when they are applied; sessions go on meanwhile;
* the console reads the log while the monitor appends to it and renames it;
* an agent started by hand runs its monitor beside that of the service, on the
  same log and the same cursor file, even when it cannot listen;
* handlers start compose commands that run beside each other, may hang, and
  outlive the agent; each decides anew which files it passes;
* a restart of the PC takes Docker Desktop with it until someone logs on;
* the page has several requests under way at a time, and one variable with the
  token for all of them.

What makes each component correct, in a sentence:

* Guacamole source: no session the queries return is passed over unreported, none
  leaves the window unreported while sessions come no faster than it holds, no
  open session is forgotten, ends are real and follow starts, one run of the
  agent reports nothing twice, and everything visible is reported in the end.
* RDP source: every accept is logged once, in order; failures move nothing.
* cloudflared source: no line twice per run and none missed while polls keep
  pace, however the pruning and the saved map interact.
* Log: recent events stay readable through rotation and torn writes, the file
  is bounded, and the console gets the true tail.
* Configuration and service: the token of `config.json` is the one the user was
  given, and processes that write the file beside each other leave it readable; a
  process runs exactly while the service manager says so, and a start ends in
  running or in stopped. Running does not mean serving (see section 5).
* Stack: an answer of 200 can be taken at its word unless something has worked
  against it, and the comment of each property says what; a command that hangs
  takes no other request with it; what ran before a restart runs again.
* Reboot: its requests are answered whatever docker does. That a restart was
  cancelled is not what its answer says (section 5).
* Wake-on-LAN: a packet wakes its target and no other card; every target is
  accounted for, and truly.
* API: nothing but login and static files without the token.
* Console: it comes to show the state of the PC as it is, lets in whoever has
  the token, and keeps out a token that is no longer taken.

The list of hazards, each at its line and with the properties that cover it, is
in `PROJECT.json`.

## 2. Modules

| Module | Models | Refines, extends |
|---|---|---|
| `AuditTrail` | what the monitor promises of a source of sessions | — |
| `GuacMonitor` | the Guacamole source, its cursor file, stops and restarts | implements `AuditTrail` |
| `GuacPace` | how fast sessions may come before the window hides one | `GuacMonitor` with a history of its polls |
| `MCGuacMonitor`, `MCGuacPace` | instances for TLC, of `guac_tables` and of `guac_sessions` | extend `GuacMonitor`, `GuacPace` |
| `RdpMonitor` | the RDP source, for several agents on one cursor file | — |
| `CfMonitor`, `MCCfMonitor` | the cloudflared source, with a clock | — |
| `ConnLog` | the log file: `append` by several agents, and `Recent` | — |
| `AccessMonitor`, `MCAccessMonitor` | the poll loop over the three sources, the mutex, `Status`, the cursor file | — |
| `AgentLifecycle` | service, installer, commands in the foreground; `config.json`, the port | — |
| `ControlPlane`, `MCControlPlane` | the handlers for stack, reboot and Wake-on-LAN set-up, compose commands, Docker Desktop, restarts of the PC | — |
| `WakeOnLan`, `MCWakeOnLan` | one call of `/api/wake` or `wake --mac`, from the text of an address to the packets | — |
| `Console` | the page against the token check and the answers of the agent | — |
| `GuacMonitorProofs`, `RdpMonitorProofs`, `CfMonitorProofs`, `ConnLogProofs`, `AccessMonitorProofs`, `AgentLifecycleProofs`, `ControlPlaneProofs`, `WakeOnLanProofs` | theorems and their proofs | each extends the module it is about; the first is about `GuacPace` as well |

The modules meet where one takes for granted what another shows.
`AgentLifecycle` shows that two agents may run at once; `RdpMonitor` and
`ConnLog` have two of them on one cursor file and one log. `AccessMonitor` shows
that `Status` does not wait for docker, and `ControlPlane` that only the handlers
that run compose do, `/api/status` among them.

A definition whose comment calls it a variant is a plausible slip in the
definition that follows it. No action uses one; put in that definition's place,
it makes a run fail, which shows that the property of the run depends on it.

### GuacMonitor

The database (`rows`) is the environment: rows become visible and later get an
end date. Ids come from a serial column, so a row may become visible below a
higher id when its transaction commits late; `late` remembers which did, and
`MaxLate` bounds them. The goroutine is a sequence of steps named by `pc`:

| Step | Code |
|---|---|
| `Boot` | `newAccessMonitor` loads the cursor, `Run` appends its start event |
| `QueryConnections`, `QueryLogins`, `QueryFails` | `pollGuacamole`: two `psql` calls; either failing abandons both |
| `ReportStart`, `SettleRow` | one turn of the loops of `applyGuacConnections` and `applyGuacLogins`: first the part under `r.ID > cursor`, then the rest |
| `TableDone` | the end of a loop |
| `SaveTruncate`, `SaveWrite`, `SaveFails` | `saveCursor`: `os.WriteFile` truncates, then writes; the error is ignored |
| `Tick` | the ticker |
| `Crash` | a stop of the process, by the service manager or otherwise |

`appendLocked` releases the mutex around the write, and the steps are as fine as
that: sessions, stops and failures may come between any two of them. A turn of
the loop is two steps because a stop may come between its two appends; the
assignments in between touch only memory that a stop loses, so they join the
append before them. Only the goroutine writes the cursor, so the mutex itself
is not modelled. A cursor file that is absent, empty or cut short does not
parse and loads as the zero cursor, so `disk` is what would be loaded.

The two apply loops differ in one thing: a connection row that is open is put
into the watched set again whenever it is seen, a login row only when it is
new. `Settled` says so. A name with a `|` shifts the columns after it, so that
the end column of its row is never empty; `Piped` are such rows.

Data left out: users, addresses, names, time stamps. The parser drops rows with
too few columns or without an id (`accesslog.go:326-336`). Of what the two queries
print, only a name with a line break in it makes such a row; it is left out.

### GuacPace

The queries return the newest 80 rows, so a session that 80 newer ones push out
of the window before a poll gets to it is never reported. `GuacPace` runs
`GuacMonitor` beside a history that it does not depend on: `asked` is what there
was when the poll under way asked, `polled` what there was when a poll asked
whose result was then applied to the end, and `overrun` what was asked for
together with more new rows than the window holds. A poll that fails, or that a
stop cuts off, adds nothing to `polled`, so that the next one has to make up for
it. `NoneMissedInPace` says that this is enough: only what was overrun, or was
committed out of order, can have been missed.

### AuditTrail

The same sessions without queries, polls, cursor or file: an agent that knows
which sessions it has passed and watches, reports a start only for a session it
has not passed, an end only of a session that has ended and is watched, and
forgets only by stopping. The mapping reads `passed` and `watched` off the
cursor in memory, or off the saved one while the agent is down.

### RdpMonitor

The Security log is a counter of records and the subset of them that are
remote-desktop logons. `Query` is `readRDPLogons`: the window, the sorting out
and the filter against the cursor; a denied query is an empty answer, other
failures skip to the save. `AppendRecord` and `SkipRecord` are the two branches
of the loop of `pollRDP`, newest record first, against its local `last`.

Every variable of an agent is a function of the agent, because two of them may
run: `serveAgent` starts the monitor before it takes the port (`http.go:313`).
They share `log` and `disk`. An agent that writes a cursor between the two steps
of the other's `os.WriteFile` may leave a file that does not parse (`SaveWrite`).

### CfMonitor

Time is a variable because three durations meet: `--since 2m`, the hour after
which keys are pruned, and the call of `docker logs`, which has no timeout. The
call is a pair of steps, `Ask` and `Return`, and time passes between them:
`--since` reaches back from the first, pruning and the stamps use the time of
the second. Lines that appear during the call may or may not be in its output.

The output has two forms. `docker logs --timestamps` is used when `docker ps`
names a running container and `compose logs` otherwise; each puts its own text
before a line, so that a key is a function of form and line, and a line may be
logged once in each. Keys are clipped to 240 bytes (`Key`); a key cut inside a
character does not come back from the JSON file as it was (`Cut`). What `docker
logs` puts first is a date and what `compose logs` puts first is a container name,
so no key of the one form is one of the other (`FormAssumption`). `covered` is
auxiliary: output before it was read by successful polls without a gap.

### ConnLog

Files are sequences of lines, sizes counted in lines. `append` of an agent is
`Check`, which looks at the size, a rename if the file was too large, and a write,
with the steps of the other agent and of the reader in between. So the file that
`Rotate` renames may be one that the other agent has just begun; what that
overwrites is remembered in `wiped`, and `RecentEventsKept` excepts it. A write
cut short leaves a line that the next event continues. `Recent` is one step per
line read; one that it cannot read ends it with an error (`RecentFails`). It
holds the file open, and Windows refuses to rename an open file, so `Rotate` needs
that no reader is there and `RotateRefused` is what happens otherwise, or when the
other agent is at its write; one reader stands for all.

### AccessMonitor

The sources are cut down to numbered items, so that what they share can be
seen: one goroutine, one mutex, one cursor file, one error string. The order in
which a source takes the mutex, moves its cursor and appends is kept, because
it differs: `applyGuacConnections` and `applyGuacLogins` hold the mutex, release
it around each append (`appendLocked`) and move the cursor after it;
`pollCloudflared` marks a line as seen, then appends it, without the mutex;
`pollRDP` appends and sets its mark at the end (and, of several items, appends
only the newest: see `rdp_skips`). A critical section without a write or a call
in it is one step that needs the mutex free; `Status` is such a section, so a
request is two steps, `AskStatus` and `AnswerStatus`. `CallSucceeds`, `CallEmpty`
and `CallFails` are the outcomes of a child process; that it never returns is the
absence of fairness. The time of the last poll is not modelled.

### AgentLifecycle

Processes load `config.json`; one that finds none draws a token and creates it,
one that finds half a file ends. Service and installer write back what they
loaded. `os.WriteFile` is `Truncate` and `Write`; if another process has written
something else in between, the longer content shows at the end of the shorter,
and the file does not parse. A command serves (`run`) or ends once it has its
configuration (`enable-wol`). The service manager sees the service as absent,
stopped, starting or running; `marked` is a deletion that waits for the service
to end. `serveAgent` is `Listen` or `ListenFails`: in the foreground the failure
ends the process, in the service it is only logged, and the monitor goes on
(`deaf`). Tokens that are nowhere in use may be drawn again, which keeps the
model finite without a bound.

### ControlPlane

`net/http` runs a handler per request, so `req` says of each client where its
handler is, and no two handlers exclude each other. The handlers of `http.go` are
actions of their own; `Refuse` is every early return. `StackUp`, `StackDown` and
`StackStatus` start a compose command (`RunsCompose`), after looking for the second
file and for a token in the environment or in `.env` (`Overlay`, that is
`tunnelOverlayEnabled`), and wait for it. The file and the environment stay what
they are while the agent runs (`TunnelFile`, `EnvToken`); `.env` is edited. The command
is a process of its own in `cmd`: it reads its files (`Parse`), then starts or
stops one service after the other, dependencies first or last, and can fail
anywhere (`CommandFails`). It goes on when the agent dies, which a child process
does, and beside those of other clients and of the logon task.

| Action | Code |
|---|---|
| `Request`, `Refuse`, `Answer` | routes, `requireAuth`, the early returns, `writeJSON` |
| `StackUp`, `StackDown`, `StackStatus` with `Todo`, `Files` | `stackUp`, `stackDown` (which is `compose stop`), `stackStatus`, `composeArgs` |
| `ScheduleReboot`, `CancelReboot` with `Schedule`, `Abort` | `handleReboot`, `handleCancelReboot`, `scheduleReboot`, `cancelReboot`, which ignores the result of `shutdown /a` |
| `EnableWakeOnLAN` | `handleEnableWOL`; the script is external |
| `EditToken` | `Set-DotEnvValue` of `setup-tunnel.ps1`, or an editor |
| `AgentDies`, `AgentStarts`, `Restart` | the service and Windows |
| `EngineStops`, `EngineStarts`, `LogOn` | Docker Desktop, which belongs to the user's session, and the logon task of `install-service.ps1`, which passes the first file only |

`restart: unless-stopped` is `Survivors`: what ran before Docker Desktop or the PC
stopped runs again. Containers are taken not to die by themselves.

An answer of 200 to a start or a stop says something only if nothing has worked
against it, and `calm` is where that is kept: a client that starts the stack
stays in it until some command stops a service, Docker Desktop stops or a token
is put in; one that stops the stack until some command starts a service or a
token is put in. Other clients that do the same, with the same files or with
others, the logon task and failing commands do not matter. The properties
about answers speak of those clients (`Told`).

### WakeOnLan

A text is its octets, its separator and whether its digits are hexadecimal;
`Parses` is `parseMAC` with `net.ParseMAC` behind it, which also reads addresses of
8 and 20 octets, and `MagicPacket` refuses them (`Packable`). `UpOnes` are the
places of the adapters that `listAdapters` lists and that are up, and `UpTexts` the
addresses that `handleWake` takes of them, in order. For each target the packet goes
to port 9 and then to port 7, either may fail, and one is enough. `Destination` is
where `net.DialUDP` sends to: a broadcast text that is no address reads as nil,
which it takes for the local host, as it does `0.0.0.0` and `::`; an address of
IPv4 written as one of IPv6 is taken for what it is; other addresses of IPv6 are
refused. Packets are octet for octet what `MagicPacket` builds, because
`WakesTargetOnly` is about where in a packet a network card may find its own
address.

### Console

A function of `app.js` that waits for an answer is a member of `Flow`: `step` says
for what, `cred` which token the request carried, `strict` whether an error sends
the page to the login form. The page's token is one variable; every request
carries it as it is at that moment, every 401 clears it as it is then (`Locks`),
and a login stores it as it is then (`LoggedIn`). Requests are served and answered
in any order. The agent is `TokenOK` and a version number for what a status
would show. `timer` is the interval that only a page loaded with a token sets.

## 3. Runs

| Run | Instance | Distinct states | Shows |
|---|---|---|---|
| `guac_sessions` | 3 connection rows, window 2, the second with a `\|`, 1 late row, 2 stops, with the history of `GuacPace` | 1 061 000 | `PassedRowsRecorded`, `OpenSessionsWatched`, `EndsFollowStarts`, `AtMostOncePerRun`, `EndsAreReal`, `NoneMissedInPace` |
| `guac_tables` | 1 row in each table, 1 lost event, 1 stop, fairness | 97 000 | `TypeOK`, `CursorAdvances`, `ImplementsAuditTrail`, `SessionsGetReported`, `WatchedEndsGetReported` |
| `rdp_monitor` | 2 agents, 3 records, window 2, 1 lost event, 1 stop, fairness for the service | 193 000 | `TypeOK`, `AscendingPerRun`, `CursorWasLogged`, `LatestAcceptLogged` |
| `rdp_skips` | 1 agent, 3 records in the window, nothing fails | — | `EveryAcceptLogged` is **violated** |
| `cf_dedup` | 2 lines with one key in one form, which is cut; reach 1, call 1, retention 2, clock 3, 1 lost event, 1 stop | 2 435 000 | `LineOncePerRun`, `NoLineMissed`, `SavedLineNotRepeated` |
| `conn_log` | 2 agents, 9 events, files of 3 lines, limits 1 and 2, 1 fault | 303 000 | `RecentEventsKept`, `SizeBounded`, `RecentIsTail` |
| `monitor` | 2 logons, 1 item of each other source, 1 status request, only RDP reliable; no call need ever return | 266 000 | `ErrorIsLastOutcome`, `SavedNotRepeated`, `SavedWasHanded`, `StatusAnswered`, `ReliableReports` |
| `lifecycle` | service, installer, 1 command, 3 tokens, fairness | 59 000 | `TypeOK`, `TokenStaysInFile`, `ConfigWhole`, `ServiceUnderControl`, `StartResolves` |
| `lifecycle_race` | the same | — | `TokenIsInFile` is **violated** |
| `control` | 2 clients, the tunnel and one service that stands for three, the second file there, 1 edit of the token, 1 death or restart, fairness | 134 000 | `OkMeansUp`, `OkMeansStopped`, `ComesBack`, `OthersAnswered` |
| `console` | 2 requests at a time, 2 tokens, 2 versions, 1 change of the token, 1 reload, fairness | 119 000 | `SettlesOnTruth`, `OldTokenLeaves`, `LoginLeadsIn` |
| `wake` | 16 texts, 7 broadcast texts, 3 sets of adapters | 3 435 | `WakesTargetOnly`, `AnswerIsTrue` |

`TypeOK` is checked in three runs. In the other modules it states what the
variables hold, and is proved of every instance: in `AccessMonitor`, `CfMonitor`,
`ControlPlane` and `WakeOnLan` as it stands, in `ConnLog` for the variables that
the proofs are about.

Every run checks for deadlock but `wake`, whose one call comes to its end: the
ticker, the clock, the console, a stop or a new start can always go on.

### What the violated runs show

`rdp_skips`:
`wevtutil` is asked for the newest records first. `pollRDP` raises its mark to
each record it appends and skips records at or below the mark: of two accepts
that one poll finds, the older is skipped, and the cursor has passed it. The
README says that the agent polls local RDP accepts and writes them to the log;
the code writes one accept per poll. The Guacamole parsers reverse their
results for this very reason.

`lifecycle_race`: two processes that find no `config.json` each draw a token and
write the file; the second write wins, and an agent that is already serving
keeps a token the file no longer shows. The README says the token is in the
file. `TokenStaysInFile`, which excepts this race, holds in `lifecycle`:
nothing else, no rewrite, failure or restart, separates the two.

### What the properties except

Some properties hold only with an exception, and the exception is what the code
does:

* `NoneMissedInPace`: a row that was committed out of order, and rows that came
  faster than the window holds.
* `RecentEventsKept`: with two agents, one may rename the file that the other has
  just begun, over the one just set aside; up to that event the log is lost.
* `SizeBounded`: the console keeps the file open while it reads, and every append
  in that time makes it longer.
* `RecentIsTail`: a line that cannot be read ends `Recent` with an error.
* `OkMeansUp`, `OkMeansStopped`: a start and a stop that cross, after which both
  have answered 200 and part of the services run; and a token that is put in
  while the command runs.
* `OkMeansStopped`: after the token was taken out of `.env`, "Stop stack" passes the
  first file only, answers 200, and cloudflared runs on.
* `ConfigWhole`: a write that a stop cuts short, after which no process can start
  until the file is removed.
* `ServiceUnderControl`, `StartResolves`: nothing of what a service that is
  `Running` does; it may have failed to listen.
* `ComesBack`: nothing runs after a restart until someone logs on.
* `SettlesOnTruth`, `OldTokenLeaves`: only for a page with the timer. A page that
  was loaded without a token and then logged in has none, and refreshes after
  actions only.
* `LoginLeadsIn`: any request that is refused or fails in the meantime; a 401 to an
  older request, with an older token, throws out the session that has just begun.
* `AnswerIsTrue`: a broadcast text that is no address, or the unspecified one,
  counts as sent, to this PC.
* `LineOncePerRun`: a call of `docker logs` that takes longer than `MaxCall`.

### Bounds, and why they are enough

* Two rows in one table are the smallest instance with an order, three the
  smallest where two push a third out of the window. The tables do not
  interact except through the poll they share, the file and the log; one row
  in each shows that. Ids are consecutive; the code only compares them.
* One stop meets every step; a second shows a restart from what the first one
  left behind. One late row is enough to pass by an open session.
* Three rows are one more than the window of `guac_sessions` holds, so that the same
  run has polls that keep pace and polls that do not.
* A lost append is bounded by distinct events, because one event may be
  attempted in several runs of the agent.
* Three records with a window of two put a record outside the window while
  another one waits in it. The second agent multiplies the orders in which the
  cursor file is read and written, which is the case that matters; records in
  hand are at most two.
* Three log lines per file and nine events give two rotations, one of which may
  fall between the check and the rename of the other agent. A limit of one with
  its quadruple of four lets `Recent` trim in the middle of a file, which grows
  to more than four lines while it is read.
* The clock of `CfMonitor` passes the retention by one, so that keys expire, and
  the retention is the sum of reach and call, the tightest value its assumption
  allows. The two lines have a key each in one form and share one in the other,
  which covers both cases. They are alike to every definition, so the run takes
  them as symmetric.
* Two logons let `pollRDP` find one after the other, or both and pass one; of the
  other sources, one item shows the order of mark and append.
* A service, an installer and a command are every kind of writer of
  `config.json`; a command that only loads comes in at the wrong moment. As many
  tokens as processes, so that one is always free.
* The services of the first file are started and stopped alike, one after the
  other: one of them and the tunnel are enough for a command that has done one
  half of its work. Two clients, and the logon task besides, put three compose
  commands beside each other. A client does one thing at a time, and waits for
  a command of its own that the death of the agent has left behind.
* Two requests of one page are enough for one to overtake the other and for a
  late 401. Two versions tell old from new, two tokens right from wrong.
* The addresses of `wake` are those where a run of 255s could be taken for the
  beginning of a packet, one ordinary address, and one of each refused length. The
  broadcast texts are one of each kind that `Destination` and `SendPacket` tell apart.

### Fairness

`Fairness` of `GuacMonitor` is weak fairness of the goroutine's next step, which
the Go scheduler gives a running goroutine, and of its restart, which the
service is installed for (`StartAutomatic`, `service_windows.go:93`; the machine
is rebooted or the service started by hand after a stop). It is strong fairness
of each query: the database may be down for any number of polls, but not for
every poll that is ever made. Nothing is assumed of sessions, of appends, of
saves, or of the number of stops beyond their bound. Liveness excludes a query
that hangs; the agent has no timeout for that (`stack.go:89`, `stack.go:102`).
`RdpMonitor` assumes the same of the service and its one query, and nothing of the
agent in the foreground, which may hang, save or stop as it likes.

`HangSpec` of `AccessMonitor` assumes nothing of calls. It is weakly fair to the
monitor's own steps, and strongly to requests that wait for the mutex, because
`sync.Mutex` hands itself to a waiter that has waited for a millisecond.
`ReliableReports` alone adds, as its premise `CallsReturn`, that calls return and
that those of the sources in `Reliable` succeed again and again, which leaves the
other sources free to fail always. `StatusAnswered` is checked without it.

`AgentLifecycle` assumes that the service process, once started, takes its next
step, and that the service reports; kills, failures and commands are nobody's
obligation.

`ControlPlane` is weakly fair to each handler, to the start of the service with
Windows, and to the start of Docker Desktop in a session. A handler waits for
`shutdown` and `powershell`, which are taken to end, and for compose, which is not:
no step of a command is fair. Nobody need log on; that someone does and stays is
the premise of `ComesBack`, in its text.

`Console` assumes that the interval fires again and again while there is one, that
every request ends in an answer or an error and is dealt with (browsers time
out), and that the requests for the status do not all fail. The timer needs
strong fairness only because `Flow` bounds the requests that wait at once.

## 4. Proofs

Every safety property that a run checks is proved for every value of the
constants: any number of rows, records, lines, agents, clients and services, any
window, limit and duration. `X` stands for `XProofs` below.

| Module | Theorem | States |
|---|---|---|
| `GuacMonitor` | `TypeCorrect` | `Spec => []TypeOK` |
| | `NoFalseEnds` | `Spec => []EndsAreReal` |
| | `NoSessionSkipped` | `Spec => []PassedRowsRecorded` |
| | `NoOpenSessionForgotten` | `Spec => []OpenSessionsWatched` |
| | `EndsComeAfterStarts` | `Spec => []EndsFollowStarts` |
| | `ReportedOncePerRun` | `Spec => []AtMostOncePerRun` |
| | `CursorOnlyAdvances` | `Spec => CursorAdvances` |
| | `MonitorKeepsTrail` | `Spec => ImplementsAuditTrail` |
| `GuacPace` (in `GuacMonitorProofs`) | `NoSessionMissed` | `PaceSpec => []NoneMissedInPace` |
| `RdpMonitor` | `TypeCorrect` | `Spec => []TypeOK` |
| | `CursorsLogged` | `Spec => []CursorWasLogged` |
| | `RunsAscend` | `Spec => AscendingPerRun` |
| `CfMonitor` | `LinesOncePerRun` | `Spec => LineOncePerRun` |
| | `SavedLinesStay` | `Spec => SavedLineNotRepeated` |
| | `NoLinesMissed` | `Spec => []NoLineMissed` |
| `ConnLog` | `SizeStaysBounded` | `Spec => []SizeBounded` |
| | `RecentStaysKept` | `Spec => []RecentEventsKept` |
| | `RecentReadsTail` | `Spec => RecentIsTail` |
| `AccessMonitor` | `SavedStaysBelow` | `Spec => []SavedNotRepeated` |
| | `SavedStaysHanded` | `Spec => []SavedWasHanded` |
| | `ErrorsAreLastOutcomes` | `Spec => []ErrorIsLastOutcome` |
| `AgentLifecycle` | `TypeCorrect` | `Spec => []TypeOK` |
| | `ServiceStaysUnderControl` | `Spec => []ServiceUnderControl` |
| | `ConfigStaysWhole` | `Spec => []ConfigWhole` |
| | `TokenStays` | `Spec => []TokenStaysInFile` |
| `ControlPlane` | `UpMeansUp` | `FairSpec => []OkMeansUp` |
| | `DownMeansStopped` | `FairSpec => []OkMeansStopped` |
| `WakeOnLan` | `PacketsWakeTargets` | `Spec => []WakesTargetOnly` |
| | `AnswerStaysTrue` | `Spec => []AnswerIsTrue` |

`ControlPlane` has no specification without fairness; its proofs do not use it.

Few of the invariants are inductive. Each strengthening below was checked by TLC on
the instance of its run, or a larger one, before it was proved.

### GuacMonitor

`Views` says what old knowledge is worth: a row in hand was visible, and ended
if it says so (rows never disappear or reopen, `DatabaseMonotonic`); every
watched session is one its own cursor has passed; a cursor's id has been
visible; a stopped agent has nothing in hand. `EndsAreReal` follows with it.

`Passing` is about the moment between a query and the end of its application.
`PassedRowsRecorded` alone is not inductive: a report raises the cursor, and
rows between the old and the new value would be passed. They are not, because
rows in hand are a snapshot of the window (`SnapshotComplete`: a visible row
that is above the cursor, below a row in hand and not late is in hand as well)
and the smallest one is taken first. The same holds of what is watched and of
what is recorded (`WatchedRecorded`, `FetchedRecorded`). The window only moves
on (`WindowMovesOn`, by cardinality), so a row that left it never returns, and
a new row is the newest of its table or late (`NewRowIsNewest`).

`ReportedIsSettled` is what keeps a running agent from repeating itself: a start
in the log since the agent started is of a row its cursor skips, and an end is of
a row that is not watched and that no result in hand shows open. The last part
is where it could go wrong, since an open connection row is watched again
whenever it is seen: a later query cannot show the row open, because its end was
real (`NoFalseEnds`), and an earlier result has been taken out of hand with it.

The refinement needs one more fact, `DiskBehind`: while the agent runs, the
saved cursor skips nothing that the one in memory does not. A stop then only
forgets.

`NoneMissedInPace` is about polls that have come to their end; while one is under
way, the rows that it asked for are reported or in hand (`AskedInHand`). They are
in hand because what was not there when the last such poll asked is newer than
all that was (`NewAreNewer`), late rows excepted: the rows above a new row are
then new themselves, and no more than the window holds (`NewRowsInWindow`, by
cardinality). That the history disturbs nothing (`PaceStep`) carries the
invariants of `GuacMonitor` over.

### RdpMonitor

`CursorWasLogged` must be said of `pollRDP`'s local `last` too, which becomes the
cursor (`CursorInv`). For `AscendingPerRun`, what a run appended last is not above
what its next comparison uses: `last` during an answer, the cursor between two
(`NewestInv`). Neither speaks of the file being read back in order, so a second
agent that writes an older cursor does no harm to them.

### CfMonitor

`TimeInv` bounds the call and says that no line is from the future. A line that
this run has appended is still in its map, at a time no earlier than the line, or
the call under way began too late to return it (`HandedInv`); pruning at one time
and reaching back from another keep this exactly because of
`RetainAssumption`, Since + MaxCall <= Retain, which 2 minutes and an hour satisfy
for calls up to 58 minutes. `FormAssumption` keeps a line of one form from being
taken for one of the other. `SavedInv` says the same of the saved map, for keys that
stand for one line. `MissedInv` ties the map to the log, and what a call had to
return to what is still to be looked at.

### ConnLog

`SizeInv` counts the agents that are past their look at the size: each can add
one line more. `OrderInv` says that the two files, one after the other, list
events in ascending order, none lost or older than `wiped`, and that a line without
a newline is the newest. A rotation then costs `old` only, whose events are all
older than the more than MaxLines lines of `cur`, and as many events lie between
(`EventsOfFile`, `NewerEvents`, by an injection of lines into events). `KeptInv` is
`RecentEventsKept` file by file. `ReadInv` compares what `Recent` holds with the file
from the last line back: the same but for lines that are no JSON, and as many as
were read or as were asked for. `NewestLines` is a recursive function; what it
returns is proved by a set of numbers without a least element (`Reaches`, from
`WFMin`), which needs no operator to be instantiated. `SelectSeq` of the
standard module, which says the same, gives the provers nothing to start from.

### AccessMonitor

`AheadOfFile`: what is in hand is above the cursor in the file, and the one in
memory is not below it. `CursorWasHanded` says of each source where its cursor
may be when: cloudflared's runs ahead by the line about to be appended, which is
safe because the file is not written then. `ErrorInv` counts the sources whose
call in this poll has returned.

### AgentLifecycle

`Places` says who may hold the port and which steps each kind of process has;
`ServiceUnderControl` and the types need each other (`LifeInv`). `Agreed` is what
holds as long as no two processes were creating the file at once: all who have
loaded a configuration have one token, the one in the file where the file shows
one. `ConfigWhole` is inductive beside it. `TokenAssumption` sets tokens apart from
the two other states of the file; that there are enough of them to draw from keeps
the instance from stopping, and the proofs do not use it.

### ControlPlane

For a calm client, what "up" has to start runs or is in its command's list of
things left to do (`UpInv`), and what "down" has to stop is in that list or stopped
(`DownInv`). The proofs go through every action and every client, and show that an
action leaves the request of a calm client and its command alone (`Unmoved`) or
carries on its own list, and that of the services it starts or stops only what a
client that stays calm wants started or stopped. The files that a command was
started with need not be those of the answer: a token that is taken out only
makes the set smaller (`FilesLeft`). `BaseAssumption` says that
the first file names services, in a sequence, and `ServiceAssumption` that the two
marks of a command that has yet to read its files are not service names.

### WakeOnLan

`WakesTargetOnly` says what a card looks for: six octets of 255 and then its own
address sixteen times, wherever they are in a packet. A packet has 102 octets,
just the room for that (`PacketFacts`), so a card can find its address at the
beginning only, and there stands that of the target (`PacketWakes`). `CountInv` and
`WireInv` account for the targets.
`TextsAssumption` and `InterfacesAssumption` are types of the inputs.

### Model-checked only

* Liveness: `SessionsGetReported`, `WatchedEndsGetReported`, `LatestAcceptLogged`,
  `StatusAnswered`, `ReliableReports`, `StartResolves`, `ComesBack`, `OthersAnswered` and
  the three properties of `Console`. They rest on fairness, hence on ENABLED, which
  is out of the prover's reach.
* That `result` of `ConnLog` is a sequence of lines at every moment; `RecentReadsTail`
  says what it is when it is set.

## 5. Not modelled, and the plan

Not modelled for good: the layout of events and pages, time stamps
(`rfcOrRaw`), the classification of cloudflared lines and of Security records
(a choice of the environment), the decoding of what `compose ps` prints, the
defaults of the configuration, compose, Docker Desktop and Guacamole themselves,
installers and release artefacts, the starting of the tunnel by
`setup-tunnel.ps1 -StartTunnel`, and the loss of unsynced files in a power
failure.

Hazards that no property covers, because the code does not deal with them and
the repository does not say what it should do:

* a session that starts and ends between two polls gets a start event and no end
  (`accesslog.go:400`): nothing says whether an end is owed;
* after the database is restored from a backup, ids start below the cursor
  (`accesslog.go:386`): `GuacMonitor` has no action that takes rows away, and the
  argument of its proofs is that there is none;
* other logons push a remote-desktop accept out of the window of 40 records
  (`accesslog_windows.go:14`): `LatestAcceptLogged` excepts an accept that leaves
  the window before a query succeeds, and no number of logons is promised;
* the service is `Running` and does not listen (`service_windows.go:49`), and an
  installation that fails leaves a service that cannot start
  (`service_windows.go:104`): `AgentLifecycle` reaches both, and nothing says that
  they should not be;
* "Cancel" answers 200 although `shutdown /a` failed, and another client may ask for
  a restart at once (`reboot.go:33`): `Abort` has both outcomes, and the answer
  claims no more than that the command was started;
* "Stop stack" pressed through the tunnel cuts the line it was pressed through
  (`stack.go:200`): `ControlPlane` does not say from where a client calls;
* a 401 clears the token of the page whatever token its request carried, and a
  login stores the one of the page at that moment (`web/app.js:14`): `Console` does
  both, and `LoginLeadsIn` excepts a login during which a request is refused.

Of others a property covers one half: of the sessions that leave the window
(`accesslog.go:270`) their starts, not their ends; of the file rewritten in place
(`config.go:99`) the processes that write it at once, not the stop that leaves it
empty; of starts and stops beside each other (`stack.go:89`) those that agree, not
a start and a stop that cross; of the timer (`web/app.js:222`) the pages that have
one.

What is left:

1. Invariants of `Console` that its liveness rests on, which are not stated yet:
   which token a request under way can carry, and that a version shown was served.
2. The liveness properties of one step (`StartResolves`) reduced to an invariant and
   one leads-to, so that as little as possible hangs on the instance.
3. `AuditTrail` for the other sources: `RdpMonitor` has one event per record and no
   end, and would refine it with `watched` empty.
