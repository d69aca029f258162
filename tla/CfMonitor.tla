------------------------------ MODULE CfMonitor ------------------------------
(***************************************************************************)
(* The cloudflared source of the connection monitor: pollCloudflared in    *)
(* agent/accesslog.go. Every poll reads the last Since seconds of the      *)
(* tunnel container's output, so that consecutive polls see most lines     *)
(* again, and drops the lines whose key is in CFSeen, a map from keys to   *)
(* the time they were first seen. Entries older than Retain seconds are    *)
(* pruned. The map is part of the cursor and survives restarts.            *)
(*                                                                         *)
(* The output comes in one of two forms: "docker logs --timestamps" when   *)
(* "docker ps" names a running container, "compose logs" otherwise. Each   *)
(* puts its own text in front of a line, and so each form has its own key  *)
(* for the same line.                                                      *)
(*                                                                         *)
(* Time matters here and is a variable. "docker logs" is called without a  *)
(* timeout: MaxCall bounds how long it may take.                           *)
(***************************************************************************)
EXTENDS Naturals, FiniteSets

CONSTANTS
    Line,        \* interesting lines of container output, each emitted once
    Key(_, _),   \* a line in a form, clipped to 240 bytes: the key in CFSeen
    Cut,         \* keys clipped inside a character: not valid UTF-8
    Since,       \* --since 2m
    Retain,      \* 3600 seconds
    MaxCall,     \* bound: duration of one call of docker logs
    MaxTime,     \* bound: the clock
    MaxLost,     \* bound: distinct lines whose append fails
    MaxCrashes   \* bound: stops and crashes of the agent

Form == {"docker", "compose"}
Keys == {Key(f, l) : f \in Form, l \in Line}

ASSUME TimeAssumption ==
    {Since, Retain, MaxCall, MaxTime, MaxLost, MaxCrashes} \subseteq Nat
\* What makes pruning safe: a line can no longer be returned when its key
\* expires. The code has 120 + MaxCall <= 3600, for calls under 58 minutes.
ASSUME RetainAssumption == Since + MaxCall <= Retain
ASSUME CutAssumption == Cut \subseteq Keys
\* "docker logs" puts a date before each line, "compose logs" a container name.
ASSUME FormAssumption == \A l, m \in Line : Key("docker", l) # Key("compose", m)

Never == MaxTime + 1

VARIABLES
    clock,
    emitted,  \* when each line was emitted, or Never
    pc,       \* where the monitor goroutine is
    form,     \* which of the two commands was called
    asked,    \* when the call of docker logs began
    output,   \* lines of the call still to be looked at
    now,      \* the poll's time: read once, when the call has returned
    seen,     \* m.cursor.CFSeen: key -> time first seen, or Never
    disk,     \* the map that loadCursor would return from the cursor file
    log,      \* the lines in the log, each in its form
    lost,     \* auxiliary: lines whose append failed
    handed,   \* auxiliary: lines that this run has handed to append
    crashes,  \* auxiliary: stops and crashes so far
    covered   \* auxiliary: output before this was read without a gap

vars == <<clock, emitted, pc, form, asked, output, now, seen, disk, log, lost,
          handed, crashes, covered>>
container == <<clock, emitted>>
call == <<form, asked, output, now>>
journal == <<log, lost, handed>>
history == <<crashes, covered>>

Unseen == [k \in Keys |-> Never]

\* append ignores every error, and its callers cannot tell.
AppendEvent(e) ==
    /\ handed' = handed \cup {e}
    /\ \/ /\ log' = log \cup {e}
          /\ UNCHANGED lost
       \/ /\ Cardinality(lost \cup {e}) <= MaxLost
          /\ lost' = lost \cup {e}
          /\ UNCHANGED log

Init ==
    /\ clock = 0
    /\ emitted = [l \in Line |-> Never]
    /\ pc = "down"
    /\ form = "docker"
    /\ asked = 0
    /\ output = {}
    /\ now = 0
    /\ seen = Unseen
    /\ disk = Unseen
    /\ log = {}
    /\ lost = {}
    /\ handed = {}
    /\ crashes = 0
    /\ covered = 0

\* A call that hangs ends after MaxCall at the latest; everything else the
\* poll does is instantaneous on this scale.
Tock ==
    /\ clock < MaxTime
    /\ pc \in {"down", "idle", "call"}
    /\ pc = "call" => clock - asked < MaxCall
    /\ clock' = clock + 1
    /\ UNCHANGED <<emitted, pc, call, seen, disk, journal, history>>

Emit(l) ==
    /\ emitted[l] = Never
    /\ emitted' = [emitted EXCEPT ![l] = clock]
    /\ UNCHANGED <<clock, pc, call, seen, disk, journal, history>>

\* dockerContainerID finds the container while it runs and "docker ps"
\* succeeds; what it does not find, "compose logs" may still show.
Ask ==
    /\ pc = "idle"
    /\ form' \in Form
    /\ asked' = clock
    /\ pc' = "call"
    /\ UNCHANGED <<container, output, now, seen, disk, journal, history>>

\* Variant: a line exactly Since old is not returned.
ReachedShort(l) == emitted[l] # Never /\ emitted[l] + Since > asked

\* pollCloudflared returns: its locals are gone.
Leave ==
    /\ form' = "docker"
    /\ asked' = 0
    /\ output' = {}
    /\ now' = 0

\* --since reaches back from the moment the call begins.
Reached(l) == emitted[l] # Never /\ emitted[l] + Since >= asked

\* Variant: an entry expires with the reach of --since, the call forgotten.
ExpiredEarly(k, t) == seen[k] # Never /\ t - seen[k] >= Since

Expired(k, t) == seen[k] # Never /\ t - seen[k] > Retain

\* Lines emitted before the call are returned if --since reaches them; those
\* emitted while it runs may or may not be.
Return ==
    /\ pc = "call"
    /\ \E during \in SUBSET {l \in Line : emitted[l] >= asked /\ Reached(l)} :
           output' = {l \in Line : emitted[l] < asked /\ Reached(l)} \cup during
    /\ now' = clock
    /\ seen' = [k \in Keys |-> IF Expired(k, clock) THEN Never ELSE seen[k]]
    /\ pc' = "apply"
    /\ UNCHANGED <<container, form, asked, disk, journal, history>>

\* The call fails, or there is no such container; nothing is pruned.
CallFails ==
    /\ pc = "call"
    /\ Leave
    /\ pc' = "save"
    /\ UNCHANGED <<container, seen, disk, journal, history>>

\* Lines are looked at in the order they were emitted.
IsNext(l) == l \in output /\ \A m \in output : emitted[l] <= emitted[m]

Stamp == now
IsSeen(l) == seen[Key(form, l)] # Never

AppendLine(l) ==
    /\ pc = "apply"
    /\ IsNext(l)
    /\ ~IsSeen(l)
    /\ seen' = [seen EXCEPT ![Key(form, l)] = Stamp]
    /\ AppendEvent(<<form, l>>)
    /\ output' = output \ {l}
    /\ UNCHANGED <<container, pc, form, asked, now, disk, history>>

SkipLine(l) ==
    /\ pc = "apply"
    /\ IsNext(l)
    /\ IsSeen(l)
    /\ output' = output \ {l}
    /\ UNCHANGED <<container, pc, form, asked, now, seen, disk, journal, history>>

Applied ==
    /\ pc = "apply"
    /\ output = {}
    /\ Leave
    /\ pc' = "save"
    /\ covered' = IF asked <= covered + Since THEN asked ELSE covered
    /\ UNCHANGED <<container, seen, disk, journal, crashes>>

SaveTruncate ==
    /\ pc = "save"
    /\ disk' = Unseen
    /\ pc' = "write"
    /\ UNCHANGED <<container, call, seen, journal, history>>

SaveWrite ==
    /\ pc = "write"
    /\ disk' = seen
    /\ pc' = "idle"
    /\ UNCHANGED <<container, call, seen, journal, history>>

SaveFails ==
    /\ pc \in {"save", "write"}
    /\ pc' = "idle"
    /\ UNCHANGED <<container, call, seen, disk, journal, history>>

Crash ==
    /\ pc # "down"
    /\ crashes < MaxCrashes
    /\ crashes' = crashes + 1
    /\ pc' = "down"
    /\ Leave
    /\ seen' = Unseen
    /\ handed' = {}
    /\ UNCHANGED <<container, disk, log, lost, covered>>

\* Variant: the map in the file is not read back.
LoadedNothing(k) == Never

\* A cut character is replaced when the map is written as JSON: the key read
\* back is not the one that will be looked up.
Loaded(k) == IF k \in Cut THEN Never ELSE disk[k]

Boot ==
    /\ pc = "down"
    /\ seen' = [k \in Keys |-> Loaded(k)]
    /\ pc' = "idle"
    /\ UNCHANGED <<container, call, disk, journal, history>>

Monitor ==
    \/ Boot
    \/ Ask \/ Return \/ CallFails
    \/ \E l \in Line : AppendLine(l) \/ SkipLine(l)
    \/ Applied
    \/ SaveTruncate \/ SaveWrite \/ SaveFails

Next ==
    \/ Tock
    \/ \E l \in Line : Emit(l)
    \/ Monitor
    \/ Crash

Spec == Init /\ [][Next]_vars

(***************************************************************************)
(* Properties                                                              *)
(***************************************************************************)
Time == 0..Never
Lines == Form \X Line

\* Every variable keeps its type; no entry of a map is from the future.
TypeOK ==
    /\ clock \in 0..MaxTime
    /\ emitted \in [Line -> Time]
    /\ form \in Form
    /\ pc \in {"down", "idle", "call", "apply", "save", "write"}
    /\ asked \in 0..clock
    /\ output \subseteq Line
    /\ now \in 0..clock
    /\ seen \in [Keys -> 0..clock \cup {Never}]
    /\ disk \in [Keys -> 0..clock \cup {Never}]
    /\ {log, lost, handed} \subseteq SUBSET Lines
    /\ crashes \in 0..MaxCrashes
    /\ covered \in 0..clock

\* One run of the agent appends a line at most once in each form, although
\* every poll reads the last Since seconds again and keys are forgotten after
\* Retain: pruning never overtakes the reach of --since, although it comes at
\* the end of a call that may have taken up to MaxCall.
LineOncePerRun ==
    [][\A l \in Line : AppendLine(l) => <<form, l>> \notin handed]_vars

\* While successful polls begin at most Since apart, no line is missed: not
\* because it came during a call, not over a failed call, a restart or a change
\* of form. What is not in the log has a key in common with a line that is, or
\* with one whose append failed.
NoLineMissed ==
    \A l \in Line :
        emitted[l] < covered =>
            \E e \in log \cup lost : Key(e[1], e[2]) = Key(e[1], l)

\* A line whose key the cursor file holds is not appended again, by this run
\* or by the one that loads the file, unless the key was cut inside a
\* character or belongs to another line too.
SavedLineNotRepeated ==
    [][\A l \in Line :
           /\ AppendLine(l)
           /\ Key(form, l) \notin Cut
           /\ \A m \in Line : Key(form, m) = Key(form, l) => m = l
           => disk[Key(form, l)] = Never]_vars
=============================================================================
