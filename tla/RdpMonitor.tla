----------------------------- MODULE RdpMonitor -----------------------------
(***************************************************************************)
(* The RDP source of the connection monitor: pollRDP in agent/accesslog.go *)
(* and readRDPLogons in agent/accesslog_windows.go. Every poll asks the    *)
(* Windows Security log for its newest logon records, newest first, keeps  *)
(* the remote-desktop ones above the cursor, and appends them.             *)
(*                                                                         *)
(* The Security log is external. Its records are numbered in order; only   *)
(* some are remote-desktop logons (parseSecurityEvents sorts out the       *)
(* rest), but all of them count against the window of the query.           *)
(*                                                                         *)
(* Two agents may run at once, the service and one in the foreground: each *)
(* starts its monitor before it takes the port, and one that gets no port  *)
(* may go on (see AgentLifecycle). They share the log and the cursor file. *)
(***************************************************************************)
EXTENDS Naturals, FiniteSets

CONSTANTS
    Agent,       \* the agents that may run on this PC
    Service,     \* the one of them that Windows keeps running
    Window,      \* how many records the query returns (/c:40)
    MaxRecord,   \* bound: logon records ever written to the Security log
    MaxLost,     \* bound: records whose append fails
    MaxCrashes   \* bound: stops and crashes of an agent

ASSUME AgentAssumption == Service \in Agent
ASSUME WindowAssumption == Window \in Nat \ {0}
ASSUME BoundAssumption == {MaxRecord, MaxLost, MaxCrashes} \subseteq Nat

VARIABLES
    top,      \* the newest record id of the Security log
    accepts,  \* the records that are remote-desktop logons
    pc,       \* where each monitor goroutine is
    batch,    \* records of the query still to be looked at
    last,     \* pollRDP's local copy of the cursor
    cursor,   \* m.cursor.LastRDPRecord
    disk,     \* the value loadCursor would return from the cursor file
    log,      \* the records in the log
    lost,     \* auxiliary: records whose append failed
    newest,   \* auxiliary: the last record each run has handed to append
    crashes   \* auxiliary: stops and crashes so far

vars == <<top, accepts, pc, batch, last, cursor, disk, log, lost, newest,
          crashes>>
securityLog == <<top, accepts>>
poll == <<batch, last>>
journal == <<log, lost, newest>>

None == [a \in Agent |-> 0]
Goes(a, place) == pc' = [pc EXCEPT ![a] = place]
Recorded(k) == k \in log \cup lost

\* append ignores every error, and its callers cannot tell.
AppendEvent(a, k) ==
    /\ newest' = [newest EXCEPT ![a] = k]
    /\ \/ /\ log' = log \cup {k}
          /\ UNCHANGED lost
       \/ /\ Cardinality(lost \cup {k}) <= MaxLost
          /\ lost' = lost \cup {k}
          /\ UNCHANGED log

Init ==
    /\ top = 0
    /\ accepts = {}
    /\ pc = [a \in Agent |-> "down"]
    /\ batch = [a \in Agent |-> {}]
    /\ last = None
    /\ cursor = None
    /\ disk = 0
    /\ log = {}
    /\ lost = {}
    /\ newest = None
    /\ crashes = 0

\* Windows records a logon, remote-desktop or not.
Logon ==
    /\ top < MaxRecord
    /\ top' = top + 1
    /\ accepts' \in {accepts, accepts \cup {top'}}
    /\ UNCHANGED <<pc, poll, cursor, disk, journal, crashes>>

(***************************************************************************)
(* readRDPLogons and pollRDP                                               *)
(***************************************************************************)
InWindow(k) == k + Window > top

\* Variants: records that are no remote-desktop logons are not sorted out, and
\* the filter against the cursor is off by one.
FetchedAll(a) == {k \in 1..top : InWindow(k) /\ k > cursor[a]}
FetchedByTwo(a) == {k \in accepts : InWindow(k) /\ k > cursor[a] + 1}

Fetched(a) == {k \in accepts : InWindow(k) /\ k > cursor[a]}

Answer(a, records) ==
    /\ pc[a] = "query"
    /\ batch' = [batch EXCEPT ![a] = records]
    /\ last' = [last EXCEPT ![a] = cursor[a]]
    /\ Goes(a, "apply")
    /\ UNCHANGED <<securityLog, cursor, disk, journal, crashes>>

\* wevtutil answers: the remote-desktop logons of the window that are fresh.
Query(a) == Answer(a, Fetched(a))

\* "Access is denied" is no error but an empty answer.
QueryDenied(a) == Answer(a, {})

QueryFails(a) ==
    /\ pc[a] = "query"
    /\ Goes(a, "save")
    /\ UNCHANGED <<securityLog, poll, cursor, disk, journal, crashes>>

\* Variant: a loop that compares with the cursor, not with what it appended.
FreshToCursor(a, k) == k > cursor[a]

\* /rd:true: newest first.
IsNext(a, k) == k \in batch[a] /\ \A j \in batch[a] : j <= k
Fresh(a, k) == k > last[a]

AppendRecord(a, k) ==
    /\ pc[a] = "apply"
    /\ IsNext(a, k)
    /\ Fresh(a, k)
    /\ AppendEvent(a, k)
    /\ last' = [last EXCEPT ![a] = k]
    /\ batch' = [batch EXCEPT ![a] = @ \ {k}]
    /\ UNCHANGED <<securityLog, pc, cursor, disk, crashes>>

SkipRecord(a, k) ==
    /\ pc[a] = "apply"
    /\ IsNext(a, k)
    /\ ~Fresh(a, k)
    /\ batch' = [batch EXCEPT ![a] = @ \ {k}]
    /\ UNCHANGED <<securityLog, pc, last, cursor, disk, journal, crashes>>

\* Variant: the cursor moves to the newest record seen, of whatever kind.
AdvancedToTop(a) == top

Advanced(a) == last[a]

Advance(a) ==
    /\ pc[a] = "apply"
    /\ batch[a] = {}
    /\ cursor' = [cursor EXCEPT ![a] = Advanced(a)]
    /\ last' = [last EXCEPT ![a] = 0]
    /\ Goes(a, "save")
    /\ UNCHANGED <<securityLog, batch, disk, journal, crashes>>

(***************************************************************************)
(* saveCursor, and the life of an agent                                    *)
(***************************************************************************)
SaveTruncate(a) ==
    /\ pc[a] = "save"
    /\ disk' = 0
    /\ Goes(a, "write")
    /\ UNCHANGED <<securityLog, poll, cursor, journal, crashes>>

\* Where the other agent has written the file since it was truncated, what is
\* longer of the two shows at the end, and the file does not parse.
SaveWrite(a) ==
    /\ pc[a] = "write"
    /\ \/ disk' = cursor[a]
       \/ disk \notin {0, cursor[a]} /\ disk' = 0
    /\ Goes(a, "idle")
    /\ UNCHANGED <<securityLog, poll, cursor, journal, crashes>>

SaveFails(a) ==
    /\ pc[a] \in {"save", "write"}
    /\ Goes(a, "idle")
    /\ UNCHANGED <<securityLog, poll, cursor, disk, journal, crashes>>

Tick(a) ==
    /\ pc[a] = "idle"
    /\ Goes(a, "query")
    /\ UNCHANGED <<securityLog, poll, cursor, disk, journal, crashes>>

Crash(a) ==
    /\ pc[a] # "down"
    /\ crashes < MaxCrashes
    /\ crashes' = crashes + 1
    /\ Goes(a, "down")
    /\ batch' = [batch EXCEPT ![a] = {}]
    /\ last' = [last EXCEPT ![a] = 0]
    /\ cursor' = [cursor EXCEPT ![a] = 0]
    /\ newest' = [newest EXCEPT ![a] = 0]
    /\ UNCHANGED <<securityLog, disk, log, lost>>

Loaded == disk

Boot(a) ==
    /\ pc[a] = "down"
    /\ cursor' = [cursor EXCEPT ![a] = Loaded]
    /\ Goes(a, "query")
    /\ UNCHANGED <<securityLog, poll, disk, journal, crashes>>

Monitor(a) ==
    \/ Boot(a)
    \/ Query(a) \/ QueryDenied(a) \/ QueryFails(a)
    \/ \E k \in accepts : AppendRecord(a, k) \/ SkipRecord(a, k)
    \/ Advance(a)
    \/ SaveTruncate(a) \/ SaveWrite(a) \/ SaveFails(a)
    \/ Tick(a)

Next == Logon \/ \E a \in Agent : Monitor(a) \/ Crash(a)

Spec == Init /\ [][Next]_vars

\* The service's goroutine runs on and is started again, and one of its
\* queries succeeds in the end. Nothing is assumed of other agents.
FairSpec ==
    /\ Spec
    /\ WF_vars(Monitor(Service))
    /\ SF_vars(Query(Service))

(***************************************************************************)
(* Properties                                                              *)
(***************************************************************************)
\* Every variable keeps its type; what is in hand or in the log are accepts, and
\* no cursor is ahead of the Security log.
TypeOK ==
    /\ top \in 0..MaxRecord
    /\ accepts \subseteq 1..top
    /\ pc \in [Agent -> {"down", "query", "apply", "save", "write", "idle"}]
    /\ batch \in [Agent -> SUBSET accepts]
    /\ {last, cursor, newest} \subseteq [Agent -> 0..top]
    /\ disk \in 0..top
    /\ {log, lost} \subseteq SUBSET accepts
    /\ crashes \in 0..MaxCrashes

\* One run of an agent appends records in strictly ascending order: it reports
\* no logon twice, although every poll reads the same window again, the two
\* filters of readRDPLogons and pollRDP compare with different cursors, and the
\* file may be written by another agent.
AscendingPerRun ==
    [][\A a \in Agent, k \in accepts : AppendRecord(a, k) => k > newest[a]]_vars

\* A cursor, in memory or on disk, stands at a record that was appended: an
\* empty, denied or failed query never moves it, nor does an agent that saves
\* an older cursor over a newer one or into the middle of another's write.
CursorWasLogged ==
    \A c \in {cursor[a] : a \in Agent} \cup {disk} : c # 0 => Recorded(c)

\* The latest remote-desktop logon reaches the log, whatever a second agent
\* does to the cursor file, unless a later one comes or the window moves past
\* it before a query succeeds.
LatestAcceptLogged ==
    \A k \in 1..MaxRecord :
        (k \in accepts)
            ~> (Recorded(k) \/ ~InWindow(k) \/ \E j \in accepts : j > k)

\* What README.md says: the agent polls local RDP accepts and writes them to
\* the log. So a cursor must not move past an accept that is not in it, here
\* in one run whose window holds every record.
EveryAcceptLogged ==
    \A a \in Agent : \A k \in accepts : k <= cursor[a] => Recorded(k)
=============================================================================
