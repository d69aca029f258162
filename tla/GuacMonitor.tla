----------------------------- MODULE GuacMonitor -----------------------------
(***************************************************************************)
(* The Guacamole half of the agent's connection monitor                    *)
(* (agent/accesslog.go): a goroutine that polls two history tables kept by *)
(* Guacamole in Postgres, writes one event per session start and end to an *)
(* append-only log, and keeps a cursor of what it has reported, in memory  *)
(* and in a file it saves at the end of every poll.                        *)
(*                                                                         *)
(* Around it: sessions that open and close while a poll is under way, a    *)
(* database that may be unreachable, appends and saves that fail without   *)
(* anybody noticing, and an agent that may stop between any two steps.     *)
(*                                                                         *)
(* A definition marked as a variant is a plausible slip in the definition  *)
(* it precedes; no action uses it. Putting one in its place shows that the *)
(* properties notice.                                                      *)
(***************************************************************************)
EXTENDS Naturals, Sequences, FiniteSets

CONSTANTS
    Row,        \* the history rows that may ever exist: <<table, history_id>>
    Limit,      \* the LIMIT of both queries (80 in the code)
    Piped,      \* rows with the field separator "|" in a name
    MaxLate,    \* bound: rows committed after a row with a higher id
    MaxLost,    \* bound: distinct events whose append fails
    MaxCrashes  \* bound: stops and crashes of the agent

Tables == {"conn", "login"}

ASSUME RowAssumption ==
    /\ Row \subseteq Tables \X (Nat \ {0})   \* ids come from a serial column
    /\ IsFiniteSet(Row)
ASSUME LimitAssumption == Limit \in Nat \ {0}
ASSUME PipedAssumption == Piped \subseteq Row

VARIABLES
    rows,     \* the database: "absent", "open" (no end_date) or "ended"
    late,     \* auxiliary: rows that became visible below a higher id
    pc,       \* the statement the monitor goroutine is about to execute
    fetched,  \* rows of the current poll still to apply ("absent": none)
    cursor,   \* m.cursor: the highest id reported and the sessions watched
    disk,     \* the cursor that loadCursor would return from the file
    log,      \* the lines of connections.jsonl, rotated files included
    lost,     \* auxiliary: events whose append failed
    crashes   \* auxiliary: stops and crashes so far

vars == <<rows, late, pc, fetched, cursor, disk, log, lost, crashes>>
database == <<rows, late>>
journal == <<log, lost>>

Status == {"absent", "open", "ended"}
Place == {"down", "connQuery", "loginQuery", "conn", "login",
          "save", "write", "idle"}
Cursor == [last : [Tables -> Nat], open : SUBSET Row]
ZeroCursor == [last |-> [t \in Tables |-> 0], open |-> {}]
NothingFetched == [r \in Row |-> "absent"]

Started(r) == [kind |-> "start", row |-> r]
Ended(r) == [kind |-> "end", row |-> r]
AgentStarted == [kind |-> "agent"]
Event == [kind : {"start", "end"}, row : Row] \cup {AgentStarted}

(***************************************************************************)
(* The database                                                            *)
(***************************************************************************)
Visible(r) == rows[r] # "absent"
Newer(r) == {s \in Row : s[1] = r[1] /\ s[2] > r[2] /\ Visible(s)}

\* Variant: one row too few.
InWindowShort(r) == Visible(r) /\ Cardinality(Newer(r)) + 1 < Limit

\* ORDER BY history_id DESC LIMIT 80
InWindow(r) == Visible(r) /\ Cardinality(Newer(r)) < Limit

\* History ids come from a sequence, but a row becomes visible when its
\* transaction commits, possibly after a row that drew a higher id.
OpenSession(r) ==
    /\ rows[r] = "absent"
    /\ rows' = [rows EXCEPT ![r] = "open"]
    /\ \/ /\ Newer(r) = {}
          /\ UNCHANGED late
       \/ /\ Newer(r) # {}
          /\ Cardinality(late) < MaxLate
          /\ late' = late \cup {r}
    /\ UNCHANGED <<pc, fetched, cursor, disk, journal, crashes>>

CloseSession(r) ==
    /\ rows[r] = "open"
    /\ rows' = [rows EXCEPT ![r] = "ended"]
    /\ UNCHANGED <<late, pc, fetched, cursor, disk, journal, crashes>>

(***************************************************************************)
(* The log: append ignores every error, and its callers cannot tell.       *)
(***************************************************************************)
AppendEvent(e) ==
    \/ /\ log' = Append(log, e)
       /\ UNCHANGED lost
    \/ /\ Cardinality(lost \cup {e}) <= MaxLost
       /\ lost' = lost \cup {e}
       /\ UNCHANGED log

(***************************************************************************)
(* One poll                                                                *)
(***************************************************************************)
\* The row is split at every "|", so that a separator in a name shifts the
\* columns: the end column of such a row is never empty. The parser also drops
\* what has too few columns or no id; of what these queries print, that is a
\* row cut in two by a line break in a name, which is not modelled.
Parsed(r) == IF r \in Piped THEN "ended" ELSE rows[r]

Result(r) == IF InWindow(r) THEN Parsed(r) ELSE "absent"
Fetch(t) == [r \in Row |-> IF r[1] = t THEN Result(r) ELSE fetched[r]]

QueryConnections ==
    /\ pc = "connQuery"
    /\ fetched' = Fetch("conn")
    /\ pc' = "loginQuery"
    /\ UNCHANGED <<database, cursor, disk, journal, crashes>>

QueryLogins ==
    /\ pc = "loginQuery"
    /\ fetched' = Fetch("login")
    /\ pc' = "conn"
    /\ UNCHANGED <<database, cursor, disk, journal, crashes>>

\* Either query failing abandons both results; the poll goes on to its save.
QueryFails ==
    /\ pc \in {"connQuery", "loginQuery"}
    /\ fetched' = NothingFetched
    /\ pc' = "save"
    /\ UNCHANGED <<database, cursor, disk, journal, crashes>>

\* Variant: the result is applied as the query returns it, newest first.
IsNextUnreversed(r) ==
    /\ r[1] = pc
    /\ fetched[r] # "absent"
    /\ \A s \in Row : s[1] = pc /\ fetched[s] # "absent" => s[2] <= r[2]

\* Rows are applied in ascending order: the result is reversed after parsing.
IsNext(r) ==
    /\ r[1] = pc
    /\ fetched[r] # "absent"
    /\ \A s \in Row : s[1] = pc /\ fetched[s] # "absent" => r[2] <= s[2]

\* Variants: >= for >, a strict bound off by one, and # for >.
IsNewOrLast(r) == r[2] >= cursor.last[r[1]]
IsNewByTwo(r) == r[2] > cursor.last[r[1]] + 1
IsNotLast(r) == r[2] # cursor.last[r[1]]

IsNew(r) == r[2] > cursor.last[r[1]]

\* Variants: nothing is watched, and the key is made before the id is parsed.
WatchingNothing(r) == cursor.open
WatchingZero(r) == IF fetched[r] = "open"
                     THEN cursor.open \cup {<<r[1], 0>>} ELSE cursor.open

Watching(r) == IF fetched[r] = "open" THEN cursor.open \cup {r} ELSE cursor.open

ReportStart(r) ==
    /\ IsNext(r)
    /\ IsNew(r)
    /\ AppendEvent(Started(r))
    /\ cursor' = [last |-> [cursor.last EXCEPT ![r[1]] = r[2]],
                  open |-> Watching(r)]
    /\ UNCHANGED <<database, pc, fetched, disk, crashes>>

\* Variants: any watched row ends, and a row ends only when first reported.
EndsIfWatched(r) == r \in cursor.open
EndsIfNew(r) == fetched[r] = "ended" /\ r \in cursor.open /\ IsNew(r)

EndsNow(r) == fetched[r] = "ended" /\ r \in cursor.open

\* Variants: the entry is not deleted, and it is deleted with every row.
SettledKept(r) == cursor.open
SettledAlways(r) == cursor.open \ {r}

\* What becomes of the watched set once a row that is not new is applied:
\* applyGuacConnections watches every open row again, applyGuacLogins does not.
Settled(r) ==
    CASE EndsNow(r) -> cursor.open \ {r}
      [] r[1] = "conn" /\ ~EndsNow(r) -> Watching(r)
      [] OTHER -> cursor.open

SettleRow(r) ==
    /\ IsNext(r)
    /\ ~IsNew(r)
    /\ IF EndsNow(r) THEN AppendEvent(Ended(r)) ELSE UNCHANGED journal
    /\ cursor' = [cursor EXCEPT !.open = Settled(r)]
    /\ fetched' = [fetched EXCEPT ![r] = "absent"]
    /\ UNCHANGED <<database, pc, disk, crashes>>

AllApplied == \A r \in Row : r[1] = pc => fetched[r] = "absent"

TableDone ==
    /\ \/ pc = "conn" /\ pc' = "login"
       \/ pc = "login" /\ pc' = "save"
    /\ AllApplied
    /\ UNCHANGED <<database, fetched, cursor, disk, journal, crashes>>

(***************************************************************************)
(* Saving the cursor: os.WriteFile truncates the file and then writes it.  *)
(* A file that is missing, empty or cut short loads as the zero cursor.    *)
(***************************************************************************)
SaveTruncate ==
    /\ pc = "save"
    /\ disk' = ZeroCursor
    /\ pc' = "write"
    /\ UNCHANGED <<database, fetched, cursor, journal, crashes>>

SaveWrite ==
    /\ pc = "write"
    /\ disk' = cursor
    /\ pc' = "idle"
    /\ UNCHANGED <<database, fetched, cursor, journal, crashes>>

\* The file cannot be opened (it keeps what it had) or, once truncated,
\* cannot be written; poll ignores the error.
SaveFails ==
    /\ pc \in {"save", "write"}
    /\ pc' = "idle"
    /\ UNCHANGED <<database, fetched, cursor, disk, journal, crashes>>

Tick ==
    /\ pc = "idle"
    /\ pc' = "connQuery"
    /\ UNCHANGED <<database, fetched, cursor, disk, journal, crashes>>

(***************************************************************************)
(* Stopping and starting: a service stop ends the process as a crash does. *)
(***************************************************************************)
Crash ==
    /\ pc # "down"
    /\ crashes < MaxCrashes
    /\ crashes' = crashes + 1
    /\ pc' = "down"
    /\ fetched' = NothingFetched
    /\ cursor' = ZeroCursor
    /\ UNCHANGED <<database, disk, journal>>

Boot ==
    /\ pc = "down"
    /\ cursor' = disk
    /\ AppendEvent(AgentStarted)
    /\ pc' = "connQuery"
    /\ UNCHANGED <<database, fetched, disk, crashes>>

Init ==
    /\ rows = NothingFetched
    /\ late = {}
    /\ pc = "down"
    /\ fetched = NothingFetched
    /\ cursor = ZeroCursor
    /\ disk = ZeroCursor
    /\ log = <<>>
    /\ lost = {}
    /\ crashes = 0

Environment == \E r \in Row : OpenSession(r) \/ CloseSession(r)

Monitor ==
    \/ Boot
    \/ QueryConnections \/ QueryLogins \/ QueryFails
    \/ \E r \in Row : ReportStart(r) \/ SettleRow(r)
    \/ TableDone
    \/ SaveTruncate \/ SaveWrite \/ SaveFails
    \/ Tick

Next == Environment \/ Monitor \/ Crash

Spec == Init /\ [][Next]_vars

\* The goroutine keeps running, the service is started again after a stop
\* (it is installed with an automatic start), and the database answers again
\* and again. Sessions, failures and stops are nobody's obligation.
Fairness ==
    /\ WF_vars(Monitor)
    /\ SF_vars(QueryConnections)
    /\ SF_vars(QueryLogins)

FairSpec == Spec /\ Fairness

(***************************************************************************)
(* Properties                                                              *)
(***************************************************************************)
\* Every variable keeps its type; in particular the cursors hold rows and ids.
TypeOK ==
    /\ rows \in [Row -> Status]
    /\ late \in SUBSET Row
    /\ pc \in Place
    /\ fetched \in [Row -> Status]
    /\ cursor \in Cursor
    /\ disk \in Cursor
    /\ log \in Seq(Event)
    /\ lost \in SUBSET Event
    /\ crashes \in Nat

Logged(e) == \E i \in 1..Len(log) : log[i] = e
Recorded(e) == Logged(e) \/ e \in lost

\* A cursor skips the rows at or below its highest id: ReportStart is never
\* taken for them again.
Skips(c, r) == r[2] <= c.last[r[1]]

\* No session is skipped unreported: a cursor, in memory or on disk, that has
\* moved past a row the queries still return has had its start appended. Only
\* a row committed out of order can be passed by unseen. (accesslog.go relies
\* on this when it compares r.ID with one number instead of keeping a set,
\* and reverses the DESC result before applying it.)
PassedRowsRecorded ==
    \A c \in {cursor, disk}, r \in Row :
        InWindow(r) /\ Skips(c, r) /\ r \notin late => Recorded(Started(r))

\* An open session that a cursor skips is in its watched set: otherwise its
\* end would find no entry and never be written, not even after a restart
\* from the saved cursor.
OpenSessionsWatched ==
    \A c \in {cursor, disk}, r \in Row \ (Piped \cup late) :
        rows[r] = "open" /\ InWindow(r) /\ Skips(c, r) => r \in c.open

\* The log never shows a session ending that it did not show starting,
\* whatever the restarts and failed saves in between; an end is written from
\* the watched set alone, so the set must never hold an unreported session.
EndsFollowStarts ==
    \A r \in Row \ late, i \in 1..Len(log) :
        log[i] = Ended(r) =>
            \/ \E j \in 1..(i - 1) : log[j] = Started(r)
            \/ Started(r) \in lost

\* An end in the log is the end of a session that has ended, although it is
\* decided from a query result that is already old, and although a shifted
\* row looks ended while its session is open.
EndsAreReal == \A r \in Row : Logged(Ended(r)) => rows[r] = "ended"

\* Between two equal lines there is a restart of the agent: one run of the
\* agent reports a start, and an end, at most once, although every poll reads
\* the same rows again.
AtMostOncePerRun ==
    \A i, j \in 1..Len(log) :
        i < j /\ log[i] = log[j] =>
            \/ \E k \in i..j : log[k] = AgentStarted
            \/ AgentStarted \in lost

\* While the agent runs its cursor only moves forward, and a session leaves
\* the watched set only when its end is reported.
CursorAdvances ==
    [][pc # "down" /\ pc' # "down" =>
        /\ \A t \in Tables : cursor.last[t] <= cursor'.last[t]
        /\ \A r \in cursor.open \ cursor'.open :
               \/ log' = Append(log, Ended(r))
               \/ Ended(r) \in lost']_vars

\* Every session the queries can return is reported in the end, through any
\* number of failed queries and saves and any restarts, unless the window
\* moves on before a query succeeds or the row was committed out of order.
SessionsGetReported ==
    \A r \in Row :
        Visible(r) ~> (Recorded(Started(r)) \/ ~InWindow(r) \/ r \in late)

\* The end of a watched session is reported, unless the agent stops first
\* (the watched set it saved may be older) or the row leaves the window.
WatchedEndsGetReported ==
    \A r \in Row :
        (rows[r] = "ended" /\ r \in cursor.open)
            ~> (Recorded(Ended(r)) \/ ~InWindow(r) \/ pc = "down")

\* The monitor keeps the promise of AuditTrail: what it has passed and watches
\* is its cursor, and the saved one while it is stopped.
Known == IF pc = "down" THEN disk ELSE cursor
Trail == INSTANCE AuditTrail WITH
    Session <- Row,
    status  <- rows,
    up      <- pc # "down",
    passed  <- {r \in Row : Skips(Known, r)},
    watched <- Known.open,
    trail   <- log

\* Every behaviour of the monitor is one of AuditTrail: in particular it never
\* reports a start for a session its cursor skips, an end for a session it
\* does not watch, or anything while stopped, and a restart only forgets.
ImplementsAuditTrail == Trail!Spec

=============================================================================
