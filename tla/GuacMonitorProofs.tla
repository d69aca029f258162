-------------------------- MODULE GuacMonitorProofs --------------------------
(***************************************************************************)
(* Theorems about GuacMonitor and its history of polls, GuacPace, for      *)
(* every set of rows, every window size and every number of late rows,     *)
(* lost appends and stops.                                                 *)
(***************************************************************************)
EXTENDS GuacPace, FiniteSetTheorems, TLAPS

(***************************************************************************)
(* Type correctness                                                        *)
(***************************************************************************)
\* A row names its table and has a positive id.
LEMMA RowType == \A r \in Row : r[1] \in Tables /\ r[2] \in Nat \ {0}
BY RowAssumption

\* The parts of a cursor have the types its users rely on.
LEMMA CursorType ==
    ASSUME NEW c \in Cursor
    PROVE  /\ c.last \in [Tables -> Nat]
           /\ c.open \in SUBSET Row
BY DEF Cursor

\* The cursor of an agent that could load none is a cursor.
LEMMA ZeroCursorType == ZeroCursor \in Cursor
BY DEF ZeroCursor, Cursor

\* A poll with nothing in hand is a possible query result.
LEMMA NothingFetchedType == NothingFetched \in [Row -> Status]
BY DEF NothingFetched, Status

\* Everything the monitor appends is an event.
LEMMA EventType ==
    /\ AgentStarted \in Event
    /\ \A r \in Row : Started(r) \in Event /\ Ended(r) \in Event
BY DEF Event, AgentStarted, Started, Ended

\* Appending, whether it succeeds or not, keeps the log a log of events.
LEMMA AppendType ==
    ASSUME NEW e \in Event, AppendEvent(e),
           log \in Seq(Event), lost \in SUBSET Event
    PROVE  log' \in Seq(Event) /\ lost' \in SUBSET Event
BY DEF AppendEvent

\* The types of every variable are kept by every step of the monitor, of the
\* database around it, and by every stop.
THEOREM TypeCorrect == Spec => []TypeOK
<1>1. Init => TypeOK
  BY ZeroCursorType, NothingFetchedType DEF Init, TypeOK, Place
<1>2. TypeOK /\ [Next]_vars => TypeOK'
  <2> SUFFICES ASSUME TypeOK, [Next]_vars PROVE TypeOK'
    OBVIOUS
  <2> USE DEF TypeOK
  <2>1. ASSUME NEW r \in Row, OpenSession(r) PROVE TypeOK'
    BY <2>1 DEF OpenSession, Status, journal
  <2>2. ASSUME NEW r \in Row, CloseSession(r) PROVE TypeOK'
    BY <2>2 DEF CloseSession, Status, journal
  <2>3. CASE Boot
    BY <2>3, AppendType, EventType DEF Boot, Place, database
  <2>4. ASSUME NEW t \in Tables PROVE Fetch(t) \in [Row -> Status]
    BY DEF Fetch, Result, Parsed, Status
  <2>5. CASE QueryConnections
    BY <2>4, <2>5 DEF QueryConnections, Place, Tables, database, journal
  <2>6. CASE QueryLogins
    BY <2>4, <2>6 DEF QueryLogins, Place, Tables, database, journal
  <2>7. CASE QueryFails
    BY <2>7, NothingFetchedType DEF QueryFails, Place, database, journal
  <2>8. ASSUME NEW r \in Row, ReportStart(r) PROVE TypeOK'
    <3>1. cursor' \in Cursor
      BY <2>8, RowType, CursorType DEF ReportStart, Cursor, Watching
    <3>2. log' \in Seq(Event) /\ lost' \in SUBSET Event
      BY <2>8, AppendType, EventType DEF ReportStart
    <3> QED
      BY <2>8, <3>1, <3>2 DEF ReportStart, database
  <2>9. ASSUME NEW r \in Row, SettleRow(r) PROVE TypeOK'
    <3>1. cursor' \in Cursor
      <4>1. Settled(r) \in SUBSET Row
        BY CursorType DEF Settled, Watching
      <4> QED
        BY <2>9, <4>1, CursorType DEF SettleRow, Cursor
    <3>2. log' \in Seq(Event) /\ lost' \in SUBSET Event
      BY <2>9, AppendType, EventType DEF SettleRow, journal
    <3>3. fetched' \in [Row -> Status]
      BY <2>9 DEF SettleRow, Status
    <3> QED
      BY <2>9, <3>1, <3>2, <3>3 DEF SettleRow, database
  <2>10. CASE TableDone
    BY <2>10 DEF TableDone, Place, database, journal
  <2>11. CASE SaveTruncate
    BY <2>11, ZeroCursorType DEF SaveTruncate, Place, database, journal
  <2>12. CASE SaveWrite
    BY <2>12 DEF SaveWrite, Place, database, journal
  <2>13. CASE SaveFails
    BY <2>13 DEF SaveFails, Place, database, journal
  <2>14. CASE Tick
    BY <2>14 DEF Tick, Place, database, journal
  <2>15. CASE Crash
    BY <2>15, ZeroCursorType, NothingFetchedType
       DEF Crash, Place, database, journal
  <2>16. CASE UNCHANGED vars
    BY <2>16 DEF vars, database, journal
  <2> QED
    BY <2>1, <2>2, <2>3, <2>5, <2>6, <2>7, <2>8, <2>9, <2>10, <2>11, <2>12,
       <2>13, <2>14, <2>15, <2>16 DEF Next, Environment, Monitor
<1> QED
  BY <1>1, <1>2, PTL DEF Spec

(***************************************************************************)
(* The window                                                              *)
(***************************************************************************)
\* Rows never disappear, an ended session never reopens, and a row stays late.
LEMMA DatabaseMonotonic ==
    ASSUME TypeOK, [Next]_vars, NEW r \in Row
    PROVE  /\ Visible(r) => Visible(r)'
           /\ rows[r] = "ended" => rows'[r] = "ended"
           /\ rows'[r] = "open" /\ Visible(r) => rows[r] = "open"
           /\ r \in late => r \in late'
<1>1. CASE Environment
  BY <1>1 DEF Environment, OpenSession, CloseSession, TypeOK, Visible
<1>2. CASE UNCHANGED database
  BY <1>2 DEF database, Visible
<1>3. Monitor \/ Crash => UNCHANGED database
  BY DEF Monitor, Boot, QueryConnections, QueryLogins, QueryFails, ReportStart,
         SettleRow, TableDone, SaveTruncate, SaveWrite, SaveFails, Tick, Crash
<1> QED
  BY <1>1, <1>2, <1>3 DEF Next, vars, database

\* The window only moves on: a row that was visible but outside it stays
\* outside, because the rows newer than it only grow.
LEMMA WindowMovesOn ==
    ASSUME TypeOK, [Next]_vars, NEW r \in Row, Visible(r), InWindow(r)'
    PROVE  InWindow(r)
<1>1. Newer(r) \subseteq Newer(r)'
  BY DatabaseMonotonic DEF Newer
<1>2. IsFiniteSet(Newer(r)')
  BY RowAssumption, FS_Subset DEF Newer
<1>3. /\ Cardinality(Newer(r)) \in Nat
      /\ Cardinality(Newer(r)') \in Nat
      /\ Cardinality(Newer(r)) <= Cardinality(Newer(r)')
  BY <1>1, <1>2, FS_Subset, FS_CardinalityType
<1> QED
  BY <1>3, LimitAssumption DEF InWindow

\* A row that appears below a visible one is late from its first moment.
LEMMA NewRowIsNewest ==
    ASSUME TypeOK, [Next]_vars, NEW r \in Row, NEW s \in Row,
           ~Visible(s), Visible(s)', s \notin late',
           Visible(r), r[1] = s[1]
    PROVE  r[2] <= s[2]
<1>1. PICK o \in Row : OpenSession(o) \/ CloseSession(o)
  <2>1. ~UNCHANGED rows
    BY DEF Visible
  <2>2. Monitor \/ Crash => UNCHANGED rows
    BY DEF Monitor, Boot, QueryConnections, QueryLogins, QueryFails, ReportStart,
           SettleRow, TableDone, SaveTruncate, SaveWrite, SaveFails, Tick, Crash,
           database
  <2> QED
    BY <2>1, <2>2 DEF Next, Environment, vars
<1>2. OpenSession(s)
  BY <1>1 DEF OpenSession, CloseSession, Visible, TypeOK
<1>3. Newer(s) = {}
  BY <1>2 DEF OpenSession
<1> QED
  BY <1>3, RowType DEF Newer

(***************************************************************************)
(* The log                                                                 *)
(***************************************************************************)
\* What is recorded stays recorded: the log and the losses only grow.
LEMMA RecordedStays ==
    ASSUME TypeOK, [Next]_vars, NEW e, Recorded(e)
    PROVE  Recorded(e)'
<1>1. ASSUME NEW f, AppendEvent(f) PROVE Recorded(e)'
  BY <1>1 DEF AppendEvent, Recorded, Logged, TypeOK
<1>2. CASE UNCHANGED journal
  BY <1>2 DEF journal, Recorded, Logged
<1> QED
  BY <1>1, <1>2
  DEF Next, Environment, Monitor, vars, OpenSession, CloseSession, Boot,
      QueryConnections, QueryLogins, QueryFails, ReportStart, SettleRow,
      TableDone, SaveTruncate, SaveWrite, SaveFails, Tick, Crash, journal

\* A log line is either an old one or the event being appended.
LEMMA AppendedLines ==
    ASSUME TypeOK, NEW e, AppendEvent(e)
    PROVE  /\ Recorded(e)'
           /\ Len(log') >= Len(log)
           /\ \A i \in 1..Len(log) : log'[i] = log[i]
           /\ \A i \in 1..Len(log') :
                  i \notin 1..Len(log) => log'[i] = e /\ i = Len(log) + 1
BY DEF AppendEvent, Recorded, Logged, TypeOK


(***************************************************************************)
(* What the rows of a poll and the watched sets may be                     *)
(***************************************************************************)
\* A query result is old while it is applied, but it is never wrong about a
\* session that it shows ended, unless the row was shifted.
FetchedTrue ==
    \A r \in Row :
        /\ fetched[r] # "absent" => Visible(r)
        /\ fetched[r] = "ended" /\ r \notin Piped => rows[r] = "ended"
        /\ r \in Piped => fetched[r] # "open"

\* A shifted row is never watched, and only a row the cursor skips is.
WatchedSane ==
    \A c \in {cursor, disk} :
        /\ c.open \cap Piped = {}
        /\ \A r \in c.open : Skips(c, r)

\* The highest id reported is that of a row of the database: the cursor is
\* never ahead of the history it reads.
CursorSeen ==
    \A c \in {cursor, disk}, t \in Tables :
        c.last[t] # 0 => \E r \in Row : Visible(r) /\ r = <<t, c.last[t]>>

\* An agent starts with no rows in hand.
StartsEmpty == pc = "down" => fetched = NothingFetched

Views == FetchedTrue /\ WatchedSane /\ CursorSeen /\ StartsEmpty

\* What is in hand stays true of the database, however old it grows.
LEMMA FetchedTrueStep ==
    ASSUME TypeOK, FetchedTrue, [Next]_vars
    PROVE  FetchedTrue'
<1>1. ASSUME NEW r \in Row
      PROVE  /\ Visible(r) => Visible(r)'
             /\ rows[r] = "ended" => rows'[r] = "ended"
  BY DatabaseMonotonic DEF Visible
<1>2. CASE UNCHANGED fetched
  BY <1>1, <1>2 DEF FetchedTrue
<1>3. CASE fetched' = NothingFetched
  BY <1>1, <1>3 DEF FetchedTrue, NothingFetched
<1>4. ASSUME NEW t \in Tables, fetched' = Fetch(t), UNCHANGED rows
      PROVE  FetchedTrue'
  BY <1>1, <1>4 DEF FetchedTrue, Fetch, Result, Parsed, InWindow, Visible
<1>5. ASSUME NEW r \in Row, SettleRow(r) PROVE FetchedTrue'
  BY <1>1, <1>5 DEF FetchedTrue, SettleRow, TypeOK
<1> QED
  BY <1>2, <1>3, <1>4, <1>5
  DEF Next, Environment, Monitor, vars, OpenSession, CloseSession, Boot,
      QueryConnections, QueryLogins, QueryFails, ReportStart, TableDone,
      SaveTruncate, SaveWrite, SaveFails, Tick, Crash, Tables, database

\* Every step keeps what is said of the two watched sets.
LEMMA WatchedSaneStep ==
    ASSUME TypeOK, FetchedTrue, WatchedSane, [Next]_vars
    PROVE  WatchedSane'
<1> USE DEF WatchedSane, Skips
<1>1. CASE UNCHANGED <<cursor, disk>>
  BY <1>1
<1>2. /\ ZeroCursor.open = {}
      /\ TypeOK => cursor \in Cursor /\ disk \in Cursor
  BY DEF ZeroCursor, TypeOK
<1>3. CASE Boot
  BY <1>3 DEF Boot
<1>4. CASE SaveTruncate
  BY <1>2, <1>4 DEF SaveTruncate
<1>5. CASE SaveWrite
  BY <1>5 DEF SaveWrite
<1>6. CASE Crash
  BY <1>2, <1>6 DEF Crash
<1>7. ASSUME NEW r \in Row, ReportStart(r) PROVE WatchedSane'
  <2>1. /\ cursor'.last = [cursor.last EXCEPT ![r[1]] = r[2]]
        /\ cursor'.open = Watching(r)
        /\ disk' = disk
    BY <1>7 DEF ReportStart
  <2>2. \A s \in Row : s[2] <= cursor.last[s[1]] => s[2] <= cursor'.last[s[1]]
    BY <1>2, <1>7, <2>1, RowType, CursorType DEF ReportStart, IsNew
  <2>3. r[2] <= cursor'.last[r[1]]
    BY <1>2, <2>1, RowType, CursorType
  <2>4. Watching(r) \cap Piped = {}
    BY DEF Watching, FetchedTrue
  <2>5. \A s \in Watching(r) : s \in cursor.open \/ s = r
    BY DEF Watching
  <2> QED
    BY <1>2, <2>1, <2>2, <2>3, <2>4, <2>5, CursorType
<1>8. ASSUME NEW r \in Row, SettleRow(r) PROVE WatchedSane'
  <2>1. /\ cursor'.last = cursor.last
        /\ cursor'.open = Settled(r)
        /\ disk' = disk
    BY <1>2, <1>8 DEF SettleRow, Cursor
  <2>2. r[2] <= cursor.last[r[1]]
    BY <1>2, <1>8, RowType, CursorType DEF SettleRow, IsNew
  <2>3. Settled(r) \cap Piped = {}
    BY DEF Settled, Watching, FetchedTrue
  <2>4. \A s \in Settled(r) : s \in cursor.open \/ s = r
    BY DEF Settled, Watching
  <2> QED
    BY <2>1, <2>2, <2>3, <2>4
<1> QED
  BY <1>1, <1>3, <1>4, <1>5, <1>6, <1>7, <1>8
  DEF Next, Environment, Monitor, vars, OpenSession, CloseSession,
      QueryConnections, QueryLogins, QueryFails, TableDone, SaveFails, Tick

\* Every step leaves the cursor at ids that have been visible.
LEMMA CursorSeenStep ==
    ASSUME TypeOK, FetchedTrue, CursorSeen, [Next]_vars
    PROVE  CursorSeen'
<1>1. \A r \in Row : Visible(r) => Visible(r)'
  BY DatabaseMonotonic
<1>2. ASSUME cursor' \in {cursor, disk, ZeroCursor},
             disk' \in {cursor, disk, ZeroCursor}
      PROVE  CursorSeen'
  BY <1>1, <1>2 DEF CursorSeen, ZeroCursor
<1>3. ASSUME NEW r \in Row, ReportStart(r) PROVE CursorSeen'
  <2>1. /\ cursor'.last = [cursor.last EXCEPT ![r[1]] = r[2]]
        /\ disk' = disk
        /\ Visible(r)'
    BY <1>1, <1>3 DEF ReportStart, IsNext, FetchedTrue
  <2>2. r = <<r[1], r[2]>> /\ r[1] \in Tables
    BY RowAssumption
  <2> QED
    BY <1>1, <2>1, <2>2, CursorType DEF CursorSeen, TypeOK
<1>4. ASSUME NEW r \in Row, SettleRow(r) PROVE CursorSeen'
  <2>1. cursor'.last = cursor.last /\ disk' = disk
    BY <1>4 DEF SettleRow, TypeOK, Cursor
  <2> QED
    BY <1>1, <2>1 DEF CursorSeen
<1> QED
  BY <1>2, <1>3, <1>4
  DEF Next, Environment, Monitor, vars, OpenSession, CloseSession, Boot,
      QueryConnections, QueryLogins, QueryFails, TableDone,
      SaveTruncate, SaveWrite, SaveFails, Tick, Crash

\* No step leaves a stopped agent with rows in hand.
LEMMA StartsEmptyStep ==
    ASSUME StartsEmpty, [Next]_vars
    PROVE  StartsEmpty'
<1>1. CASE Crash
  BY <1>1 DEF Crash, StartsEmpty
<1>2. CASE Environment \/ UNCHANGED vars
  BY <1>2 DEF StartsEmpty, Environment, vars, OpenSession, CloseSession
<1>3. CASE \E r \in Row : ReportStart(r) \/ SettleRow(r)
  BY <1>3, RowType
  DEF StartsEmpty, ReportStart, SettleRow, IsNext, Tables
<1>4. Monitor => \/ pc' # "down"
                 \/ \E r \in Row : ReportStart(r) \/ SettleRow(r)
  BY DEF Monitor, Boot, QueryConnections, QueryLogins, QueryFails, TableDone,
         SaveTruncate, SaveWrite, SaveFails, Tick
<1> QED
  BY <1>1, <1>2, <1>3, <1>4 DEF Next, StartsEmpty

\* What the agent believes of the database was true of it at some time.
LEMMA ViewsHold == Spec => []Views
<1>1. Init => Views
  BY DEF Init, Views, FetchedTrue, WatchedSane, CursorSeen, StartsEmpty,
         NothingFetched, ZeroCursor
<1>2. TypeOK /\ Views /\ [Next]_vars => Views'
  BY FetchedTrueStep, WatchedSaneStep, CursorSeenStep, StartsEmptyStep DEF Views
<1> QED
  BY <1>1, <1>2, TypeCorrect, PTL DEF Spec


(***************************************************************************)
(* Ends are real                                                           *)
(***************************************************************************)
\* No step writes an end of a session that is still open.
LEMMA EndsAreRealStep ==
    ASSUME TypeOK, Views, EndsAreReal, [Next]_vars
    PROVE  EndsAreReal'
<1> SUFFICES ASSUME NEW r \in Row, Logged(Ended(r))'
             PROVE  rows'[r] = "ended"
  BY DEF EndsAreReal
<1>1. CASE Logged(Ended(r))
  BY <1>1, DatabaseMonotonic DEF EndsAreReal
<1>2. ASSUME NEW e, AppendEvent(e), ~Logged(Ended(r))
      PROVE  e = Ended(r)
  BY <1>2, AppendedLines DEF Logged
<1>3. CASE ~Logged(Ended(r)) /\ Boot
  <2>1. AgentStarted # Ended(r)
    BY DEF AgentStarted, Ended
  <2> QED
    BY <1>2, <1>3, <2>1 DEF Boot
<1>4. ASSUME NEW s \in Row, ReportStart(s), ~Logged(Ended(r))
      PROVE  FALSE
  <2>1. Started(s) # Ended(r)
    BY DEF Started, Ended
  <2> QED
    BY <1>2, <1>4, <2>1 DEF ReportStart
<1>5. ASSUME NEW s \in Row, SettleRow(s), ~Logged(Ended(r))
      PROVE  rows'[r] = "ended"
  <2>1. EndsNow(s) /\ AppendEvent(Ended(s))
    BY <1>5 DEF SettleRow, journal, Logged
  <2>2. s = r
    BY <1>2, <1>5, <2>1 DEF Ended
  <2>3. rows[s] = "ended"
    BY <2>1 DEF EndsNow, Views, FetchedTrue, WatchedSane
  <2> QED
    BY <2>2, <2>3, DatabaseMonotonic
<1>6. CASE UNCHANGED log
  BY <1>1, <1>6 DEF Logged
<1> QED
  BY <1>1, <1>3, <1>4, <1>5, <1>6
  DEF Next, Environment, Monitor, vars, journal, OpenSession, CloseSession,
      QueryConnections, QueryLogins, QueryFails, TableDone, SaveTruncate,
      SaveWrite, SaveFails, Tick, Crash

\* No line of the log says that a session ended which is still open: not when
\* the result being applied is old, not for a row whose columns are shifted,
\* not after restarts from any saved cursor.
THEOREM NoFalseEnds == Spec => []EndsAreReal
<1>1. Init => EndsAreReal
  BY DEF Init, EndsAreReal, Logged
<1>2. TypeOK /\ Views /\ EndsAreReal /\ [Next]_vars => EndsAreReal'
  BY EndsAreRealStep
<1> QED
  BY <1>1, <1>2, TypeCorrect, ViewsHold, PTL DEF Spec

(***************************************************************************)
(* No session is passed unreported                                         *)
(*                                                                         *)
(* PassedRowsRecorded is not inductive: that nothing is missed between the *)
(* old cursor and the next row depends on what the rest of the poll holds. *)
(***************************************************************************)
\* Below a fetched row, every row of the window is in the same result, unless
\* it has been applied already; or it is late.
SnapshotComplete ==
    \A r, s \in Row :
        /\ fetched[r] # "absent"
        /\ s[1] = r[1]
        /\ s[2] <= r[2]
        /\ InWindow(s)
        /\ s \notin late
        => fetched[s] # "absent" \/ Skips(cursor, s)

\* A fetched row that the cursor already skips has been recorded: it may leave
\* the window before it is settled.
FetchedRecorded ==
    \A r \in Row \ late :
        fetched[r] # "absent" /\ Skips(cursor, r) => Recorded(Started(r))

\* Only recorded sessions are watched, but for late ones.
WatchedRecorded ==
    \A c \in {cursor, disk} : \A r \in c.open \ late : Recorded(Started(r))

Passing ==
    /\ PassedRowsRecorded
    /\ SnapshotComplete
    /\ FetchedRecorded
    /\ WatchedRecorded
    /\ OpenSessionsWatched

\* The zero cursor, as loaded from a torn file, skips no row.
LEMMA ZeroSkipsNothing == \A r \in Row : ~Skips(ZeroCursor, r)
BY RowType DEF ZeroCursor, Skips

\* In one report, the cursor passes a single row of the window.
LEMMA OneRowPassed ==
    ASSUME TypeOK, FetchedTrue, SnapshotComplete,
           NEW r \in Row, ReportStart(r),
           NEW s \in Row \ late, InWindow(s), ~Skips(cursor, s),
           Skips(cursor', s)
    PROVE  s = r
<1>1. cursor'.last = [cursor.last EXCEPT ![r[1]] = r[2]]
  BY DEF ReportStart
<1>2. cursor \in Cursor
  BY DEF TypeOK
<1>3. s[1] = r[1] /\ s[2] <= r[2]
  BY <1>1, <1>2, RowType, CursorType DEF Skips
<1>4. fetched[r] # "absent" /\ r[1] = pc
  BY DEF ReportStart, IsNext
<1>5. fetched[s] # "absent"
  BY <1>3, <1>4 DEF SnapshotComplete
<1>6. r[2] <= s[2]
  BY <1>3, <1>4, <1>5 DEF ReportStart, IsNext
<1>7. r[2] = s[2]
  BY <1>3, <1>6, RowType
<1> QED
  BY <1>3, <1>7, RowAssumption


\* A row that has just become visible in order is above every cursor.
LEMMA NewRowNotSkipped ==
    ASSUME TypeOK, CursorSeen, [Next]_vars, NEW c \in {cursor, disk},
           NEW s \in Row, ~Visible(s), Visible(s)', s \notin late'
    PROVE  ~Skips(c, s)
<1> SUFFICES ASSUME Skips(c, s) PROVE FALSE
  OBVIOUS
<1>1. c.last[s[1]] \in Nat /\ s[1] \in Tables /\ s[2] \in Nat \ {0}
  BY RowType, CursorType DEF TypeOK
<1>2. PICK r \in Row : Visible(r) /\ r = <<s[1], c.last[s[1]]>>
  BY <1>1 DEF CursorSeen, Skips
<1>3. r[1] = s[1] /\ r[2] = c.last[s[1]]
  BY <1>2
<1>4. r[2] <= s[2] /\ s[2] <= r[2]
  BY <1>2, <1>3, NewRowIsNewest DEF Skips
<1>5. r = s
  BY <1>1, <1>3, <1>4, RowAssumption
<1> QED
  BY <1>2, <1>5

\* The part of Passing that the database disturbs.
LEMMA PassingEnvironment ==
    ASSUME TypeOK, Views, Passing, Environment
    PROVE  Passing'
<1>1. [Next]_vars /\ UNCHANGED <<fetched, cursor, disk, journal>>
  BY DEF Next, Environment, OpenSession, CloseSession
<1>2. \A e : Recorded(e) => Recorded(e)'
  BY <1>1, RecordedStays
<1>3. ASSUME NEW s \in Row, InWindow(s)', s \notin late'
      PROVE  /\ s \notin late
             /\ Visible(s) => InWindow(s)
             /\ ~Visible(s) => \A c \in {cursor, disk} : ~Skips(c, s)
             /\ ~Visible(s) => \A r \in Row :
                    fetched[r] # "absent" /\ r[1] = s[1] => r[2] <= s[2]
  <2>1. s \notin late
    BY <1>1, <1>3, DatabaseMonotonic
  <2>2. Visible(s)'
    BY <1>3 DEF InWindow
  <2>3. Visible(s) => InWindow(s)
    BY <1>1, <1>3, WindowMovesOn
  <2>4. ASSUME ~Visible(s), NEW c \in {cursor, disk} PROVE ~Skips(c, s)
    BY <1>1, <1>3, <2>2, <2>4, NewRowNotSkipped DEF Views
  <2>5. ASSUME ~Visible(s), NEW r \in Row, fetched[r] # "absent", r[1] = s[1]
        PROVE  r[2] <= s[2]
    BY <1>1, <1>3, <2>2, <2>5, NewRowIsNewest DEF Views, FetchedTrue
  <2> QED
    BY <2>1, <2>3, <2>4, <2>5
<1>4. PassedRowsRecorded'
  BY <1>1, <1>2, <1>3 DEF Passing, PassedRowsRecorded, Skips, InWindow
<1>5. SnapshotComplete'
  <2> SUFFICES ASSUME NEW r \in Row, NEW s \in Row, fetched[r] # "absent",
                      s[1] = r[1], s[2] <= r[2], InWindow(s)', s \notin late'
               PROVE  fetched[s] # "absent" \/ Skips(cursor, s)
    BY <1>1 DEF SnapshotComplete, Skips
  <2>1. CASE Visible(s)
    BY <1>3, <2>1 DEF Passing, SnapshotComplete
  <2>2. CASE ~Visible(s)
    <3>1. r[2] <= s[2]
      BY <1>3, <2>2
    <3>2. r = s
      BY <3>1, RowType, RowAssumption
    <3> QED
      BY <3>2
  <2> QED
    BY <2>1, <2>2
<1>6. FetchedRecorded'
  BY <1>1, <1>2, DatabaseMonotonic DEF Passing, FetchedRecorded, Skips
<1>7. WatchedRecorded'
  <2>1. late \subseteq late'
    BY DEF Environment, OpenSession, CloseSession
  <2> QED
    BY <1>1, <1>2, <2>1 DEF Passing, WatchedRecorded
<1>8. OpenSessionsWatched'
  <2> SUFFICES ASSUME NEW c \in {cursor, disk}, NEW s \in Row \ Piped,
                      s \notin late', rows'[s] = "open", InWindow(s)',
                      Skips(c, s)
               PROVE  s \in c.open
    BY <1>1 DEF OpenSessionsWatched, Skips
  <2>1. Visible(s) /\ s \notin late /\ InWindow(s)
    BY <1>3
  <2>2. rows[s] = "open"
    BY <1>1, <2>1, DatabaseMonotonic
  <2> QED
    BY <2>1, <2>2 DEF Passing, OpenSessionsWatched
<1> QED
  BY <1>4, <1>5, <1>6, <1>7, <1>8 DEF Passing


\* A query returns the whole window of its table as it is at that moment.
LEMMA PassingQuery ==
    ASSUME TypeOK, Passing, QueryConnections \/ QueryLogins
    PROVE  Passing'
<1>1. PICK t \in Tables : fetched' = Fetch(t)
  BY DEF QueryConnections, QueryLogins, Tables
<1>2. UNCHANGED <<rows, late, cursor, disk, log, lost>>
  BY DEF QueryConnections, QueryLogins, database, journal
<1>3. \A r \in Row :
          fetched'[r] = IF r[1] = t THEN Result(r) ELSE fetched[r]
  BY <1>1 DEF Fetch
<1>4. \A r \in Row : InWindow(r)' <=> InWindow(r)
  BY <1>2 DEF InWindow, Visible, Newer
<1>5. \A r \in Row : Result(r) # "absent" <=> InWindow(r)
  BY DEF Result, Parsed, InWindow, Visible
<1>6. SnapshotComplete'
  BY <1>2, <1>3, <1>4, <1>5 DEF Passing, SnapshotComplete, Skips
<1>7. FetchedRecorded'
  BY <1>2, <1>3, <1>5
  DEF Passing, FetchedRecorded, PassedRowsRecorded, Skips, Recorded, Logged
<1>8. (PassedRowsRecorded /\ WatchedRecorded /\ OpenSessionsWatched)'
  BY <1>2, <1>4 DEF Passing, PassedRowsRecorded, WatchedRecorded,
         OpenSessionsWatched, Skips, Recorded, Logged
<1> QED
  BY <1>6, <1>7, <1>8 DEF Passing

\* Reporting a start raises the cursor over one row and watches it if open.
LEMMA PassingReport ==
    ASSUME TypeOK, Views, Passing, NEW r \in Row, ReportStart(r)
    PROVE  Passing'
<1>1. /\ UNCHANGED <<rows, late, pc, fetched, disk>>
      /\ cursor'.last = [cursor.last EXCEPT ![r[1]] = r[2]]
      /\ cursor'.open = Watching(r)
      /\ Recorded(Started(r))'
      /\ fetched[r] # "absent"
  BY AppendedLines DEF ReportStart, IsNext, database
<1>2. \A e : Recorded(e) => Recorded(e)'
  BY RecordedStays DEF Next, Monitor
<1>3. \A s \in Row : InWindow(s)' <=> InWindow(s)
  BY <1>1 DEF InWindow, Visible, Newer
<1>4. \A s \in Row : Skips(cursor, s) => Skips(cursor', s)
  BY <1>1, RowType, CursorType DEF Skips, ReportStart, IsNew, TypeOK
<1>5. ASSUME NEW s \in Row \ late, InWindow(s), Skips(cursor', s)
      PROVE  s = r \/ Skips(cursor, s)
  BY <1>5, OneRowPassed DEF Views, Passing
<1>6. PassedRowsRecorded'
  BY <1>1, <1>2, <1>3, <1>5 DEF Passing, PassedRowsRecorded, Skips
<1>7. SnapshotComplete'
  BY <1>1, <1>3, <1>4 DEF Passing, SnapshotComplete
<1>8. FetchedRecorded'
  <2> SUFFICES ASSUME NEW s \in Row \ late, fetched[s] # "absent",
                      Skips(cursor', s), s # r, ~Skips(cursor, s)
               PROVE  FALSE
    BY <1>1, <1>2 DEF Passing, FetchedRecorded
  <2>1. s[1] = r[1] /\ s[2] <= r[2]
    BY <1>1, RowType, CursorType DEF Skips, TypeOK
  <2>2. r[2] <= s[2]
    BY <2>1 DEF ReportStart, IsNext
  <2> QED
    BY <2>1, <2>2, RowType, RowAssumption
<1>9. WatchedRecorded'
  BY <1>1, <1>2 DEF Passing, WatchedRecorded, Watching
<1>10. OpenSessionsWatched'
  <2> SUFFICES ASSUME NEW s \in Row \ (Piped \cup late), rows[s] = "open",
                      InWindow(s), Skips(cursor', s)
               PROVE  s \in cursor'.open
    BY <1>1, <1>3 DEF Passing, OpenSessionsWatched, Skips
  <2>1. CASE s = r
    <3>1. fetched[r] = "open"
      BY <1>1, <2>1 DEF Views, FetchedTrue, TypeOK, Status
    <3> QED
      BY <1>1, <2>1, <3>1 DEF Watching
  <2>2. CASE Skips(cursor, s)
    BY <1>1, <2>2 DEF Passing, OpenSessionsWatched, Watching
  <2> QED
    BY <1>5, <2>1, <2>2
<1> QED
  BY <1>6, <1>7, <1>8, <1>9, <1>10 DEF Passing

\* Settling a row the cursor skips keeps what is watched and recorded.
LEMMA PassingSettle ==
    ASSUME TypeOK, Views, Passing, NEW r \in Row, SettleRow(r)
    PROVE  Passing'
<1>1. /\ UNCHANGED <<rows, late, pc, disk>>
      /\ cursor'.last = cursor.last
      /\ cursor'.open = Settled(r)
      /\ fetched' = [fetched EXCEPT ![r] = "absent"]
      /\ fetched[r] # "absent"
  BY DEF SettleRow, IsNext, database, TypeOK, Cursor
<1>2. \A e : Recorded(e) => Recorded(e)'
  BY RecordedStays DEF Next, Monitor
<1>3. \A s \in Row : InWindow(s)' <=> InWindow(s)
  BY <1>1 DEF InWindow, Visible, Newer
<1>4. Skips(cursor, r)
  BY RowType, CursorType DEF SettleRow, IsNew, Skips, TypeOK
<1>5. \A s \in Row : Skips(cursor', s) <=> Skips(cursor, s)
  BY <1>1 DEF Skips
<1>6. PassedRowsRecorded'
  BY <1>1, <1>2, <1>3, <1>5 DEF Passing, PassedRowsRecorded, Skips
<1>7. SnapshotComplete'
  BY <1>1, <1>3, <1>4, <1>5 DEF Passing, SnapshotComplete, TypeOK
<1>8. FetchedRecorded'
  BY <1>1, <1>2, <1>5 DEF Passing, FetchedRecorded, TypeOK
<1>9. WatchedRecorded'
  <2>1. \A s \in Settled(r) : s \in cursor.open \/ s = r
    BY DEF Settled, Watching
  <2>2. r \notin late => Recorded(Started(r))
    BY <1>1, <1>4 DEF Passing, FetchedRecorded
  <2> QED
    BY <1>1, <1>2, <2>1, <2>2 DEF Passing, WatchedRecorded
<1>10. OpenSessionsWatched'
  <2> SUFFICES ASSUME NEW s \in Row \ (Piped \cup late), rows[s] = "open",
                      s \in cursor.open
               PROVE  s \in Settled(r)
    BY <1>1, <1>3, <1>5 DEF Passing, OpenSessionsWatched, Skips
  <2>1. s = r => fetched[r] # "ended"
    BY DEF Views, FetchedTrue
  <2> QED
    BY <2>1 DEF Settled, EndsNow, Watching
<1> QED
  BY <1>6, <1>7, <1>8, <1>9, <1>10 DEF Passing

\* Saving, stopping and starting exchange the two cursors or clear one; the
\* remaining steps only move from one part of the poll to the next.
LEMMA PassingRest ==
    ASSUME TypeOK, Views, Passing,
           \/ Boot \/ QueryFails \/ TableDone \/ SaveTruncate \/ SaveWrite
           \/ SaveFails \/ Tick \/ Crash \/ UNCHANGED vars
    PROVE  Passing'
<1>1. [Next]_vars
  BY DEF Next, Monitor
<1>2. UNCHANGED <<rows, late>>
  BY DEF Boot, QueryFails, TableDone, SaveTruncate, SaveWrite, SaveFails,
         Tick, Crash, vars, database
<1>3. \A e : Recorded(e) => Recorded(e)'
  BY <1>1, RecordedStays
<1>4. \A s \in Row : InWindow(s)' <=> InWindow(s)
  BY <1>2 DEF InWindow, Visible, Newer
<1>5. /\ cursor' \in {cursor, disk, ZeroCursor}
      /\ disk' \in {cursor, disk, ZeroCursor}
  BY DEF Boot, QueryFails, TableDone, SaveTruncate, SaveWrite, SaveFails,
         Tick, Crash, vars
<1>6. \/ fetched' = NothingFetched
      \/ fetched' = fetched /\ cursor' = cursor
  BY DEF Views, StartsEmpty, Boot, QueryFails, TableDone, SaveTruncate, SaveWrite, SaveFails, Tick,
         Crash, vars
<1>7. PassedRowsRecorded'
  BY <1>2, <1>3, <1>4, <1>5, ZeroSkipsNothing
  DEF Passing, PassedRowsRecorded
<1>8. OpenSessionsWatched'
  BY <1>2, <1>4, <1>5, ZeroSkipsNothing DEF Passing, OpenSessionsWatched
<1>9. WatchedRecorded'
  BY <1>2, <1>3, <1>5 DEF Passing, WatchedRecorded, ZeroCursor
<1>10. SnapshotComplete' /\ FetchedRecorded'
  <2>1. CASE fetched' = NothingFetched
    BY <2>1 DEF SnapshotComplete, FetchedRecorded, NothingFetched
  <2>2. CASE fetched' = fetched /\ cursor' = cursor
    BY <1>2, <1>3, <1>4, <2>2
    DEF Passing, SnapshotComplete, FetchedRecorded, Skips
  <2> QED
    BY <1>6, <2>1, <2>2
<1> QED
  BY <1>7, <1>8, <1>9, <1>10 DEF Passing


\* The inductive invariant of the cursors holds in every reachable state.
LEMMA PassingHolds == Spec => []Passing
<1>1. Init => Passing
  <2> SUFFICES ASSUME Init PROVE Passing
    OBVIOUS
  <2>1. /\ \A r \in Row : fetched[r] = "absent"
        /\ cursor = ZeroCursor /\ disk = ZeroCursor
        /\ cursor.open = {} /\ disk.open = {}
    BY DEF Init, NothingFetched, ZeroCursor
  <2>2. PassedRowsRecorded /\ OpenSessionsWatched
    BY <2>1, ZeroSkipsNothing DEF PassedRowsRecorded, OpenSessionsWatched
  <2>3. SnapshotComplete /\ FetchedRecorded /\ WatchedRecorded
    BY <2>1 DEF SnapshotComplete, FetchedRecorded, WatchedRecorded
  <2> QED
    BY <2>2, <2>3 DEF Passing
<1>2. TypeOK /\ Views /\ Passing /\ [Next]_vars => Passing'
  BY PassingEnvironment, PassingQuery, PassingReport, PassingSettle, PassingRest
  DEF Next, Monitor
<1> QED
  BY <1>1, <1>2, TypeCorrect, ViewsHold, PTL DEF Spec

\* One number per table is enough of a cursor: whatever the window, the
\* queries that fail, the saves that are lost and the restarts, no session the
\* queries can return is skipped before its start has been appended, unless
\* its row was committed out of order.
THEOREM NoSessionSkipped == Spec => []PassedRowsRecorded
<1>1. Passing => PassedRowsRecorded
  BY DEF Passing
<1> QED
  BY <1>1, PassingHolds, PTL

\* The watched sets, in memory and on disk, hold every open session their
\* cursor skips: each of them can still get its end.
THEOREM NoOpenSessionForgotten == Spec => []OpenSessionsWatched
<1>1. Passing => OpenSessionsWatched
  BY DEF Passing
<1> QED
  BY <1>1, PassingHolds, PTL

(***************************************************************************)
(* Ends follow starts                                                      *)
(***************************************************************************)
\* An end is appended only with its start before it or lost.
LEMMA EndsFollowStartsStep ==
    ASSUME TypeOK, Passing, EndsFollowStarts, [Next]_vars
    PROVE  EndsFollowStarts'
<1>1. late \subseteq late'
  BY DatabaseMonotonic DEF TypeOK
<1>2. CASE UNCHANGED journal
  BY <1>1, <1>2 DEF EndsFollowStarts, journal
<1>3. ASSUME NEW e \in Event, AppendEvent(e),
             \A r \in Row \ late : e = Ended(r) => Recorded(Started(r))
      PROVE  EndsFollowStarts'
  <2> SUFFICES ASSUME NEW r \in Row \ late, NEW i \in 1..Len(log'),
                      log'[i] = Ended(r)
               PROVE  \/ \E j \in 1..(i - 1) : log'[j] = Started(r)
                      \/ Started(r) \in lost'
    BY <1>1 DEF EndsFollowStarts
  <2>1. lost \subseteq lost'
    BY <1>3 DEF AppendEvent
  <2>2. Len(log) \in Nat /\ Len(log') \in Nat
    BY <1>3, AppendType DEF TypeOK
  <2>3. CASE i \in 1..Len(log)
    <3>1. log[i] = Ended(r)
      BY <1>3, <2>3, AppendedLines
    <3>2. \/ \E j \in 1..(i - 1) : log[j] = Started(r)
          \/ Started(r) \in lost
      BY <2>3, <3>1 DEF EndsFollowStarts
    <3>3. \A j \in 1..(i - 1) : log'[j] = log[j]
      BY <1>3, <2>2, <2>3, AppendedLines
    <3> QED
      BY <2>1, <3>2, <3>3
  <2>4. CASE i \notin 1..Len(log)
    <3>1. e = Ended(r) /\ i = Len(log) + 1
      BY <1>3, <2>4, AppendedLines
    <3>2. Recorded(Started(r))
      BY <1>3, <3>1
    <3>3. \A j \in 1..Len(log) : log'[j] = log[j] /\ j \in 1..(i - 1)
      BY <1>3, <2>2, <3>1, AppendedLines
    <3> QED
      BY <2>1, <3>2, <3>3 DEF Recorded, Logged
  <2> QED
    BY <2>3, <2>4
<1>4. CASE Boot
  <2>1. \A r : AgentStarted # Ended(r)
    BY DEF AgentStarted, Ended
  <2> QED
    BY <1>3, <1>4, <2>1, EventType DEF Boot
<1>5. ASSUME NEW s \in Row, ReportStart(s) PROVE EndsFollowStarts'
  <2>1. \A r : Started(s) # Ended(r)
    BY DEF Started, Ended
  <2> QED
    BY <1>3, <1>5, <2>1, EventType DEF ReportStart
<1>6. ASSUME NEW s \in Row, SettleRow(s) PROVE EndsFollowStarts'
  <2>1. CASE EndsNow(s)
    <3>1. \A r \in Row : Ended(s) = Ended(r) => r = s
      BY DEF Ended
    <3>2. s \notin late => Recorded(Started(s))
      BY <2>1 DEF EndsNow, Passing, WatchedRecorded
    <3> QED
      BY <1>3, <1>6, <2>1, <3>1, <3>2, EventType DEF SettleRow
  <2>2. CASE ~EndsNow(s)
    BY <1>2, <1>6, <2>2 DEF SettleRow
  <2> QED
    BY <2>1, <2>2
<1> QED
  BY <1>2, <1>4, <1>5, <1>6
  DEF Next, Environment, Monitor, vars, journal, OpenSession, CloseSession,
      QueryConnections, QueryLogins, QueryFails, TableDone, SaveTruncate,
      SaveWrite, SaveFails, Tick, Crash

\* The log shows no session ending before it shows it starting, across every
\* restart; the exceptions are a start whose append failed and a row that was
\* committed out of order.
THEOREM EndsComeAfterStarts == Spec => []EndsFollowStarts
<1>1. Init => EndsFollowStarts
  BY DEF Init, EndsFollowStarts
<1>2. TypeOK /\ Passing /\ EndsFollowStarts /\ [Next]_vars => EndsFollowStarts'
  BY EndsFollowStartsStep
<1> QED
  BY <1>1, <1>2, TypeCorrect, PassingHolds, PTL DEF Spec


(***************************************************************************)
(* Refinement of AuditTrail                                                *)
(***************************************************************************)
\* The saved cursor is never ahead of the one in memory.
DiskBehind ==
    pc # "down" => \A r \in Row : Skips(disk, r) => Skips(cursor, r)

\* In one run of the agent the cursor only moves forward.
LEMMA ReportMovesForward ==
    ASSUME TypeOK, NEW r \in Row, ReportStart(r), NEW s \in Row, Skips(cursor, s)
    PROVE  Skips(cursor', s)
BY RowType, CursorType DEF Skips, ReportStart, IsNew, TypeOK

\* No failed save and no restart puts the saved cursor ahead.
LEMMA DiskBehindHolds == Spec => []DiskBehind
<1>1. Init => DiskBehind
  BY DEF Init, DiskBehind
<1>2. TypeOK /\ DiskBehind /\ [Next]_vars => DiskBehind'
  <2> SUFFICES ASSUME TypeOK, DiskBehind, [Next]_vars, pc' # "down",
                      NEW s \in Row, Skips(disk', s)
               PROVE  Skips(cursor', s)
    BY DEF DiskBehind, Skips
  <2>1. CASE pc # "down" /\ UNCHANGED <<cursor, disk>>
    BY <2>1 DEF DiskBehind
  <2>2. CASE Boot
    BY <2>2 DEF Boot
  <2>3. CASE SaveTruncate
    BY <2>3, ZeroSkipsNothing DEF SaveTruncate
  <2>4. CASE SaveWrite
    BY <2>4 DEF SaveWrite
  <2>5. ASSUME NEW r \in Row, ReportStart(r) PROVE Skips(cursor', s)
    <3>1. pc # "down" /\ disk' = disk
      BY <2>5, RowType DEF ReportStart, IsNext, Tables
    <3> QED
      BY <2>5, <3>1, ReportMovesForward DEF DiskBehind
  <2>6. ASSUME NEW r \in Row, SettleRow(r) PROVE Skips(cursor', s)
    <3>1. pc # "down" /\ disk' = disk /\ cursor'.last = cursor.last
      BY <2>6, RowType DEF SettleRow, IsNext, Tables, TypeOK, Cursor
    <3> QED
      BY <3>1 DEF DiskBehind, Skips
  <2>7. CASE Environment \/ UNCHANGED vars
    BY <2>1, <2>7 DEF Environment, OpenSession, CloseSession, vars
  <2>8. CASE QueryConnections \/ QueryLogins \/ QueryFails \/ TableDone
             \/ SaveFails \/ Tick
    BY <2>1, <2>8 DEF QueryConnections, QueryLogins, QueryFails, TableDone,
       SaveFails, Tick
  <2>9. CASE Crash
    BY <2>9 DEF Crash
  <2> QED
    BY <2>2, <2>3, <2>4, <2>5, <2>6, <2>7, <2>8, <2>9 DEF Next, Monitor
<1> QED
  BY <1>1, <1>2, TypeCorrect, PTL DEF Spec

Passed == {r \in Row : Skips(Known, r)}

\* A monitor that was never started is an agent that was never started.
LEMMA TrailInit == Init => Trail!Init
<1> SUFFICES ASSUME Init PROVE Trail!Init
  OBVIOUS
<1>1. Known = ZeroCursor
  BY DEF Init, Known
<1>2. {r \in Row : Skips(Known, r)} = {} /\ Known.open = {}
  BY <1>1, ZeroSkipsNothing DEF ZeroCursor
<1>3. rows = [r \in Row |-> "absent"] /\ pc = "down" /\ log = <<>>
  BY DEF Init, NothingFetched
<1> QED
  BY <1>2, <1>3 DEF Trail!Init

\* Steps that change neither database nor log, and neither stop nor start the
\* agent or move its cursor, are invisible.
LEMMA TrailStutter ==
    ASSUME UNCHANGED <<rows, log, cursor, pc = "down">>, pc # "down"
    PROVE  UNCHANGED Trail!vars
BY DEF Trail!vars, Known, Skips

\* Sessions open and end for the abstract agent as they do in the database.
LEMMA TrailEnvironment ==
    ASSUME TypeOK, Environment
    PROVE  Trail!Next
<1>1. PICK r \in Row : OpenSession(r) \/ CloseSession(r)
  BY DEF Environment
<1>2. UNCHANGED <<pc, cursor, disk, log>>
  BY <1>1 DEF OpenSession, CloseSession, journal
<1>3. UNCHANGED <<Known, Passed>>
  BY <1>2 DEF Known, Passed, Skips
<1>4. CASE OpenSession(r)
  <2>1. Trail!Open(r)
    BY <1>2, <1>3, <1>4 DEF Trail!Open, OpenSession, Passed
  <2> QED
    BY <2>1 DEF Trail!Next
<1>5. CASE CloseSession(r)
  <2>1. Trail!End(r)
    BY <1>2, <1>3, <1>5 DEF Trail!End, CloseSession, Passed
  <2> QED
    BY <2>1 DEF Trail!Next
<1> QED
  BY <1>1, <1>4, <1>5

\* Reporting a start is a ReportStart of the abstract agent.
LEMMA TrailReport ==
    ASSUME TypeOK, Views, NEW r \in Row, ReportStart(r)
    PROVE  Trail!Next
<1>1. pc # "down" /\ UNCHANGED <<pc, rows>>
  BY RowType DEF ReportStart, IsNext, Tables, database
<1>2. rows[r] # "absent"
  BY DEF ReportStart, IsNext, Views, FetchedTrue, Visible
<1>3. ~Skips(cursor, r)
  BY RowType, CursorType DEF ReportStart, IsNew, Skips, TypeOK
<1>4. Skips(cursor', r)
  BY RowType, CursorType DEF ReportStart, Skips, TypeOK
<1>5. \A s \in Row : Skips(cursor, s) => Skips(cursor', s)
  BY ReportMovesForward
<1>6. log' \in {log, Append(log, Started(r))}
  BY DEF ReportStart, AppendEvent
<1>7. cursor'.open \in {cursor.open, cursor.open \cup {r}}
  BY DEF ReportStart, Watching
<1>8. Trail!ReportStart(r)
  BY <1>1, <1>2, <1>3, <1>4, <1>5, <1>6, <1>7
  DEF Trail!ReportStart, Trail!Write, Trail!Started, Started, Known, Skips
<1> QED
  BY <1>8 DEF Trail!Next

\* Settling a row reports an end, watches a session again, or is invisible.
LEMMA TrailSettle ==
    ASSUME TypeOK, Views, NEW r \in Row, SettleRow(r)
    PROVE  [Trail!Next]_(Trail!vars)
<1>1. /\ pc # "down"
      /\ UNCHANGED <<pc, rows>>
      /\ cursor'.last = cursor.last
      /\ cursor'.open = Settled(r)
  BY RowType DEF SettleRow, IsNext, Tables, database, TypeOK, Cursor
<1>2. Skips(cursor, r)
  BY RowType, CursorType DEF SettleRow, IsNew, Skips, TypeOK
<1>3. rows[r] # "absent"
  BY DEF SettleRow, IsNext, Views, FetchedTrue, Visible
<1>4. CASE EndsNow(r)
  <2>1. rows[r] = "ended" /\ r \in cursor.open
    BY <1>4 DEF EndsNow, Views, FetchedTrue, WatchedSane
  <2>2. log' \in {log, Append(log, Ended(r))}
    BY <1>4 DEF SettleRow, AppendEvent
  <2>3. cursor'.open = cursor.open \ {r}
    BY <1>1, <1>4 DEF Settled
  <2>4. Trail!ReportEnd(r)
    BY <1>1, <2>1, <2>2, <2>3
    DEF Trail!ReportEnd, Trail!Write, Trail!Ended, Ended, Known, Skips
  <2> QED
    BY <2>4 DEF Trail!Next
<1>5. CASE ~EndsNow(r)
  <2>1. log' = log
    BY <1>5 DEF SettleRow, journal
  <2>2. \/ cursor'.open = cursor.open
        \/ cursor'.open = cursor.open \cup {r}
    BY <1>1, <1>5 DEF Settled, Watching
  <2>3. CASE cursor'.open = cursor.open
    BY <1>1, <2>1, <2>3 DEF Trail!vars, Known, Skips
  <2>4. CASE cursor'.open = cursor.open \cup {r}
    <3>1. Trail!Rewatch(r)
      BY <1>1, <1>2, <1>3, <2>1, <2>4 DEF Trail!Rewatch, Known, Skips
    <3> QED
      BY <3>1 DEF Trail!Next
  <2> QED
    BY <2>2, <2>3, <2>4
<1> QED
  BY <1>4, <1>5

\* A stop is a Stop: the saved cursor knows no more than the one in memory.
LEMMA TrailStop ==
    ASSUME TypeOK, Views, DiskBehind, Crash
    PROVE  Trail!Next
<1>1. /\ pc # "down" /\ pc' = "down"
      /\ UNCHANGED <<rows, disk, log>>
  BY DEF Crash, database, journal
<1>2. Known = cursor /\ Known' = disk
  BY <1>1 DEF Known
<1>3. {r \in Row : Skips(disk, r)} \in SUBSET {r \in Row : Skips(cursor, r)}
  BY <1>1 DEF DiskBehind
<1>4. disk.open \in SUBSET {r \in Row : Skips(disk, r)}
  BY CursorType DEF Views, WatchedSane, TypeOK
<1>5. Trail!Stop
  BY <1>1, <1>2, <1>3, <1>4 DEF Trail!Stop, Skips
<1> QED
  BY <1>5 DEF Trail!Next

\* A start is a Start: the agent takes over what was saved.
LEMMA TrailStart ==
    ASSUME Boot
    PROVE  Trail!Next
<1>1. Trail!Start
  BY DEF Boot, Trail!Start, Trail!Write, Trail!AgentStarted, AgentStarted,
         AppendEvent, Known, Skips, database
<1> QED
  BY <1>1 DEF Trail!Next

\* The monitor, with its two queries, stale results, saved cursor and stops,
\* implements the agent of AuditTrail, which has none of them.
THEOREM MonitorKeepsTrail == Spec => ImplementsAuditTrail
<1>1. TypeOK /\ Views /\ DiskBehind /\ [Next]_vars => [Trail!Next]_(Trail!vars)
  <2> SUFFICES ASSUME TypeOK, Views, DiskBehind, [Next]_vars
               PROVE  [Trail!Next]_(Trail!vars)
    OBVIOUS
  <2>1. CASE QueryConnections \/ QueryLogins \/ QueryFails \/ TableDone
             \/ SaveTruncate \/ SaveWrite \/ SaveFails \/ Tick
    BY <2>1, TrailStutter
    DEF QueryConnections, QueryLogins, QueryFails, TableDone, SaveTruncate,
        SaveWrite, SaveFails, Tick, database, journal
  <2>2. CASE UNCHANGED vars
    BY <2>2 DEF vars, Trail!vars, Known, Skips
  <2> QED
    BY <2>1, <2>2, TrailEnvironment, TrailReport, TrailSettle, TrailStop,
       TrailStart DEF Next, Environment, Monitor
<1> QED
  BY <1>1, TrailInit, TypeCorrect, ViewsHold, DiskBehindHolds, PTL
  DEF Spec, ImplementsAuditTrail, Trail!Spec

(***************************************************************************)
(* Once per run                                                            *)
(***************************************************************************)
\* A line written since the agent started: no start of the agent follows it,
\* and none went unlogged.
OfThisRun(i) ==
    /\ AgentStarted \notin lost
    /\ \A k \in i..Len(log) : log[k] # AgentStarted

\* What the running agent has reported it cannot report again: a started
\* session is skipped, and an ended one is neither watched nor, however old
\* the result in hand is, about to be watched again.
ReportedIsSettled ==
    pc # "down" =>
        \A i \in 1..Len(log), r \in Row : OfThisRun(i) =>
            /\ log[i] = Started(r) => Skips(cursor, r)
            /\ log[i] = Ended(r) =>
                   /\ Skips(cursor, r)
                   /\ r \notin cursor.open
                   /\ fetched[r] # "open"

\* The lines of this run after a step were lines of this run before it.
LEMMA RunGoesOn ==
    ASSUME TypeOK, lost \subseteq lost', NEW i \in 1..Len(log), OfThisRun(i)',
           Len(log') >= Len(log), \A k \in 1..Len(log) : log'[k] = log[k],
           Len(log') \in Nat, Len(log) \in Nat
    PROVE  OfThisRun(i)
BY DEF OfThisRun

\* Neither the queries nor anything else that leaves the log and the cursor
\* alone make a reported event due again.
LEMMA SettledStaysSettled ==
    ASSUME TypeOK, EndsAreReal, ReportedIsSettled,
           UNCHANGED <<log, lost, cursor>>, pc # "down",
           \A r \in Row : \/ fetched'[r] \in {fetched[r], "absent"}
                          \/ fetched'[r] = Result(r)
    PROVE  ReportedIsSettled'
<1> SUFFICES ASSUME NEW i \in 1..Len(log), NEW r \in Row, OfThisRun(i)
             PROVE  /\ log[i] = Started(r) => Skips(cursor, r)
                    /\ log[i] = Ended(r) =>
                           /\ Skips(cursor, r)
                           /\ r \notin cursor.open
                           /\ fetched'[r] # "open"
  BY DEF ReportedIsSettled, OfThisRun, Skips
<1>1. log[i] = Ended(r) => Result(r) # "open"
  BY DEF EndsAreReal, Logged, Result, Parsed
<1> QED
  BY <1>1 DEF ReportedIsSettled

\* No step makes an event of this run due again.
LEMMA ReportedIsSettledStep ==
    ASSUME TypeOK, Views, EndsAreReal, ReportedIsSettled, [Next]_vars
    PROVE  ReportedIsSettled'
<1>1. CASE /\ UNCHANGED <<log, lost, cursor, fetched, pc>>
  BY <1>1 DEF ReportedIsSettled, OfThisRun, Skips
<1>2. CASE pc # "down" /\ UNCHANGED <<log, lost, cursor, fetched>>
  BY <1>2, SettledStaysSettled
<1>3. CASE QueryConnections \/ QueryLogins \/ QueryFails
  <2>1. pc # "down" /\ UNCHANGED <<log, lost, cursor>>
    BY <1>3 DEF QueryConnections, QueryLogins, QueryFails, journal
  <2>2. ASSUME NEW r \in Row
        PROVE  \/ fetched'[r] \in {fetched[r], "absent"}
               \/ fetched'[r] = Result(r)
    BY <1>3 DEF QueryConnections, QueryLogins, QueryFails, Fetch, NothingFetched
  <2> QED
    BY <2>1, <2>2, SettledStaysSettled
<1>4. CASE Crash
  BY <1>4 DEF Crash, ReportedIsSettled
<1>5. CASE Boot
  <2> SUFFICES ASSUME NEW i \in 1..Len(log'), OfThisRun(i)'
               PROVE  FALSE
    BY DEF ReportedIsSettled
  <2>1. log' = Append(log, AgentStarted)
    BY <1>5 DEF Boot, AppendEvent, OfThisRun
  <2>2. Len(log') \in i..Len(log') /\ log'[Len(log')] = AgentStarted
    BY <2>1 DEF TypeOK
  <2> QED
    BY <2>2 DEF OfThisRun
<1>6. ASSUME NEW s \in Row, ReportStart(s) PROVE ReportedIsSettled'
  <2>1. /\ pc # "down" /\ fetched' = fetched /\ lost \subseteq lost'
        /\ cursor'.open = Watching(s)
        /\ AppendEvent(Started(s))
    BY <1>6, RowType DEF ReportStart, IsNext, Tables, AppendEvent
  <2>2. Skips(cursor', s)
    BY <1>6, RowType, CursorType DEF Skips, ReportStart, TypeOK
  <2>3. Len(log) \in Nat /\ Len(log') \in Nat
    BY <2>1, AppendType, EventType DEF TypeOK
  <2> SUFFICES ASSUME NEW i \in 1..Len(log'), NEW r \in Row, OfThisRun(i)'
               PROVE  /\ log'[i] = Started(r) => Skips(cursor', r)
                      /\ log'[i] = Ended(r) =>
                             /\ Skips(cursor', r)
                             /\ r \notin cursor'.open
                             /\ fetched'[r] # "open"
    BY DEF ReportedIsSettled, Skips
  <2>4. CASE i \in 1..Len(log)
    <3>1. log'[i] = log[i] /\ OfThisRun(i)
      BY <2>1, <2>3, <2>4, AppendedLines, RunGoesOn
    <3>2. Skips(cursor, r) => Skips(cursor', r)
      BY <1>6, ReportMovesForward
    <3>3. r \notin cursor.open /\ fetched[r] # "open" => r \notin cursor'.open
      BY <2>1 DEF Watching
    <3> QED
      BY <2>1, <2>4, <3>1, <3>2, <3>3 DEF ReportedIsSettled
  <2>5. CASE i \notin 1..Len(log)
    <3>1. log'[i] = Started(s)
      BY <2>1, <2>5, AppendedLines
    <3>2. log'[i] # Ended(r) /\ (log'[i] = Started(r) => r = s)
      BY <3>1 DEF Started, Ended
    <3> QED
      BY <2>2, <3>2
  <2> QED
    BY <2>4, <2>5
<1>7. ASSUME NEW s \in Row, SettleRow(s) PROVE ReportedIsSettled'
  <2>1. /\ pc # "down"
        /\ cursor'.last = cursor.last
        /\ cursor'.open = Settled(s)
        /\ fetched' = [fetched EXCEPT ![s] = "absent"]
    BY <1>7, RowType DEF SettleRow, IsNext, Tables, TypeOK, Cursor
  <2>2. Skips(cursor', s)
    BY <1>7, <2>1, RowType, CursorType DEF SettleRow, IsNew, Skips, TypeOK
  <2>3. CASE EndsNow(s)
    <3>1. cursor'.open = cursor.open \ {s} /\ AppendEvent(Ended(s))
      BY <1>7, <2>1, <2>3 DEF Settled, SettleRow
    <3>2. Len(log) \in Nat /\ Len(log') \in Nat /\ lost \subseteq lost'
      BY <3>1, AppendType, EventType DEF TypeOK, AppendEvent
    <3> SUFFICES ASSUME NEW i \in 1..Len(log'), NEW r \in Row, OfThisRun(i)'
                 PROVE  /\ log'[i] = Started(r) => Skips(cursor', r)
                        /\ log'[i] = Ended(r) =>
                               /\ Skips(cursor', r)
                               /\ r \notin cursor'.open
                               /\ fetched'[r] # "open"
      BY DEF ReportedIsSettled, Skips
    <3>3. CASE i \in 1..Len(log)
      <4>1. log'[i] = log[i] /\ OfThisRun(i)
        BY <3>1, <3>2, <3>3, AppendedLines, RunGoesOn
      <4>2. fetched[r] # "open" => fetched'[r] # "open"
        BY <2>1 DEF TypeOK
      <4> QED
        BY <2>1, <3>1, <3>3, <4>1, <4>2 DEF ReportedIsSettled, Skips
    <3>4. CASE i \notin 1..Len(log)
      <4>1. log'[i] = Ended(s)
        BY <3>1, <3>4, AppendedLines
      <4>2. log'[i] # Started(r) /\ (log'[i] = Ended(r) => r = s)
        BY <4>1 DEF Started, Ended
      <4>3. fetched'[s] # "open"
        BY <2>1 DEF TypeOK
      <4> QED
        BY <2>2, <3>1, <4>2, <4>3
    <3> QED
      BY <3>3, <3>4
  <2>4. CASE ~EndsNow(s)
    <3>1. UNCHANGED <<log, lost>>
      BY <1>7, <2>4 DEF SettleRow, journal
    <3> SUFFICES ASSUME NEW i \in 1..Len(log), NEW r \in Row, OfThisRun(i)
                 PROVE  /\ log[i] = Started(r) => Skips(cursor', r)
                        /\ log[i] = Ended(r) =>
                               /\ Skips(cursor', r)
                               /\ r \notin cursor'.open
                               /\ fetched'[r] # "open"
      BY <3>1 DEF ReportedIsSettled, OfThisRun, Skips
    <3>2. r \notin cursor.open /\ fetched[r] # "open" => r \notin cursor'.open
      BY <2>1, <2>4 DEF Settled, Watching
    <3>3. fetched[r] # "open" => fetched'[r] # "open"
      BY <2>1 DEF TypeOK
    <3> QED
      BY <2>1, <3>2, <3>3 DEF ReportedIsSettled, Skips
  <2> QED
    BY <2>3, <2>4
<1> QED
  BY <1>1, <1>2, <1>3, <1>4, <1>5, <1>6, <1>7
  DEF Next, Environment, Monitor, vars, journal, OpenSession, CloseSession,
      TableDone, SaveTruncate, SaveWrite, SaveFails, Tick

\* A line appended to a log without repetitions in a run repeats none if it
\* is not of this run yet.
LEMMA AppendOnce ==
    ASSUME TypeOK, AtMostOncePerRun, NEW e \in Event, AppendEvent(e),
           \A i \in 1..Len(log) : OfThisRun(i) => log[i] # e
    PROVE  AtMostOncePerRun'
<1>1. Len(log) \in Nat /\ Len(log') \in Nat /\ lost \subseteq lost'
  BY AppendType DEF TypeOK, AppendEvent
<1> SUFFICES ASSUME NEW i \in 1..Len(log'), NEW j \in 1..Len(log'),
                    i < j, log'[i] = log'[j],
                    \A k \in i..j : log'[k] # AgentStarted,
                    AgentStarted \notin lost'
             PROVE  FALSE
  BY DEF AtMostOncePerRun
<1>2. CASE j \in 1..Len(log)
  <2>1. \A k \in i..j : k \in 1..Len(log) /\ log'[k] = log[k]
    BY <1>1, <1>2, AppendedLines
  <2>2. i \in i..j /\ j \in i..j
    BY <1>1
  <2> QED
    BY <1>1, <1>2, <2>1, <2>2 DEF AtMostOncePerRun
<1>3. CASE j \notin 1..Len(log)
  <2>1. j = Len(log) + 1 /\ log'[j] = e
    BY <1>3, AppendedLines
  <2>2. i \in 1..Len(log)
    BY <1>1, <2>1
  <2>3. \A k \in i..Len(log) : k \in i..j /\ k \in 1..Len(log)
    BY <1>1, <2>1, <2>2
  <2>4. \A k \in i..Len(log) : log[k] # AgentStarted
    BY <2>3, AppendedLines
  <2>5. OfThisRun(i)
    BY <1>1, <2>4 DEF OfThisRun
  <2>6. log[i] = e
    BY <2>1, <2>2, AppendedLines
  <2> QED
    BY <2>2, <2>5, <2>6
<1> QED
  BY <1>2, <1>3

\* What was reported in this run is settled, in every reachable state.
LEMMA ReportedIsSettledHolds == Spec => []ReportedIsSettled
<1>1. Init => ReportedIsSettled
  BY DEF Init, ReportedIsSettled
<1>2. /\ TypeOK /\ Views /\ EndsAreReal /\ ReportedIsSettled /\ [Next]_vars
      => ReportedIsSettled'
  BY ReportedIsSettledStep
<1> QED
  BY <1>1, <1>2, TypeCorrect, ViewsHold, NoFalseEnds, PTL DEF Spec

\* One run of the agent reports each start and each end once, although every
\* poll reads the same rows again and the rows in hand may be older than the
\* end that was reported: between two equal lines the agent was started.
THEOREM ReportedOncePerRun == Spec => []AtMostOncePerRun
<1>1. Init => AtMostOncePerRun
  BY DEF Init, AtMostOncePerRun
<1>2. TypeOK /\ ReportedIsSettled /\ AtMostOncePerRun /\ [Next]_vars
      => AtMostOncePerRun'
  <2> SUFFICES ASSUME TypeOK, ReportedIsSettled, AtMostOncePerRun, [Next]_vars
               PROVE  AtMostOncePerRun'
    OBVIOUS
  <2>1. CASE UNCHANGED <<log, lost>>
    BY <2>1 DEF AtMostOncePerRun
  <2>2. CASE Boot
    <3>1. \A i \in 1..Len(log) : OfThisRun(i) => log[i] # AgentStarted
      <4>1. Len(log) \in Nat
        BY DEF TypeOK
      <4>2. \A i \in 1..Len(log) : i \in i..Len(log)
        BY <4>1
      <4> QED
        BY <4>2 DEF OfThisRun
    <3> QED
      BY <2>2, <3>1, AppendOnce, EventType DEF Boot
  <2>3. ASSUME NEW s \in Row, ReportStart(s) PROVE AtMostOncePerRun'
    <3>1. pc # "down" /\ AppendEvent(Started(s))
      BY <2>3, RowType DEF ReportStart, IsNext, Tables
    <3>2. ~Skips(cursor, s)
      BY <2>3, RowType, CursorType DEF ReportStart, IsNew, Skips, TypeOK
    <3>3. \A i \in 1..Len(log) : OfThisRun(i) => log[i] # Started(s)
      BY <3>1, <3>2 DEF ReportedIsSettled
    <3> QED
      BY <3>1, <3>3, AppendOnce, EventType
  <2>4. ASSUME NEW s \in Row, SettleRow(s) PROVE AtMostOncePerRun'
    <3>1. pc # "down"
      BY <2>4, RowType DEF SettleRow, IsNext, Tables
    <3>2. CASE EndsNow(s)
      <4>1. AppendEvent(Ended(s)) /\ s \in cursor.open
        BY <2>4, <3>2 DEF SettleRow, EndsNow
      <4>2. \A i \in 1..Len(log) : OfThisRun(i) => log[i] # Ended(s)
        BY <3>1, <4>1 DEF ReportedIsSettled
      <4> QED
        BY <4>1, <4>2, AppendOnce, EventType
    <3>3. CASE ~EndsNow(s)
      BY <2>1, <2>4, <3>3 DEF SettleRow, journal
    <3> QED
      BY <3>2, <3>3
  <2> QED
    BY <2>1, <2>2, <2>3, <2>4
    DEF Next, Environment, Monitor, vars, journal, OpenSession, CloseSession,
        QueryConnections, QueryLogins, QueryFails, TableDone, SaveTruncate,
        SaveWrite, SaveFails, Tick, Crash
<1> QED
  BY <1>1, <1>2, TypeCorrect, ReportedIsSettledHolds, PTL DEF Spec

(***************************************************************************)
(* The cursor advances                                                     *)
(***************************************************************************)
\* While the agent runs no step takes its cursor back, and a session leaves
\* the watched set only with its end written, or its append failed.
THEOREM CursorOnlyAdvances == Spec => CursorAdvances
<1> DEFINE Advance ==
        pc # "down" /\ pc' # "down" =>
            /\ \A t \in Tables : cursor.last[t] <= cursor'.last[t]
            /\ \A r \in cursor.open \ cursor'.open :
                   \/ log' = Append(log, Ended(r))
                   \/ Ended(r) \in lost'
<1>1. TypeOK /\ [Next]_vars => [Advance]_vars
  <2> SUFFICES ASSUME TypeOK, [Next]_vars, pc # "down", pc' # "down"
               PROVE  Advance
    OBVIOUS
  <2>1. cursor \in Cursor /\ cursor.last \in [Tables -> Nat]
    BY CursorType DEF TypeOK
  <2>2. CASE UNCHANGED cursor
    BY <2>1, <2>2
  <2>3. ASSUME NEW r \in Row, ReportStart(r) PROVE Advance
    <3>1. /\ cursor'.last = [cursor.last EXCEPT ![r[1]] = r[2]]
          /\ cursor'.open = Watching(r)
          /\ r[2] > cursor.last[r[1]]
      BY <2>3 DEF ReportStart, IsNew
    <3>2. \A t \in Tables : cursor.last[t] <= cursor'.last[t]
      BY <2>1, <3>1, RowType
    <3>3. cursor.open \subseteq cursor'.open
      BY <3>1 DEF Watching
    <3> QED
      BY <3>2, <3>3
  <2>4. ASSUME NEW r \in Row, SettleRow(r) PROVE Advance
    <3>1. cursor'.last = cursor.last /\ cursor'.open = Settled(r)
      BY <2>1, <2>4 DEF SettleRow, Cursor
    <3>2. \A t \in Tables : cursor.last[t] <= cursor'.last[t]
      BY <2>1, <3>1
    <3>3. CASE EndsNow(r)
      <4>1. \/ log' = Append(log, Ended(r))
            \/ Ended(r) \in lost'
        BY <2>4, <3>3 DEF SettleRow, AppendEvent
      <4>2. cursor.open \ cursor'.open \subseteq {r}
        BY <3>1, <3>3 DEF Settled
      <4> QED
        BY <3>2, <4>1, <4>2
    <3>4. CASE ~EndsNow(r)
      <4>1. cursor.open \subseteq cursor'.open
        BY <3>1, <3>4 DEF Settled, Watching
      <4> QED
        BY <3>2, <4>1
    <3> QED
      BY <3>3, <3>4
  <2> QED
    BY <2>2, <2>3, <2>4
    DEF Next, Environment, Monitor, vars, OpenSession, CloseSession, Boot,
        QueryConnections, QueryLogins, QueryFails, TableDone, SaveTruncate,
        SaveWrite, SaveFails, Tick, Crash
<1> QED
  BY <1>1, TypeCorrect, PTL DEF Spec, CursorAdvances

(***************************************************************************)
(* No session is missed by an agent that keeps pace                        *)
(*                                                                         *)
(* NoneMissedInPace is about polls that have come to their end. While one  *)
(* is under way, the rows that it asked for are reported or in hand.       *)
(***************************************************************************)
\* Only rows that there are have been asked for.
AskedSeen == \A r \in asked \cup polled : r \in Row /\ Visible(r)

\* A row asked for in pace is in hand until its start is reported.
AskedInHand ==
    \A r \in asked \ (late \cup overrun) :
        fetched[r] # "absent" \/ Recorded(Started(r))

\* What was not there when a poll asked is newer than all that was.
NewAreNewer ==
    \A S \in {asked, polled} : \A r \in Row, s \in S :
        r[1] = s[1] /\ Visible(r) /\ r \notin late /\ r \notin S => s[2] < r[2]

Pace == AskedSeen /\ AskedInHand /\ NewAreNewer /\ NoneMissedInPace

\* The history follows the monitor and does not disturb it.
LEMMA PaceStep == PaceNext => Next
BY DEF PaceNext, Next, Monitor

\* What is said of the rows in hand and of the cursors holds in every
\* behaviour with its history.
LEMMA PaceKnown == PaceSpec => [](TypeOK /\ Views /\ Passing)
<1>1. PaceInit => Init
  BY DEF PaceInit
<1>2. [PaceNext]_<<vars, history>> => [Next]_vars
  BY PaceStep DEF vars
<1> QED
  BY <1>1, <1>2, TypeCorrect, ViewsHold, PassingHolds, PTL DEF PaceSpec, Spec

\* A row of a table that brought no more than Limit new ones is within the
\* window of the query that asks for them.
LEMMA NewRowsInWindow ==
    ASSUME TypeOK, AskedSeen, NewAreNewer, NEW t \in Tables,
           Cardinality(New(t)) <= Limit,
           NEW r \in New(t), r \notin late
    PROVE  InWindow(r)
<1>1. r \in Row /\ r[1] = t /\ Visible(r) /\ r \notin polled
  BY DEF New, There
<1>2. Newer(r) \subseteq New(t)
  <2> SUFFICES ASSUME NEW s \in Newer(r) PROVE s \notin polled
    BY <1>1 DEF Newer, New, There
  <2>1. s[1] = r[1] /\ s[2] > r[2] /\ s[2] \in Nat /\ r[2] \in Nat
    BY <1>1, RowType DEF Newer
  <2>2. s \in polled => s[2] < r[2]
    BY <1>1, <2>1 DEF NewAreNewer
  <2> QED
    BY <2>1, <2>2
<1>3. r \notin Newer(r)
  BY <1>1, RowType DEF Newer
<1>4. IsFiniteSet(New(t)) /\ IsFiniteSet(Newer(r))
  BY RowAssumption, FS_Subset DEF New, There, Newer
<1>5. Newer(r) \cup {r} \subseteq New(t)
  BY <1>2
<1>6. /\ IsFiniteSet(Newer(r) \cup {r})
      /\ Cardinality(Newer(r) \cup {r}) = Cardinality(Newer(r)) + 1
  BY <1>3, <1>4, FS_AddElement
<1>7. Cardinality(Newer(r) \cup {r}) <= Cardinality(New(t))
  BY <1>4, <1>5, FS_Subset
<1>8. Cardinality(Newer(r)) \in Nat /\ Cardinality(New(t)) \in Nat
  BY <1>4, FS_CardinalityType
<1>9. Cardinality(Newer(r)) < Limit
  BY <1>6, <1>7, <1>8, LimitAssumption
<1> QED
  BY <1>1, <1>9 DEF InWindow

\* A query asks for all rows of its table and brings the newest in hand.
LEMMA PaceAsk ==
    ASSUME TypeOK, Pace, NEW t \in Tables, fetched' = Fetch(t),
           UNCHANGED <<rows, late, log, lost>>, Asks(t)
    PROVE  Pace'
<1>1. /\ asked' = asked \cup There(t)
      /\ polled' = polled
      /\ overrun \subseteq overrun'
      /\ \A r \in New(t) \ overrun' : Cardinality(New(t)) <= Limit
  <2>1. CASE Cardinality(New(t)) > Limit
    BY <2>1 DEF Asks
  <2>2. CASE ~(Cardinality(New(t)) > Limit)
    <3>1. IsFiniteSet(New(t))
      BY RowAssumption, FS_Subset DEF New, There
    <3>2. Cardinality(New(t)) <= Limit
      BY <2>2, <3>1, FS_CardinalityType, LimitAssumption
    <3> QED
      BY <2>2, <3>2 DEF Asks
  <2> QED
    BY <2>1, <2>2
<1>2. /\ \A r \in Row : Visible(r)' <=> Visible(r)
      /\ \A e : Recorded(e)' <=> Recorded(e)
  BY DEF Visible, Recorded, Logged
<1>3. AskedSeen'
  BY <1>1, <1>2 DEF Pace, AskedSeen, There
<1>4. AskedInHand'
  <2> SUFFICES ASSUME NEW r \in asked', r \notin late, r \notin overrun',
                      ~Recorded(Started(r))
               PROVE  fetched'[r] # "absent"
    BY <1>2 DEF AskedInHand
  <2>1. r \in Row /\ Visible(r)
    BY <1>1 DEF Pace, AskedSeen, There
  <2>2. fetched'[r] = IF r[1] = t THEN Result(r) ELSE fetched[r]
    BY <2>1 DEF Fetch
  <2>3. CASE r[1] = t
    <3>1. r \notin polled
      BY <1>1 DEF Pace, NoneMissedInPace
    <3>2. r \in New(t)
      BY <2>1, <2>3, <3>1 DEF New, There
    <3>3. InWindow(r)
      BY <1>1, <3>2, NewRowsInWindow DEF Pace
    <3> QED
      BY <2>1, <2>2, <2>3, <3>3 DEF Result, Parsed, Visible
  <2>4. CASE r[1] # t
    <3>1. r \in asked
      BY <1>1, <2>4 DEF There
    <3> QED
      BY <1>1, <2>2, <2>4, <3>1 DEF Pace, AskedInHand
  <2> QED
    BY <2>3, <2>4
<1>5. NewAreNewer'
  BY <1>1, <1>2 DEF Pace, NewAreNewer, There
<1>6. NoneMissedInPace'
  BY <1>1, <1>2 DEF Pace, NoneMissedInPace
<1> QED
  BY <1>3, <1>4, <1>5, <1>6 DEF Pace

\* A table that has been applied to the end counts.
LEMMA PaceCount ==
    ASSUME TypeOK, Pace, TableDone, Counts(pc)
    PROVE  Pace'
<1>1. UNCHANGED <<rows, late, fetched, log, lost, overrun>>
  BY DEF TableDone, database, journal, Counts
<1>2. /\ \A r \in Row : Visible(r)' <=> Visible(r)
      /\ \A e : Recorded(e)' <=> Recorded(e)
  BY <1>1 DEF Visible, Recorded, Logged
<1>3. /\ asked' = {r \in asked : r[1] # pc}
      /\ polled' = polled \cup {r \in asked : r[1] = pc}
  BY DEF Counts
<1>4. AskedSeen'
  BY <1>2, <1>3 DEF Pace, AskedSeen
<1>5. AskedInHand'
  BY <1>1, <1>2, <1>3 DEF Pace, AskedInHand
<1>6. NewAreNewer'
  BY <1>1, <1>2, <1>3 DEF Pace, NewAreNewer
<1>7. NoneMissedInPace'
  BY <1>1, <1>2, <1>3
  DEF Pace, AskedSeen, AskedInHand, NoneMissedInPace, TableDone, AllApplied
<1> QED
  BY <1>4, <1>5, <1>6, <1>7 DEF Pace

\* A poll that fails or is cut off leaves nothing asked for.
LEMMA PaceDrop ==
    ASSUME TypeOK, Pace, QueryFails \/ Crash,
           asked' = {}, UNCHANGED <<polled, overrun>>
    PROVE  Pace'
<1>1. UNCHANGED <<rows, late, log, lost>>
  BY DEF QueryFails, Crash, database, journal
<1>2. /\ \A r \in Row : Visible(r)' <=> Visible(r)
      /\ \A e : Recorded(e)' <=> Recorded(e)
  BY <1>1 DEF Visible, Recorded, Logged
<1> QED
  BY <1>1, <1>2 DEF Pace, AskedSeen, AskedInHand, NewAreNewer, NoneMissedInPace

\* A step between the queries and the end of the tables reports what it takes
\* out of hand, and a row that appears is newer than those asked for.
LEMMA PaceGoesOn ==
    ASSUME TypeOK, Views, Passing, Pace, [Next]_vars, UNCHANGED history,
           \/ UNCHANGED fetched
           \/ \E r \in Row : SettleRow(r)
    PROVE  Pace'
<1>1. UNCHANGED <<asked, polled, overrun>>
  BY DEF history
<1>2. \A r \in Row : Visible(r) => Visible(r)'
  BY DatabaseMonotonic
<1>3. \A e : Recorded(e) => Recorded(e)'
  BY RecordedStays
<1>4. \A r \in Row : r \notin late' => r \notin late
  BY DatabaseMonotonic
<1>5. AskedSeen'
  BY <1>1, <1>2 DEF Pace, AskedSeen
<1>6. AskedInHand'
  <2> SUFFICES ASSUME NEW r \in asked, r \notin late', r \notin overrun,
                      fetched'[r] = "absent", ~Recorded(Started(r))'
               PROVE  FALSE
    BY <1>1 DEF AskedInHand
  <2>1. r \in Row /\ r \notin late /\ ~Recorded(Started(r))
    BY <1>3, <1>4 DEF Pace, AskedSeen
  <2>2. fetched[r] # "absent"
    BY <2>1 DEF Pace, AskedInHand
  <2>3. PICK s \in Row : SettleRow(s)
    BY <2>2
  <2>4. s = r /\ Skips(cursor, r)
    BY <2>1, <2>2, <2>3, RowType, CursorType
    DEF SettleRow, TypeOK, IsNew, Skips
  <2> QED
    BY <2>1, <2>2, <2>4 DEF Passing, FetchedRecorded
<1>7. NewAreNewer'
  <2> SUFFICES ASSUME NEW S \in {asked, polled}, NEW r \in Row, NEW s \in S,
                      r[1] = s[1], Visible(r)', r \notin late', r \notin S
               PROVE  s[2] < r[2]
    BY <1>1 DEF NewAreNewer
  <2>1. s \in Row /\ Visible(s) /\ r \notin late
    BY <1>4 DEF Pace, AskedSeen
  <2>2. CASE Visible(r)
    BY <2>1, <2>2 DEF Pace, NewAreNewer
  <2>3. CASE ~Visible(r)
    <3>1. s[2] <= r[2]
      BY <2>1, <2>3, NewRowIsNewest
    <3>2. s[2] # r[2]
      BY <2>1, RowAssumption
    <3> QED
      BY <2>1, <3>1, <3>2, RowType
  <2> QED
    BY <2>2, <2>3
<1>8. NoneMissedInPace'
  BY <1>1, <1>3, <1>4 DEF Pace, AskedSeen, NoneMissedInPace
<1> QED
  BY <1>5, <1>6, <1>7, <1>8 DEF Pace

\* A session is lost to the window only by more than Limit rows that turn up
\* between two polls carried through: not by a stop, a failed query or save,
\* an append that the agent is not told of, or an older cursor loaded again.
THEOREM NoSessionMissed == PaceSpec => []NoneMissedInPace
<1>1. PaceInit => Pace
  BY DEF PaceInit, Pace, AskedSeen, AskedInHand, NewAreNewer, NoneMissedInPace
<1>2. TypeOK /\ Views /\ Passing /\ Pace /\ [PaceNext]_<<vars, history>> => Pace'
  <2> SUFFICES ASSUME TypeOK, Views, Passing, Pace,
                      [PaceNext]_<<vars, history>>
               PROVE  Pace'
    OBVIOUS
  <2>1. [Next]_vars
    BY PaceStep DEF vars
  <2>2. CASE QueryConnections /\ Asks("conn")
    BY <2>2, PaceAsk DEF QueryConnections, Tables, database, journal
  <2>3. CASE QueryLogins /\ Asks("login")
    BY <2>3, PaceAsk DEF QueryLogins, Tables, database, journal
  <2>4. CASE TableDone /\ Counts(pc)
    BY <2>4, PaceCount
  <2>5. CASE (QueryFails \/ Crash) /\ asked' = {} /\ UNCHANGED <<polled, overrun>>
    BY <2>5, PaceDrop
  <2>6. ASSUME UNCHANGED history, UNCHANGED fetched PROVE Pace'
    BY <2>1, <2>6, PaceGoesOn
  <2>7. ASSUME UNCHANGED history, NEW r \in Row, SettleRow(r) PROVE Pace'
    BY <2>1, <2>7, PaceGoesOn
  <2>8. Environment \/ Boot \/ Tick \/ SaveTruncate \/ SaveWrite \/ SaveFails
            => UNCHANGED fetched
    BY DEF Environment, OpenSession, CloseSession, Boot, Tick, SaveTruncate,
           SaveWrite, SaveFails
  <2>9. \A r \in Row : ReportStart(r) => UNCHANGED fetched
    BY DEF ReportStart
  <2>10. CASE UNCHANGED <<vars, history>>
    BY <2>6, <2>10 DEF vars
  <2> QED
    BY <2>2, <2>3, <2>4, <2>5, <2>6, <2>7, <2>8, <2>9, <2>10 DEF PaceNext
<1>3. Pace => NoneMissedInPace
  BY DEF Pace
<1> QED
  BY <1>1, <1>2, <1>3, PaceKnown, PTL DEF PaceSpec

=============================================================================
