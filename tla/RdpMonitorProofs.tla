-------------------------- MODULE RdpMonitorProofs --------------------------
(***************************************************************************)
(* Theorems about RdpMonitor, for any number of agents that share the      *)
(* cursor file, every window of the query and every bound.                 *)
(***************************************************************************)
EXTENDS RdpMonitor, TLAPS

(***************************************************************************)
(* Type correctness                                                        *)
(***************************************************************************)
\* What a query returns are remote-desktop logons.
LEMMA FetchedType == \A a \in Agent : Fetched(a) \in SUBSET accepts
BY DEF Fetched

\* Appending an accept, whether it succeeds or not, keeps the types of the log
\* and of what each run appended last.
LEMMA AppendType ==
    ASSUME TypeOK, NEW a \in Agent, NEW k \in accepts, AppendEvent(a, k)
    PROVE  /\ newest' \in [Agent -> 0..top]
           /\ {log', lost'} \subseteq SUBSET accepts
BY DEF AppendEvent, TypeOK

\* The types of every variable are kept by every step: in particular no agent
\* ever holds a record that is no remote-desktop logon, and no cursor, in memory
\* or in the shared file, gets ahead of the Security log.
THEOREM TypeCorrect == Spec => []TypeOK
<1>1. Init => TypeOK
  BY BoundAssumption DEF Init, TypeOK, None
<1>2. TypeOK /\ [Next]_vars => TypeOK'
  <2> SUFFICES ASSUME TypeOK, [Next]_vars PROVE TypeOK'
    OBVIOUS
  <2> USE DEF TypeOK
  <2>1. CASE Logon
    <3>1. top' \in 0..MaxRecord /\ top' = top + 1
      BY <2>1, BoundAssumption DEF Logon
    <3>2. accepts' \subseteq 1..top' /\ accepts \subseteq accepts'
      BY <2>1 DEF Logon
    <3>3. 0..top \subseteq 0..top'
      BY <3>1
    <3> QED
      BY <2>1, <3>1, <3>2, <3>3 DEF Logon, poll, journal
  <2>2. ASSUME NEW a \in Agent, Boot(a) PROVE TypeOK'
    BY <2>2 DEF Boot, Loaded, Goes, securityLog, poll, journal
  <2>3. ASSUME NEW a \in Agent, Query(a) \/ QueryDenied(a) PROVE TypeOK'
    BY <2>3, FetchedType
       DEF Query, QueryDenied, Answer, Goes, securityLog, journal
  <2>4. ASSUME NEW a \in Agent, QueryFails(a) PROVE TypeOK'
    BY <2>4 DEF QueryFails, Goes, securityLog, poll, journal
  <2>5. ASSUME NEW a \in Agent, NEW k \in accepts, AppendRecord(a, k)
        PROVE  TypeOK'
    BY <2>5, AppendType DEF AppendRecord, securityLog
  <2>6. ASSUME NEW a \in Agent, NEW k \in accepts, SkipRecord(a, k)
        PROVE  TypeOK'
    BY <2>6 DEF SkipRecord, securityLog, journal
  <2>7. ASSUME NEW a \in Agent, Advance(a) PROVE TypeOK'
    BY <2>7 DEF Advance, Advanced, Goes, securityLog, journal
  <2>8. ASSUME NEW a \in Agent, SaveTruncate(a) \/ SaveWrite(a) \/ SaveFails(a)
        PROVE  TypeOK'
    BY <2>8
       DEF SaveTruncate, SaveWrite, SaveFails, Goes, securityLog, poll, journal
  <2>9. ASSUME NEW a \in Agent, Tick(a) PROVE TypeOK'
    BY <2>9 DEF Tick, Goes, securityLog, poll, journal
  <2>10. ASSUME NEW a \in Agent, Crash(a) PROVE TypeOK'
    BY <2>10, BoundAssumption DEF Crash, Goes, securityLog
  <2>11. CASE UNCHANGED vars
    BY <2>11 DEF vars
  <2> QED
    BY <2>1, <2>2, <2>3, <2>4, <2>5, <2>6, <2>7, <2>8, <2>9, <2>10, <2>11
       DEF Next, Monitor
<1> QED
  BY <1>1, <1>2, PTL DEF Spec

(***************************************************************************)
(* Where the cursors stand                                                 *)
(***************************************************************************)
\* CursorWasLogged as an inductive invariant needs to say the same of pollRDP's
\* local copy, which becomes the cursor when the poll ends.
CopyWasLogged == \A a \in Agent : last[a] # 0 => Recorded(last[a])
CursorInv == CursorWasLogged /\ CopyWasLogged

\* The values a cursor may have.
Stand == {0} \cup log \cup lost

\* The two parts of the invariant, with the values in one set.
LEMMA CursorInvMeans ==
    CursorInv <=> /\ disk \in Stand
                  /\ \A a \in Agent : cursor[a] \in Stand /\ last[a] \in Stand
BY DEF CursorInv, CursorWasLogged, CopyWasLogged, Recorded, Stand

\* Appending adds the record to the log or to what was lost, and takes nothing
\* back.
LEMMA AppendStands ==
    ASSUME NEW a \in Agent, NEW k, AppendEvent(a, k)
    PROVE  Stand \subseteq Stand' /\ k \in Stand'
BY DEF AppendEvent, Stand

\* Every cursor, in the memory of each agent and in the file they share, stands
\* at a record that was handed to append: no failed, empty or denied query moves
\* one, and no agent's save makes the file name a record nobody appended.
THEOREM CursorsLogged == Spec => []CursorWasLogged
<1>1. Init => CursorInv
  BY DEF Init, None, CursorInv, CopyWasLogged, CursorWasLogged
<1>2. TypeOK /\ CursorInv /\ [Next]_vars => CursorInv'
  <2> SUFFICES ASSUME TypeOK, CursorInv, [Next]_vars PROVE CursorInv'
    OBVIOUS
  <2>1. /\ disk \in Stand
        /\ \A a \in Agent : cursor[a] \in Stand /\ last[a] \in Stand
    BY CursorInvMeans
  <2> SUFFICES /\ disk' \in Stand'
               /\ \A a \in Agent : cursor'[a] \in Stand' /\ last'[a] \in Stand'
    BY DEF CursorInv, CursorWasLogged, CopyWasLogged, Recorded, Stand
  <2>2. 0 \in Stand
    BY DEF Stand
  <2> USE <2>1, <2>2
  <2>3. ASSUME NEW a \in Agent, NEW k \in accepts, AppendRecord(a, k)
        PROVE  /\ disk' \in Stand'
               /\ \A b \in Agent : cursor'[b] \in Stand' /\ last'[b] \in Stand'
    <3>1. Stand \subseteq Stand' /\ k \in Stand'
      BY <2>3, AppendStands DEF AppendRecord
    <3> QED
      BY <2>3, <3>1 DEF AppendRecord, TypeOK
  <2>4. Stand' = Stand
        \/ \E a \in Agent, k \in accepts : AppendRecord(a, k)
    BY DEF Next, Monitor, Logon, Boot, Query, QueryDenied, QueryFails, Answer,
           SkipRecord, Advance, SaveTruncate, SaveWrite, SaveFails, Tick, Crash,
           vars, journal, Stand
  <2>5. CASE Stand' = Stand
             /\ ~\E a \in Agent, k \in accepts : AppendRecord(a, k)
    <3> USE <2>5 DEF TypeOK
    <3>1. CASE Logon
      BY <3>1 DEF Logon, poll
    <3>2. ASSUME NEW a \in Agent, Boot(a)
          PROVE  disk' = disk /\ last' = last
                 /\ \A b \in Agent : cursor'[b] \in Stand
      BY <3>2 DEF Boot, Loaded, poll
    <3>3. ASSUME NEW a \in Agent, Query(a) \/ QueryDenied(a)
          PROVE  disk' = disk /\ cursor' = cursor
                 /\ \A b \in Agent : last'[b] \in Stand
      BY <3>3 DEF Query, QueryDenied, Answer
    <3>4. ASSUME NEW a \in Agent,
                 QueryFails(a) \/ SaveFails(a) \/ Tick(a)
                 \/ \E k \in accepts : SkipRecord(a, k)
          PROVE  disk' = disk /\ cursor' = cursor /\ last' = last
      BY <3>4 DEF QueryFails, SaveFails, Tick, SkipRecord, poll
    <3>5. ASSUME NEW a \in Agent, Advance(a)
          PROVE  disk' = disk
                 /\ \A b \in Agent : cursor'[b] \in Stand /\ last'[b] \in Stand
      BY <3>5 DEF Advance, Advanced
    <3>6. ASSUME NEW a \in Agent, SaveTruncate(a) \/ SaveWrite(a)
          PROVE  disk' \in Stand /\ cursor' = cursor /\ last' = last
      BY <3>6 DEF SaveTruncate, SaveWrite, poll
    <3>7. ASSUME NEW a \in Agent, Crash(a)
          PROVE  disk' = disk
                 /\ \A b \in Agent : cursor'[b] \in Stand /\ last'[b] \in Stand
      BY <3>7 DEF Crash
    <3>8. CASE UNCHANGED vars
      BY <3>8 DEF vars
    <3> QED
      BY <3>1, <3>2, <3>3, <3>4, <3>5, <3>6, <3>7, <3>8 DEF Next, Monitor
  <2> QED
    BY <2>3, <2>4, <2>5
<1>3. CursorInv => CursorWasLogged
  BY DEF CursorInv
<1> QED
  BY <1>1, <1>2, <1>3, TypeCorrect, PTL DEF Spec

(***************************************************************************)
(* What one run appends                                                    *)
(***************************************************************************)
\* The inductive invariant behind AscendingPerRun. What a run has appended last
\* is never above the cursor its next comparison uses: pollRDP's copy while it
\* goes through an answer, and the cursor at any other time. A cursor loaded
\* from the file says nothing about earlier runs, so a run starts from zero.
Limit(a) == IF pc[a] = "apply" THEN last[a] ELSE cursor[a]
NewestInv ==
    \A a \in Agent : /\ newest[a] <= Limit(a)
                     /\ pc[a] = "down" => newest[a] = 0

\* The invariant holds of every behaviour.
LEMMA NewestCorrect == Spec => []NewestInv
<1>1. Init => NewestInv
  BY DEF Init, None, NewestInv, Limit
<1>2. TypeOK /\ NewestInv /\ [Next]_vars => NewestInv'
  <2> SUFFICES ASSUME TypeOK, NewestInv, [Next]_vars PROVE NewestInv'
    OBVIOUS
  <2> USE DEF NewestInv, Limit, TypeOK
  <2>1. CASE Logon
    BY <2>1 DEF Logon, poll, journal
  <2>2. ASSUME NEW a \in Agent, Boot(a) PROVE NewestInv'
    BY <2>2 DEF Boot, Loaded, Goes, poll, journal
  <2>3. ASSUME NEW a \in Agent, Query(a) \/ QueryDenied(a) PROVE NewestInv'
    BY <2>3 DEF Query, QueryDenied, Answer, Goes, journal
  <2>4. ASSUME NEW a \in Agent, QueryFails(a) PROVE NewestInv'
    BY <2>4 DEF QueryFails, Goes, poll, journal
  <2>5. ASSUME NEW a \in Agent, NEW k \in accepts, AppendRecord(a, k)
        PROVE  NewestInv'
    BY <2>5 DEF AppendRecord, AppendEvent
  <2>6. ASSUME NEW a \in Agent, NEW k \in accepts, SkipRecord(a, k)
        PROVE  NewestInv'
    BY <2>6 DEF SkipRecord, journal
  <2>7. ASSUME NEW a \in Agent, Advance(a) PROVE NewestInv'
    BY <2>7 DEF Advance, Advanced, Goes, journal
  <2>8. ASSUME NEW a \in Agent, SaveTruncate(a) \/ SaveWrite(a) \/ SaveFails(a)
        PROVE  NewestInv'
    BY <2>8 DEF SaveTruncate, SaveWrite, SaveFails, Goes, poll, journal
  <2>9. ASSUME NEW a \in Agent, Tick(a) PROVE NewestInv'
    BY <2>9 DEF Tick, Goes, poll, journal
  <2>10. ASSUME NEW a \in Agent, Crash(a) PROVE NewestInv'
    BY <2>10 DEF Crash, Goes
  <2>11. CASE UNCHANGED vars
    BY <2>11 DEF vars
  <2> QED
    BY <2>1, <2>2, <2>3, <2>4, <2>5, <2>6, <2>7, <2>8, <2>9, <2>10, <2>11
       DEF Next, Monitor
<1> QED
  BY <1>1, <1>2, TypeCorrect, PTL DEF Spec

\* A run of an agent appends records in strictly ascending order, so it reports
\* no logon twice, whatever the window repeats and whatever other agents write
\* to the cursor file.
THEOREM RunsAscend == Spec => AscendingPerRun
<1>1. TypeOK /\ NewestInv
      => \A a \in Agent, k \in accepts : AppendRecord(a, k) => k > newest[a]
  BY DEF TypeOK, NewestInv, Limit, AppendRecord, Fresh
<1> QED
  BY <1>1, TypeCorrect, NewestCorrect, PTL DEF Spec, AscendingPerRun
=============================================================================
