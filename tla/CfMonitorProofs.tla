--------------------------- MODULE CfMonitorProofs ---------------------------
(***************************************************************************)
(* Theorems about CfMonitor, for every set of lines, every way of clipping *)
(* them to keys, and every reach, retention and duration of a call that    *)
(* RetainAssumption allows.                                                *)
(***************************************************************************)
EXTENDS CfMonitor, TLAPS

(***************************************************************************)
(* The invariants                                                          *)
(***************************************************************************)
\* The clock does not run on past a call's end, nor while a poll is applied, and
\* no line is from the future.
TimeInv ==
    /\ TypeOK
    /\ \A l \in Line : emitted[l] \in 0..clock \cup {Never}
    /\ pc = "call" => clock - asked <= MaxCall
    /\ pc = "apply" => /\ now = clock
                       /\ \A l \in output : emitted[l] # Never /\ Reached(l)

\* A call that begins now, or the one under way, is too late for line l.
OutOfReach(l) ==
    /\ emitted[l] # Never
    /\ emitted[l] + Since < IF pc \in {"call", "apply"} THEN asked ELSE clock

\* The map holds the key of line l, from a time when l had been emitted.
Held(map, f, l) == map[Key(f, l)] # Never /\ emitted[l] <= map[Key(f, l)]

\* What this run has appended is still in its map or out of reach.
HandedInv ==
    /\ pc = "down" => handed = {}
    /\ \A e \in handed : Held(seen, e[1], e[2]) \/ OutOfReach(e[2])

\* A key that stands for one line only and survives the file.
Own(f, l) ==
    /\ Key(f, l) \notin Cut
    /\ \A m \in Line : Key(f, m) = Key(f, l) => m = l

\* What the file holds is in the map of the run that goes on, or out of reach.
SavedInv ==
    \A f \in Form, l \in Line :
        Own(f, l) =>
            /\ \A map \in {seen, disk} : map[Key(f, l)] # Never => Held(map, f, l)
            /\ pc # "down" /\ disk[Key(f, l)] # Never =>
                   Held(seen, f, l) \/ OutOfReach(l)

\* The log, or what was lost, has the key of the line in a form.
Logged(k) == \E e \in log \cup lost : Key(e[1], e[2]) = k
Reported(l) == \E f \in Form : Logged(Key(f, l))

\* Keys are remembered for what was handed to append, and the lines that the call
\* under way had to return are reported or still to be looked at.
MissedInv ==
    /\ \A map \in {seen, disk} : \A k \in Keys : map[k] # Never => Logged(k)
    /\ pc = "apply" =>
           \A l \in Line : emitted[l] < asked /\ Reached(l)
                             => l \in output \/ Reported(l)
    /\ \A l \in Line : emitted[l] < covered => Reported(l)

(***************************************************************************)
(* Types and time                                                          *)
(***************************************************************************)
\* The bounds are numbers, and Never is later than any time of the clock.
LEMMA Bounds ==
    /\ Since \in Nat /\ Retain \in Nat /\ MaxCall \in Nat /\ MaxTime \in Nat
    /\ MaxCrashes \in Nat /\ Never \in Nat
    /\ \A t \in 0..MaxTime : t < Never
BY TimeAssumption DEF Never

\* Every line has a key in each form.
LEMMA KeyType == \A f \in Form, l \in Line : Key(f, l) \in Keys
BY DEF Keys

\* Appending keeps the types of the log and of its auxiliary copies.
LEMMA AppendType ==
    ASSUME NEW e \in Lines, AppendEvent(e), {log, lost, handed} \subseteq SUBSET Lines
    PROVE  {log', lost', handed'} \subseteq SUBSET Lines
BY DEF AppendEvent

\* Types are kept, the clock keeps to the call under way, and a call returns only
\* lines that its reach includes.
LEMMA TimeStep == TimeInv /\ [Next]_vars => TimeInv'
<1> SUFFICES ASSUME TimeInv, [Next]_vars PROVE TimeInv'
  OBVIOUS
<1> USE Bounds DEF TimeInv, TypeOK
<1>1. CASE Tock
  <2>1. /\ clock' = clock + 1 /\ clock < MaxTime /\ pc' = pc
        /\ pc \in {"down", "idle", "call"}
        /\ pc = "call" => clock - asked < MaxCall
        /\ UNCHANGED <<emitted, form, asked, output, now, seen, disk, log, lost,
                       handed, crashes, covered>>
    BY <1>1 DEF Tock, call, journal, history
  <2>2. 0..clock \subseteq 0..clock'
    BY <2>1
  <2> QED
    BY <2>1, <2>2
<1>2. ASSUME NEW l \in Line, Emit(l) PROVE TimeInv'
  <2>1. /\ emitted' = [emitted EXCEPT ![l] = clock] /\ emitted[l] = Never
        /\ UNCHANGED <<clock, pc, form, asked, output, now, seen, disk, log,
                       lost, handed, crashes, covered>>
    BY <1>2 DEF Emit, call, journal, history
  <2>2. \A m \in Line : emitted[m] # Never => emitted'[m] = emitted[m]
    BY <2>1
  <2>3. clock \in Time
    BY DEF Time
  <2>4. /\ emitted' \in [Line -> Time]
        /\ \A m \in Line : emitted'[m] \in 0..clock \cup {Never}
    BY <2>1, <2>3
  <2> QED
    BY <2>1, <2>2, <2>4 DEF Reached
<1>3. CASE Boot
  BY <1>3 DEF Boot, Loaded, container, call, journal, history
<1>4. CASE Ask
  BY <1>4 DEF Ask, container, journal, history
<1>5. CASE Return
  <2>1. /\ now' = clock /\ pc' = "apply"
        /\ UNCHANGED <<clock, emitted, form, asked, disk, log, lost, handed,
                       crashes, covered>>
    BY <1>5 DEF Return, container, journal, history
  <2>2. seen' \in [Keys -> 0..clock \cup {Never}]
    BY <1>5 DEF Return
  <2>3. output' \subseteq {l \in Line : Reached(l)}
    BY <1>5 DEF Return
  <2> QED
    BY <2>1, <2>2, <2>3 DEF Reached
<1>6. CASE CallFails
  BY <1>6 DEF CallFails, Leave, container, journal, history, Form
<1>7. ASSUME NEW l \in Line, AppendLine(l) PROVE TimeInv'
  <2>1. <<form, l>> \in Lines /\ Key(form, l) \in Keys
    BY KeyType DEF Lines
  <2>2. {log', lost', handed'} \subseteq SUBSET Lines
    BY <1>7, <2>1, AppendType DEF AppendLine
  <2>3. seen' \in [Keys -> 0..clock \cup {Never}]
    BY <1>7, <2>1 DEF AppendLine, Stamp
  <2> QED
    BY <1>7, <2>2, <2>3 DEF AppendLine, container, history, Reached
<1>8. ASSUME NEW l \in Line, SkipLine(l) PROVE TimeInv'
  BY <1>8 DEF SkipLine, container, journal, history, Reached
<1>9. CASE Applied
  BY <1>9 DEF Applied, Leave, container, journal, Form
<1>10. CASE SaveTruncate \/ SaveWrite \/ SaveFails
  BY <1>10
     DEF SaveTruncate, SaveWrite, SaveFails, Unseen, container, call, journal,
         history
<1>11. CASE Crash
  BY <1>11 DEF Crash, Leave, Unseen, container, Form
<1>12. CASE UNCHANGED vars
  BY <1>12 DEF vars, Reached
<1> QED
  BY <1>1, <1>2, <1>3, <1>4, <1>5, <1>6, <1>7, <1>8, <1>9, <1>10, <1>11, <1>12
     DEF Next, Monitor

\* Types and time hold in every behaviour.
LEMMA TimeCorrect == Spec => []TimeInv
<1>1. Init => TimeInv
  BY Bounds DEF Init, TimeInv, TypeOK, Time, Unseen, Form
<1> QED
  BY <1>1, TimeStep, PTL DEF Spec

\* Every variable keeps its type, and no entry of a map, in memory or in the
\* cursor file, is from the future.
THEOREM TypeCorrect == Spec => []TypeOK
<1>1. TimeInv => TypeOK
  BY DEF TimeInv
<1> QED
  BY <1>1, TimeCorrect, PTL

(***************************************************************************)
(* What is forgotten is out of reach                                       *)
(***************************************************************************)
\* Once out of reach, a line stays so: calls begin later and later.
LEMMA OutOfReachStays ==
    ASSUME TimeInv, [Next]_vars, NEW l \in Line, OutOfReach(l)
    PROVE  OutOfReach(l)'
<1> USE Bounds DEF OutOfReach, TimeInv, TypeOK
<1>1. CASE Tock
  BY <1>1 DEF Tock, call
<1>2. ASSUME NEW m \in Line, Emit(m) PROVE OutOfReach(l)'
  BY <1>2 DEF Emit, call
<1>3. CASE Boot \/ Ask \/ Return \/ CallFails
  BY <1>3 DEF Boot, Ask, Return, CallFails, Leave, container, call
<1>4. ASSUME NEW m \in Line, AppendLine(m) \/ SkipLine(m) PROVE OutOfReach(l)'
  BY <1>4 DEF AppendLine, SkipLine, container
<1>5. CASE Applied \/ SaveTruncate \/ SaveWrite \/ SaveFails \/ Crash
  BY <1>5
     DEF Applied, SaveTruncate, SaveWrite, SaveFails, Crash, Leave, container,
         call
<1>6. CASE UNCHANGED vars
  BY <1>6 DEF vars
<1> QED
  BY <1>1, <1>2, <1>3, <1>4, <1>5, <1>6 DEF Next, Monitor

\* The heart of the deduplication: a step of a run forgets the key of a line that
\* it has held only when the line is out of reach of this call and of every later
\* one. Here the retention must cover the reach and the duration of the call.
LEMMA ForgottenIsOutOfReach ==
    ASSUME TimeInv, [Next]_vars, pc # "down", pc' # "down",
           NEW f \in Form, NEW l \in Line, Held(seen, f, l)
    PROVE  Held(seen, f, l)' \/ OutOfReach(l)'
<1> USE Bounds, KeyType DEF Held, TimeInv, TypeOK
<1> DEFINE k == Key(f, l)
<1>1. k \in Keys /\ emitted[l] # Never
  <2>1. seen[k] \in 0..clock
    BY DEF Never
  <2> QED
    BY <2>1
<1>2. CASE Return
  <2>1. CASE Expired(k, clock)
    <3>1. /\ clock - seen[k] > Retain /\ clock - asked <= MaxCall
          /\ Since + MaxCall <= Retain
          /\ seen[k] \in 0..clock /\ asked \in 0..clock /\ emitted[l] \in 0..clock
      BY <1>1, <1>2, <2>1, RetainAssumption DEF Expired, Return
    <3>2. emitted[l] + Since < asked
      BY <3>1
    <3> QED
      BY <1>1, <1>2, <3>2 DEF Return, OutOfReach, container
  <2>2. CASE ~Expired(k, clock)
    BY <1>1, <1>2, <2>2 DEF Return, container
  <2> QED
    BY <2>1, <2>2
<1>3. ASSUME NEW m \in Line, AppendLine(m)
      PROVE  Held(seen, f, l)'
  <2>1. /\ seen' = [seen EXCEPT ![Key(form, m)] = now]
        /\ emitted' = emitted /\ now = clock
    BY <1>3 DEF AppendLine, Stamp, container
  <2>2. now # Never /\ emitted[l] <= now
    BY <1>1, <2>1
  <2> QED
    BY <1>1, <2>1, <2>2
<1>4. ASSUME NEW m \in Line, Emit(m) PROVE Held(seen, f, l)'
  BY <1>1, <1>4 DEF Emit
<1>5. CASE UNCHANGED <<seen, emitted>>
  BY <1>5
<1>6. \/ UNCHANGED <<seen, emitted>>
      \/ Return
      \/ \E m \in Line : AppendLine(m) \/ Emit(m)
  BY DEF Next, Monitor, Tock, Boot, Ask, CallFails, SkipLine, Applied,
         SaveTruncate, SaveWrite, SaveFails, Crash, vars, container
<1> QED
  BY <1>2, <1>3, <1>4, <1>5, <1>6

\* A line that a call returned is not out of its reach.
LEMMA ReturnedIsInReach ==
    ASSUME TimeInv, NEW l \in Line, pc = "apply", l \in output
    PROVE  ~OutOfReach(l) /\ emitted[l] <= now
<1>1. /\ emitted[l] \in 0..clock /\ emitted[l] + Since >= asked
      /\ now = clock /\ asked \in Nat /\ clock \in Nat
  BY Bounds DEF TimeInv, TypeOK, Reached
<1> QED
  BY <1>1, Bounds DEF OutOfReach

(***************************************************************************)
(* No line twice in one run                                                *)
(***************************************************************************)
\* A run remembers what it has appended for as long as it could see it again.
LEMMA HandedStep == TimeInv /\ HandedInv /\ [Next]_vars => HandedInv'
<1> SUFFICES ASSUME TimeInv, HandedInv, [Next]_vars PROVE HandedInv'
  OBVIOUS
<1>1. \A e \in handed : e[1] \in Form /\ e[2] \in Line
  BY DEF TimeInv, TypeOK, Lines
<1>2. CASE pc = "down"
  <2>1. handed = {}
    BY <1>2 DEF HandedInv
  <2>2. handed' = {}
    BY <1>2, <2>1
       DEF Next, Monitor, Tock, Emit, Boot, Ask, Return, CallFails, AppendLine,
           SkipLine, Applied, SaveTruncate, SaveWrite, SaveFails, Crash, vars,
           journal
  <2> QED
    BY <2>2 DEF HandedInv
<1>3. CASE Crash
  BY <1>3 DEF Crash, HandedInv
<1>4. CASE pc # "down" /\ ~Crash
  <2>1. pc' # "down"
    BY <1>4
       DEF Next, Monitor, Tock, Emit, Boot, Ask, Return, CallFails, AppendLine,
           SkipLine, Applied, SaveTruncate, SaveWrite, SaveFails, vars
  <2>2. ASSUME NEW e \in handed
        PROVE  (Held(seen, e[1], e[2]) \/ OutOfReach(e[2]))'
    BY <1>1, <1>4, <2>1, OutOfReachStays, ForgottenIsOutOfReach DEF HandedInv
  <2>3. ASSUME NEW l \in Line, AppendLine(l)
        PROVE  handed' = handed \cup {<<form, l>>} /\ Held(seen, form, l)'
    <3>1. /\ pc = "apply" /\ l \in output
          /\ seen' = [seen EXCEPT ![Key(form, l)] = now]
          /\ form' = form /\ emitted' = emitted
          /\ handed' = handed \cup {<<form, l>>}
      BY <2>3 DEF AppendLine, AppendEvent, IsNext, Stamp, container
    <3>2. emitted[l] <= now /\ now # Never
      BY <3>1, ReturnedIsInReach, Bounds DEF TimeInv, TypeOK
    <3> QED
      BY <3>1, <3>2, KeyType DEF Held, TimeInv, TypeOK
  <2>4. ASSUME ~\E l \in Line : AppendLine(l) PROVE handed' = handed
    BY <1>4, <2>4
       DEF Next, Monitor, Tock, Emit, Boot, Ask, Return, CallFails, SkipLine,
           Applied, SaveTruncate, SaveWrite, SaveFails, vars, journal
  <2>5. CASE \E l \in Line : AppendLine(l)
    <3>1. PICK l \in Line : AppendLine(l)
      BY <2>5
    <3>2. /\ handed' = handed \cup {<<form, l>>} /\ Held(seen, form, l)'
          /\ form' = form
      BY <2>3, <3>1 DEF AppendLine
    <3>3. ASSUME NEW e \in handed'
          PROVE  (Held(seen, e[1], e[2]) \/ OutOfReach(e[2]))'
      BY <2>2, <3>2
    <3> QED
      BY <2>1, <3>3 DEF HandedInv
  <2> QED
    BY <2>1, <2>2, <2>4, <2>5 DEF HandedInv
<1> QED
  BY <1>2, <1>3, <1>4

\* One run appends a line at most once in each form: the retention of a key
\* outlasts every call that could return its line again.
THEOREM LinesOncePerRun == Spec => LineOncePerRun
<1>1. Init => HandedInv
  BY DEF Init, HandedInv
<1>2. Spec => []HandedInv
  BY <1>1, HandedStep, TimeCorrect, PTL DEF Spec
<1>3. TimeInv /\ HandedInv
      => \A l \in Line : AppendLine(l) => <<form, l>> \notin handed
  BY ReturnedIsInReach DEF HandedInv, AppendLine, IsNext, IsSeen, Held
<1> QED
  BY <1>2, <1>3, TimeCorrect, PTL DEF LineOncePerRun

(***************************************************************************)
(* No line again after a restart                                           *)
(***************************************************************************)
\* A key that stands for one line is the key of no other line in any form.
LEMMA OwnKey ==
    ASSUME NEW f \in Form, NEW l \in Line, Own(f, l), NEW g \in Form, NEW m \in Line,
           Key(g, m) = Key(f, l)
    PROVE  g = f /\ m = l
BY FormAssumption DEF Own, Form

\* What the file holds of a line is held in memory too, until it is out of reach.
LEMMA SavedStep == TimeInv /\ SavedInv /\ [Next]_vars => SavedInv'
<1> SUFFICES ASSUME TimeInv, SavedInv, [Next]_vars,
                    NEW f \in Form, NEW l \in Line, Own(f, l)
             PROVE  LET k == Key(f, l)
                    IN  /\ seen'[k] # Never => Held(seen, f, l)'
                        /\ disk'[k] # Never => Held(disk, f, l)'
                        /\ pc' # "down" /\ disk'[k] # Never =>
                               Held(seen, f, l)' \/ OutOfReach(l)'
  BY DEF SavedInv, Held
<1> DEFINE k == Key(f, l)
<1>1. /\ k \in Keys /\ k \notin Cut
      /\ seen[k] # Never => Held(seen, f, l)
      /\ disk[k] # Never => Held(disk, f, l)
      /\ pc # "down" /\ disk[k] # Never => Held(seen, f, l) \/ OutOfReach(l)
  BY KeyType DEF SavedInv, Own
<1> HIDE DEF k
<1> USE Bounds DEF TimeInv, TypeOK
\* Moving on, a run keeps in memory what it holds, or is past needing it.
<1>2. ASSUME pc # "down", pc' # "down", disk' = disk
      PROVE  disk'[k] # Never => Held(seen, f, l)' \/ OutOfReach(l)'
  BY <1>1, <1>2, ForgottenIsOutOfReach, OutOfReachStays
<1>3. ASSUME UNCHANGED <<seen, emitted>>
      PROVE  seen'[k] # Never => Held(seen, f, l)'
  BY <1>1, <1>3 DEF Held
<1>4. ASSUME UNCHANGED <<disk, emitted>>
      PROVE  disk'[k] # Never => Held(disk, f, l)'
  BY <1>1, <1>4 DEF Held
<1>5. ASSUME NEW m \in Line, Emit(m)
      PROVE  /\ seen'[k] # Never => Held(seen, f, l)'
             /\ disk'[k] # Never => Held(disk, f, l)'
             /\ pc' = pc /\ disk' = disk /\ seen' = seen
  <2>1. /\ seen' = seen /\ disk' = disk /\ pc' = pc
        /\ emitted' = [emitted EXCEPT ![m] = clock] /\ emitted[m] = Never
    BY <1>5 DEF Emit
  <2>2. \A map \in {seen, disk} : map[k] # Never /\ emitted[l] <= map[k] => l # m
    BY <1>1, <2>1 DEF k
  <2> QED
    BY <1>1, <2>1, <2>2 DEF Held, k
<1>6. ASSUME NEW m \in Line, Emit(m), pc = "down"
      PROVE  pc' = "down"
  BY <1>6 DEF Emit
<1>7. CASE Return
  <2>1. /\ emitted' = emitted /\ disk' = disk /\ pc = "call" /\ pc' = "apply"
        /\ seen'[k] # Never => seen'[k] = seen[k]
    BY <1>1, <1>7 DEF Return, container
  <2> QED
    BY <1>1, <1>2, <1>4, <2>1 DEF Held, k
<1>8. ASSUME NEW m \in Line, AppendLine(m)
      PROVE  /\ seen'[k] # Never => Held(seen, f, l)'
             /\ emitted' = emitted /\ disk' = disk /\ pc' = "apply" /\ pc = "apply"
  <2>1. /\ seen' = [seen EXCEPT ![Key(form, m)] = now] /\ m \in output
        /\ emitted' = emitted /\ disk' = disk /\ pc' = "apply" /\ pc = "apply"
    BY <1>8 DEF AppendLine, Stamp, IsNext, container
  <2>2. CASE Key(form, m) = k
    <3>1. m = l
      BY <2>2, OwnKey DEF k
    <3>2. emitted[l] <= now /\ now # Never
      BY <2>1, <3>1, ReturnedIsInReach
    <3> QED
      BY <1>1, <2>1, <2>2, <3>2 DEF Held, k
  <2>3. CASE Key(form, m) # k
    BY <1>1, <2>1, <2>3 DEF Held, k
  <2> QED
    BY <2>1, <2>2, <2>3
<1>9. CASE Boot
  <2>1. seen'[k] = disk[k] /\ disk' = disk /\ emitted' = emitted
    BY <1>1, <1>9 DEF Boot, Loaded, container
  <2> QED
    BY <1>1, <2>1 DEF Held, k
<1>10. CASE SaveTruncate
  <2>1. disk'[k] = Never /\ seen' = seen /\ emitted' = emitted
    BY <1>1, <1>10 DEF SaveTruncate, Unseen, container
  <2> QED
    BY <1>3, <2>1 DEF k
<1>11. CASE SaveWrite
  <2>1. disk' = seen /\ seen' = seen /\ emitted' = emitted
    BY <1>11 DEF SaveWrite, container
  <2> QED
    BY <1>1, <2>1 DEF Held, k
<1>12. CASE Crash
  <2>1. /\ seen'[k] = Never /\ disk' = disk /\ emitted' = emitted
        /\ pc' = "down"
    BY <1>1, <1>12 DEF Crash, Unseen, container
  <2> QED
    BY <1>4, <2>1 DEF k
<1>13. CASE \/ Tock \/ Ask \/ CallFails \/ Applied \/ SaveFails
            \/ (\E m \in Line : SkipLine(m)) \/ UNCHANGED vars
  <2>1. UNCHANGED <<seen, disk, emitted>> /\ (pc = "down" <=> pc' = "down")
    BY <1>13
       DEF Tock, Ask, CallFails, Applied, SaveFails, SkipLine, vars, container
  <2> QED
    BY <1>2, <1>3, <1>4, <2>1 DEF k
<1>14. CASE \E m \in Line : Emit(m)
  BY <1>2, <1>5, <1>6, <1>14 DEF k
<1>15. CASE \E m \in Line : AppendLine(m)
  BY <1>2, <1>4, <1>8, <1>15 DEF k
<1> QED
  BY <1>7, <1>9, <1>10, <1>11, <1>12, <1>13, <1>14, <1>15
     DEF Next, Monitor, k

\* A line whose key the cursor file holds is appended by no run, neither the one
\* that saved the key nor one that loads it, if the key is its own and was not
\* cut inside a character.
THEOREM SavedLinesStay == Spec => SavedLineNotRepeated
<1>1. Init => SavedInv
  BY Bounds, KeyType DEF Init, SavedInv, Unseen
<1>2. Spec => []SavedInv
  BY <1>1, SavedStep, TimeCorrect, PTL DEF Spec
<1>3. TimeInv /\ SavedInv
      => \A l \in Line :
           /\ AppendLine(l)
           /\ Key(form, l) \notin Cut
           /\ \A m \in Line : Key(form, m) = Key(form, l) => m = l
           => disk[Key(form, l)] = Never
  <2> SUFFICES ASSUME TimeInv, SavedInv, NEW l \in Line, AppendLine(l),
                      Own(form, l)
               PROVE  disk[Key(form, l)] = Never
    BY DEF Own
  <2>1. pc = "apply" /\ l \in output /\ seen[Key(form, l)] = Never
    BY DEF AppendLine, IsNext, IsSeen
  <2>2. ~OutOfReach(l) /\ form \in Form
    BY <2>1, ReturnedIsInReach DEF TimeInv, TypeOK
  <2> QED
    BY <2>1, <2>2 DEF SavedInv, Held
<1> QED
  BY <1>2, <1>3, TimeCorrect, PTL DEF SavedLineNotRepeated

(***************************************************************************)
(* No line missed                                                          *)
(***************************************************************************)
\* Nothing that was appended, or whose append failed, is taken back.
LEMMA LoggedStays ==
    ASSUME [Next]_vars
    PROVE  log \cup lost \subseteq log' \cup lost'
BY DEF Next, Monitor, Tock, Emit, Boot, Ask, Return, CallFails, AppendLine,
       AppendEvent, SkipLine, Applied, SaveTruncate, SaveWrite, SaveFails, Crash,
       vars, journal

\* So what is reported stays reported.
LEMMA ReportedStays ==
    ASSUME [Next]_vars
    PROVE  /\ \A k : Logged(k) => Logged(k)'
           /\ \A l : Reported(l) => Reported(l)'
BY LoggedStays DEF Logged, Reported

\* The maps hold only keys of what was handed to append, and each call that is
\* applied whole covers all that was emitted before it began.
LEMMA MissedStep == TimeInv /\ MissedInv /\ [Next]_vars => MissedInv'
<1> SUFFICES ASSUME TimeInv, MissedInv, [Next]_vars PROVE MissedInv'
  OBVIOUS
<1> USE Bounds DEF TimeInv, TypeOK
<1>1. /\ \A k \in Keys : (seen[k] # Never => Logged(k))
                         /\ (disk[k] # Never => Logged(k))
      /\ \A l \in Line : emitted[l] < covered => Reported(l)
      /\ pc = "apply" =>
           \A l \in Line : emitted[l] < asked /\ Reached(l)
                             => l \in output \/ Reported(l)
  BY DEF MissedInv
<1> DEFINE Maps == \A k \in Keys : (seen'[k] # Never => Logged(k)')
                                   /\ (disk'[k] # Never => Logged(k)')
<1> DEFINE Rest == \A l \in Line : emitted'[l] < asked' /\ Reached(l)'
                                    => l \in output' \/ Reported(l)'
<1> DEFINE Past == \A l \in Line : emitted'[l] < covered' => Reported(l)'
<1> SUFFICES Maps /\ Past /\ (pc' = "apply" => Rest)
  BY DEF MissedInv
<1> HIDE DEF TypeOK
<1>2. ASSUME UNCHANGED <<emitted, covered>> PROVE Past
  BY <1>1, <1>2, ReportedStays
<1>3. ASSUME UNCHANGED <<seen, disk>> PROVE Maps
  BY <1>1, <1>3, ReportedStays
<1> USE DEF TypeOK
<1>4. ASSUME NEW m \in Line, Emit(m) PROVE MissedInv'
  <2>1. /\ emitted' = [emitted EXCEPT ![m] = clock] /\ emitted[m] = Never
        /\ UNCHANGED <<pc, asked, output, seen, disk, covered>>
    BY <1>4 DEF Emit, call, history
  <2>2. Past
    BY <1>1, <2>1, ReportedStays
  <2>3. pc' = "apply" => Rest
    BY <1>1, <2>1, ReportedStays DEF Reached
  <2> QED
    BY <1>3, <2>1, <2>2, <2>3 DEF MissedInv
<1>5. CASE Return
  <2>1. \A k \in Keys : seen'[k] # Never => seen'[k] = seen[k]
    BY <1>5 DEF Return
  <2>2. Maps
    BY <1>1, <1>5, <2>1, ReportedStays DEF Return
  <2>3. Rest
    BY <1>5 DEF Return, Reached, container
  <2> QED
    BY <1>2, <1>5, <2>2, <2>3 DEF Return, container, history, MissedInv
<1>6. ASSUME NEW m \in Line, AppendLine(m) PROVE MissedInv'
  <2>1. /\ seen' = [seen EXCEPT ![Key(form, m)] = now]
        /\ output' = output \ {m}
        /\ <<form, m>> \in log' \cup lost'
        /\ UNCHANGED <<emitted, form, asked, disk, covered>> /\ pc = "apply"
    BY <1>6 DEF AppendLine, AppendEvent, Stamp, container, history
  <2>2. Logged(Key(form, m))'
    BY <2>1 DEF Logged
  <2>3. Reported(m)'
    <3>1. \E e \in log' \cup lost' : Key(e[1], e[2]) = Key(form, m)
      BY <2>1
    <3> QED
      BY <3>1 DEF Reported, Logged
  <2>4. Maps
    <3>1. \A k \in Keys : seen'[k] = seen[k] \/ k = Key(form, m)
      BY <2>1
    <3> QED
      BY <1>1, <2>1, <2>2, <3>1, ReportedStays
  <2>5. Rest
    BY <1>1, <2>1, <2>3, ReportedStays DEF Reached
  <2> QED
    BY <1>2, <2>1, <2>4, <2>5 DEF MissedInv
<1>7. ASSUME NEW m \in Line, SkipLine(m) PROVE MissedInv'
  <2>1. /\ output' = output \ {m} /\ seen[Key(form, m)] # Never
        /\ UNCHANGED <<emitted, asked, seen, disk, covered>> /\ pc = "apply"
    BY <1>7 DEF SkipLine, IsSeen, container, history
  <2>2. Reported(m)
    BY <1>1, <2>1, KeyType DEF Reported
  <2>3. Rest
    BY <1>1, <2>1, <2>2, ReportedStays DEF Reached
  <2> QED
    BY <1>2, <1>3, <2>1, <2>3 DEF MissedInv
<1>8. CASE Applied
  <2>1. /\ pc = "apply" /\ output = {} /\ pc' = "save"
        /\ UNCHANGED <<emitted, seen, disk>>
        /\ covered' = IF asked <= covered + Since THEN asked ELSE covered
    BY <1>8 DEF Applied, container
  <2>2. ASSUME NEW l \in Line, emitted[l] < covered' PROVE Reported(l)
    <3>1. CASE emitted[l] < covered
      BY <1>1, <3>1
    <3>2. CASE ~(emitted[l] < covered)
      <4>1. /\ emitted[l] < asked /\ emitted[l] + Since >= asked
            /\ asked \in 0..clock /\ emitted[l] \in Nat
        BY <2>1, <2>2, <3>2
      <4>2. Reached(l)
        BY <4>1 DEF Reached
      <4> QED
        BY <1>1, <2>1, <4>1, <4>2
    <3> QED
      BY <3>1, <3>2
  <2>3. Past
    BY <2>1, <2>2, ReportedStays
  <2> QED
    BY <1>3, <2>1, <2>3 DEF MissedInv
<1>9. CASE Boot
  BY <1>1, <1>2, <1>9, ReportedStays
     DEF Boot, Loaded, container, history, MissedInv
<1>10. CASE SaveTruncate \/ SaveWrite \/ Crash
  BY <1>1, <1>2, <1>10, ReportedStays
     DEF SaveTruncate, SaveWrite, Crash, Unseen, container, history, MissedInv
<1>11. CASE Tock \/ Ask \/ CallFails \/ SaveFails
  BY <1>2, <1>3, <1>11
     DEF Tock, Ask, CallFails, SaveFails, container, history, MissedInv
<1>12. CASE UNCHANGED vars
  <2>1. pc' = "apply" => Rest
    BY <1>1, <1>12, ReportedStays DEF vars, Reached
  <2> QED
    BY <1>2, <1>3, <1>12, <2>1 DEF vars, MissedInv
<1> QED
  BY <1>4, <1>5, <1>6, <1>7, <1>8, <1>9, <1>10, <1>11, <1>12
     DEF Next, Monitor, MissedInv

\* While polls begin at most Since apart, no line is missed: whatever is not in
\* the log, or was lost on the way to it, shares its key with a line that is.
THEOREM NoLinesMissed == Spec => []NoLineMissed
<1>1. Init => MissedInv
  BY Bounds DEF Init, MissedInv, Unseen
<1>2. TimeInv /\ MissedInv => NoLineMissed
  <2> SUFFICES ASSUME TimeInv, MissedInv, NEW l \in Line, emitted[l] < covered
               PROVE  \E e \in log \cup lost : Key(e[1], e[2]) = Key(e[1], l)
    BY DEF NoLineMissed
  <2>1. PICK f \in Form, e \in log \cup lost : Key(e[1], e[2]) = Key(f, l)
    BY DEF MissedInv, Reported, Logged
  <2>2. e[1] \in Form /\ e[2] \in Line
    BY DEF TimeInv, TypeOK, Lines
  <2>3. e[1] = f
    BY <2>1, <2>2, FormAssumption DEF Form
  <2> QED
    BY <2>1, <2>3
<1> QED
  BY <1>1, <1>2, MissedStep, TimeCorrect, PTL DEF Spec
=============================================================================
